CONSTANTS
    SizeMax = 15
    IntMax = 7
    MaxSize = 5
    ArgsByReference = FALSE
SPECIFICATION Spec
INVARIANTS Inv SizeAsPromised
CHECK_DEADLOCK FALSE
