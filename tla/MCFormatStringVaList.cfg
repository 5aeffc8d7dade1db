CONSTANTS
    SizeMax = 15
    IntMax = 7
    MaxSize = 5
    ArgsByReference = TRUE
SPECIFICATION Spec
INVARIANT SizeAsPromised
CHECK_DEADLOCK FALSE
