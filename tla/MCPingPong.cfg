CONSTANTS
    PingCount = 50
    Loops = 4
SPECIFICATION Spec
INVARIANTS Inv NoRaceInHandover
PROPERTIES Alternation Terminates
