CONSTANTS
    PingCount = 3
    Loops = 1
SPECIFICATION Spec
INVARIANT NoDataRace
