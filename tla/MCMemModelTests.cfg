CONSTANTS
    array_size = 3
    Readers = {r1, r2, r3, r4}
    Writer = w
    Rounds = 3
    Pairs = 3
    Loops = 2
SPECIFICATION Spec
INVARIANTS Inv NoDataRace
PROPERTIES PublicationStands TurnsInOrder Terminates
