CONSTANT Nobody = Nobody
SPECIFICATION Spec
INVARIANTS Inv HandlersOverlap
PROPERTIES StatesInOrder Terminates
