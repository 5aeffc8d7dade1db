CONSTANTS
    Nobody = Nobody
    ItemCount = 50
    BucketCapacity = 10
SPECIFICATION Spec
INVARIANTS IInv AliveWhileUsed
PROPERTIES ImplementsBucket Terminates
