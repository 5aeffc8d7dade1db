CONSTANTS
    Nobody = Nobody
    ItemCount = 50
    BucketCapacity = 10
SPECIFICATION Spec
INVARIANTS IInv CodeAsserts NoLostWakeup NoStall
PROPERTIES ImplementsBucket Terminates
