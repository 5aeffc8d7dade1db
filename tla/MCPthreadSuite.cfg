CONSTANTS
    MaxThreads = 6
    N_THR_E = 3
    BOUNCES = 64
    DelaySuffices = TRUE
    YieldsSuffice = TRUE
    Half = 4
    MaxDelay = 1
SPECIFICATION Spec
INVARIANTS Inv GoesRound BroadcastReachesAll BarrierHolds PoolSuffices SyncFreeBetweenTests JoinsInTime
PROPERTIES Terminates
