CONSTANTS
    N_THR_E = 3
    BOUNCES = 2
    DelaySuffices = TRUE
    YieldsSuffice = FALSE
SPECIFICATION Spec
PROPERTY EndsAsleep
CHECK_DEADLOCK FALSE
