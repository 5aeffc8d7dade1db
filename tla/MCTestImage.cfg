CONSTANTS
    Nobody = Nobody
    KeyIds <- FourIds
    POSIX_THREAD_THREADS_MAX = 6
    MAX_PTHREAD_COND_COUNT = 7
    SpuriousWaiters <- WaitingThreads
    Handles = {h1, h2, h3, h4}
SPECIFICATION ImageSpec
INVARIANTS ImageInv PoolsSuffice
PROPERTIES RoundRobin Terminates
