---------------------------- MODULE PthreadSuite ----------------------------
(***************************************************************************)
(* src/tests/pthread/src/pthread.c, the suite: the tests of ThreadTests,   *)
(* between them test_pthread_execution (BounceBarrier) and behind them the *)
(* two of JoinTiming.  They share the mutex, the two condition variables   *)
(* and the pool of threads; a test starts from what the tests before it    *)
(* have left there, and the detached threads of test_pthread_termination   *)
(* may outlive it.                                                         *)
(***************************************************************************)
EXTENDS ThreadTests

CONSTANTS
    N_THR_E, BOUNCES, DelaySuffices, YieldsSuffice,    \* of BounceBarrier
    Half, MaxDelay                                     \* of JoinTiming

VARIABLES
    pc, i, main_sem, curr_bounce_thread, bounce_done, barrier_done, barrier, barrier_return,
    now, at, due, not_done, done, thread, change, result

executionVars == <<pc, i, main_sem, curr_bounce_thread, bounce_done, barrier_done,
                   barrier, barrier_return>>
execution == <<sync, executionVars>>
testVars == <<ip, mode, threads, name, flags>>
joinVars == <<now, at, due, not_done, done, thread, change, result>>
suiteVars == <<vars, executionVars, joinVars>>

Execution == INSTANCE BounceBarrier
Joins == INSTANCE JoinTiming

ASSUME SuiteAssumption ==
    Execution!BounceAssumption /\ Joins!TimingAssumption /\ MaxThreads \in Nat \ {0}

SuiteInit == Init /\ Execution!Init /\ Joins!Init

\* test_pthread_execution is the test that runs.
Executing == Runs(Main, "execution")

ExecutionStep == Executing /\ Execution!Next /\ UNCHANGED <<testVars, joinVars>>

\* Its threads have been joined.  The semaphore and the results of the barrier
\* are never looked at again, and the model forgets them.
ExecutionEnds ==
    /\ Executing
    /\ Execution!Done
    /\ Advance(Main)
    /\ main_sem' = 0
    /\ barrier' = <<>>
    /\ barrier_return' = [t \in Execution!Workers |-> 0]
    /\ UNCHANGED <<sync, pc, i, curr_bounce_thread, bounce_done, barrier_done,
                   mode, threads, name, flags, joinVars>>

\* test_pthread_timedjoin, then test_pthread_tryjoin.
Joining == Runs(Main, "joins")

JoinStep == Joining /\ Joins!Next /\ UNCHANGED <<vars, executionVars>>

JoinsEnd ==
    /\ Joining
    /\ Joins!Done
    /\ Advance(Main)
    /\ UNCHANGED <<sync, mode, threads, name, flags, executionVars, joinVars>>

TestStep == Next /\ UNCHANGED <<executionVars, joinVars>>

Finished == Done /\ UNCHANGED suiteVars

SuiteNext ==
    ExecutionStep \/ ExecutionEnds \/ JoinStep \/ JoinsEnd \/ TestStep \/ Finished

\* Every thread that can run does, at last; those of test_pthread_execution
\* exist only while it is on.  In the tests that time orders the clock goes on.
Spec ==
    /\ SuiteInit /\ [][SuiteNext]_suiteVars
    /\ Fairness
    /\ \A t \in Execution!Workers :
          WF_execution(Executing /\ (Execution!Bounce(t) \/ Execution!LineUp(t)))
    /\ WF_execution(Executing /\ Execution!MainThread)
    /\ WF_suiteVars(ExecutionEnds)
    /\ WF_joinVars(Joining /\ Joins!Thread)
    /\ WF_joinVars(Joining /\ Joins!MainThread)
    /\ WF_joinVars(Joining /\ Joins!Tick)
    /\ WF_suiteVars(JoinsEnd)

-----------------------------------------------------------------------------
\* Every test holds: the types, and all of its zasserts.
Inv ==
    /\ TypeOK
    /\ ChecksHold
    /\ Executing => Execution!TypeOK /\ Execution!NoRace
    /\ Joining => Joins!TypeOK

\* "Next one's turn" (line 121): the ownership of the bounce phase goes round.
GoesRound == Executing => Execution!GoesRound

\* main's one broadcast (line 332) reaches every worker.
BroadcastReachesAll == Executing => Execution!BroadcastReachesAll

\* Nobody passes the barrier early, and there is one serial thread.
BarrierHolds == Executing => Execution!BarrierHolds

\* pthread_create finds a descriptor in the pool whenever a test creates a
\* thread, though detached threads of an earlier test may still have theirs.
PoolSuffices ==
    /\ Runs(Main, "create") => used < MaxThreads
    /\ Executing => used + N_THR_E <= MaxThreads
    /\ Joining => used + 1 <= MaxThreads

\* Each join has the result it is checked for (lines 399, 405, 444 and 447):
\* the early ones find the thread asleep, the late ones find it ended.
JoinsInTime == Joining => Joins!JoinsInTime

\* Outside of the two tests that use the mutex and the condition variables the
\* mutex is free and nobody is asleep; otherwise the next of them would stall.
SyncFreeBetweenTests ==
    ~Executing /\ ~InNameTest => lock = <<>> /\ cvar0 = <<>> /\ cvar1 = {}

\* All tests end, and so do the detached threads, which give their
\* descriptors back.
Terminates == <>(Done /\ used = 0)
=============================================================================
