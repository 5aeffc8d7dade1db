------------------------------ MODULE OnceRace ------------------------------
(***************************************************************************)
(* src/tests/pthread/src/pthread_once.c: main calls pthread_once twice     *)
(* (test_0_single) and with a bad value (test_1_badvalue).  Then, in       *)
(* test_2_parallel, it creates its threads one by one, handing each the    *)
(* address of its own loop variable, lets them all go at once, and they    *)
(* race through one pthread_once whose function gives the processor away   *)
(* half way.                                                               *)
(*                                                                         *)
(* Neither of the two waits has a predicate.  SpuriousWaiters are those    *)
(* whose wait may return unsignalled, as POSIX allows.  The condition      *)
(* variables come from a pool that the test shares with others.            *)
(***************************************************************************)
EXTENDS Integers, PthreadSync

CONSTANTS
    POSIX_THREAD_THREADS_MAX, MAX_PTHREAD_COND_COUNT,   \* prj.conf
    SpuriousWaiters

MY_MIN(a, b) == IF a < b THEN a ELSE b

\* Only cv_tstart is thought of, and not what others have taken.
CountWithoutOthers == MY_MIN(POSIX_THREAD_THREADS_MAX, MAX_PTHREAD_COND_COUNT) - 1

MY_THREAD_COUNT == MY_MIN(POSIX_THREAD_THREADS_MAX, MAX_PTHREAD_COND_COUNT) - 2

OnceAssumption ==
    /\ POSIX_THREAD_THREADS_MAX \in Nat /\ MAX_PTHREAD_COND_COUNT \in Nat
    /\ MY_THREAD_COUNT > 0
    /\ SpuriousWaiters \subseteq 0..MY_THREAD_COUNT
    /\ Nobody \notin 0..MY_THREAD_COUNT

Threads == 0..MY_THREAD_COUNT - 1
Main == MY_THREAD_COUNT

VARIABLES
    conds,          \* how many condition variables the pool has given out
    m_tstart, cv_tstart, cv_run,
    i,              \* main's loop variable, which the new threads read
    id,             \* what each of them has read
    control,        \* of pthread_once: one for main alone, one for the race
    once_value,
    pc

start == <<m_tstart, cv_tstart, cv_run, i, id>>
once == <<control, once_value>>
vars == <<conds, start, once, pc>>

Init ==
    /\ conds = 0
    /\ m_tstart = Nobody
    /\ cv_tstart = {}
    /\ cv_run = [t \in Threads |-> {}]
    /\ i = 0
    /\ id = [t \in Threads |-> Main]
    /\ control = [once_control |-> "init", once_control2 |-> "init"]
    /\ once_value = 0
    /\ pc = [t \in Threads \cup {Main} |-> IF t = Main THEN "once" ELSE "not_created"]

Used(t) == IF t = Main THEN "once_control" ELSE "once_control2"

Go(t, from, to) == pc[t] = from /\ pc' = [pc EXCEPT ![t] = to]

-----------------------------------------------------------------------------
(* AThread                                                                  *)

\* The mutex is not held yet when the argument is read.
ReadArg(t) ==
    /\ Go(t, "created", "lock")
    /\ id' = [id EXCEPT ![t] = i]
    /\ UNCHANGED <<conds, m_tstart, cv_tstart, cv_run, i, once>>

Lock(t) ==
    /\ Go(t, "lock", IF t = Main THEN "create" ELSE "signal")
    /\ MutexLock(m_tstart, t)
    /\ UNCHANGED <<conds, cv_tstart, cv_run, i, id, once>>

SignalStart(t) ==
    /\ Go(t, "signal", "wait")
    /\ CondSignal(cv_tstart)
    /\ UNCHANGED <<conds, m_tstart, cv_run, i, id, once>>

WaitForLaunch(t) ==
    /\ Go(t, "wait", "waiting")
    /\ cv_run' = [cv_run EXCEPT ![id[t]] = @ \cup {t}]
    /\ MutexUnlock(m_tstart, t)
    /\ UNCHANGED <<conds, cv_tstart, i, id, once>>

Launched(t) ==
    /\ Go(t, "waiting", "unlock")
    /\ CondResume(cv_run[id[t]], m_tstart, t)
    /\ UNCHANGED <<conds, cv_tstart, cv_run, i, id, once>>

Unlock(t) ==
    /\ Go(t, "unlock", IF t = Main THEN "join" ELSE "once")
    /\ MutexUnlock(m_tstart, t)
    /\ UNCHANGED <<conds, cv_tstart, cv_run, i, id, once>>

\* pthread_once: the first caller runs the function ...
Call(t) ==
    /\ Go(t, "once", IF control[Used(t)] = "init" THEN "init_func" ELSE "check")
    /\ control' = [control EXCEPT ![Used(t)] = IF @ = "init" THEN "running" ELSE @]
    /\ UNCHANGED <<conds, start, once_value>>

\* A caller that finds the function running does not wait for its end.
OnceWithoutWait(t) == Call(t)

\* ... and the others wait for it.
Once(t) == control[Used(t)] # "running" /\ Call(t)

\* InitFunc, the increment after its k_yield.
InitFunc(t) ==
    /\ Go(t, "init_func", "once_done")
    /\ once_value' = once_value + 1
    /\ UNCHANGED <<conds, start, control>>

\* The end of the function is not recorded: who waits for it waits for ever.
OnceForgets(t) ==
    /\ Go(t, "once_done", "check")
    /\ UNCHANGED <<conds, start, once>>

\* pthread_once, after the function.
OnceDone(t) ==
    /\ Go(t, "once_done", "check")
    /\ control' = [control EXCEPT ![Used(t)] = "done"]
    /\ UNCHANGED <<conds, start, once_value>>

\* The check of once_value, see InitRanOnce.
EndThread(t) == Go(t, "check", "end") /\ UNCHANGED <<conds, start, once>>

AThread(t) ==
    \/ ReadArg(t) \/ Lock(t) \/ SignalStart(t) \/ WaitForLaunch(t) \/ Launched(t) \/ Unlock(t)
    \/ Once(t) \/ InitFunc(t) \/ OnceDone(t) \/ EndThread(t)

-----------------------------------------------------------------------------
(* test_0_single: two calls; test_1_badvalue: a third one that has no effect *)

CheckOnce ==
    /\ Go(Main, "check", IF i = 0 THEN "once" ELSE "bad_value")
    /\ i' = 1 - i
    /\ UNCHANGED <<conds, m_tstart, cv_tstart, cv_run, id, once>>

BadValue ==
    /\ Go(Main, "bad_value", "init_conds")
    /\ once_value' = 0
    /\ UNCHANGED <<conds, start, control>>

-----------------------------------------------------------------------------
(* test_2_parallel                                                          *)

\* cv_tstart, then one cv_run for each thread; what an exhausted pool answers
\* is not looked at.
InitConds ==
    /\ Go(Main, "init_conds", IF i < MY_THREAD_COUNT THEN "init_conds" ELSE "lock")
    /\ i' = IF i < MY_THREAD_COUNT THEN i + 1 ELSE 0
    /\ conds' = MY_MIN(conds + 1, MAX_PTHREAD_COND_COUNT)
    /\ UNCHANGED <<m_tstart, cv_tstart, cv_run, id, once>>

\* The thread may run before main has fallen asleep.
Create ==
    /\ m_tstart = Main
    /\ pc[Main] = "create"
    /\ pc' = [pc EXCEPT ![Main] = "wait", ![i] = "created"]
    /\ UNCHANGED <<conds, start, once>>

WaitForStart ==
    /\ Go(Main, "wait", "waiting")
    /\ CondSleep(cv_tstart, m_tstart, Main)
    /\ UNCHANGED <<conds, cv_run, i, id, once>>

\* The second loop has a variable of its own; no thread reads it any more.
Started ==
    /\ Go(Main, "waiting", IF i + 1 < MY_THREAD_COUNT THEN "create" ELSE "launch")
    /\ CondResume(cv_tstart, m_tstart, Main)
    /\ i' = IF i + 1 < MY_THREAD_COUNT THEN i + 1 ELSE 0
    /\ UNCHANGED <<conds, cv_tstart, cv_run, id, once>>

Launch ==
    /\ m_tstart = Main
    /\ Go(Main, "launch", IF i + 1 < MY_THREAD_COUNT THEN "launch" ELSE "unlock")
    /\ \E t \in IF cv_run[i] = {} THEN {Main} ELSE cv_run[i] :
          cv_run' = [cv_run EXCEPT ![i] = @ \ {t}]
    /\ i' = i + 1
    /\ UNCHANGED <<conds, m_tstart, cv_tstart, id, once>>

\* Nobody is left to use the condition variables.
Join ==
    /\ \A t \in Threads : pc[t] = "end"
    /\ Go(Main, "join", "done")
    /\ conds' = conds - (1 + MY_THREAD_COUNT)
    /\ UNCHANGED <<start, once>>

MainThread ==
    \/ Once(Main) \/ InitFunc(Main) \/ OnceDone(Main) \/ CheckOnce \/ BadValue
    \/ InitConds \/ Lock(Main) \/ Create \/ WaitForStart \/ Started \/ Launch \/ Unlock(Main)
    \/ Join

\* A wait returns although nobody has signalled.
Wakeup(t) ==
    /\ t \in cv_tstart \cup UNION {cv_run[k] : k \in Threads}
    /\ cv_tstart' = cv_tstart \ {t}
    /\ cv_run' = [k \in Threads |-> cv_run[k] \ {t}]
    /\ UNCHANGED <<conds, m_tstart, i, id, once, pc>>

Done == pc[Main] = "done"

Next ==
    \/ \E t \in Threads : AThread(t)
    \/ MainThread
    \/ \E t \in SpuriousWaiters : Wakeup(t)

-----------------------------------------------------------------------------
\* The types.
TypeOK ==
    /\ m_tstart \in Threads \cup {Main, Nobody}
    /\ cv_tstart \in SUBSET {Main}
    /\ cv_run \in [Threads -> SUBSET Threads]
    /\ i \in 0..MY_THREAD_COUNT
    /\ id \in [Threads -> Threads \cup {Main}]
    /\ once_value \in 0..1
    /\ conds \in 0..MAX_PTHREAD_COND_COUNT

\* "save handling of arg lifecycle" (lines 95 and 137): each thread reads its
\* own number, although it reads main's loop variable without the mutex.
ArgLifecycle == \A t \in Threads : pc[t] \notin {"not_created", "created"} => id[t] = t

\* When main launches a thread, that thread sleeps, or has been woken
\* unsignalled: none is still on its way to the wait, where the signal would
\* be lost.
LaunchReachesAll ==
    pc[Main] = "launch" =>
        \A t \in Threads : t >= i =>
            t \in cv_run[t] \/ pc[t] \notin {"not_created", "created", "lock", "signal", "wait"}

\* Who comes back from pthread_once finds the function run to its end, and
\* run once (lines 68, 72, 117 and 157).
InitRanOnce ==
    \A t \in Threads \cup {Main} :
        pc[t] \in {"check", "end"} => once_value = 1 /\ control[Used(t)] = "done"

\* The start of the threads and the race they are started for, both sound.
Inv == TypeOK /\ ArgLifecycle /\ LaunchReachesAll /\ InitRanOnce
=============================================================================
