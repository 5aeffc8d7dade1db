--------------------------- MODULE BounceBarrier ---------------------------
(***************************************************************************)
(* src/tests/pthread/src/pthread.c, test_pthread_execution: the workers    *)
(* bounce ownership between them through a condition variable that has no  *)
(* predicate, sleep on a second one until main wakes them all, and line up *)
(* at a barrier.  A semaphore tells main to look at the workers' flags.    *)
(*                                                                         *)
(* A signal that finds nobody asleep on cvar0 is lost, so this program     *)
(* needs more than POSIX gives.  What it needs is spelled out here:        *)
(* sleepers are woken in the order they fell asleep and a mutex is handed  *)
(* over in the order it was asked for (Zephyr's wait queues at equal       *)
(* priority), nobody is woken unsignalled, and the two assumptions on time *)
(* below.                                                                  *)
(***************************************************************************)
EXTENDS Integers, SequencesExt

CONSTANTS
    N_THR_E,        \* the number of workers
    BOUNCES,        \* how often each one claims the ownership
    DelaySuffices,  \* usleep(500 ms) lets all the others fall asleep
    YieldsSuffice   \* 1000 times sched_yield let all the others ask for the mutex

BounceAssumption ==
    /\ N_THR_E \in Nat \ {0}
    /\ BOUNCES \in Nat \ {0}
    /\ DelaySuffices \in BOOLEAN
    /\ YieldsSuffice \in BOOLEAN

Workers == 0..N_THR_E - 1
Main == N_THR_E
SerialThread == 1

VARIABLES
    pc, i,              \* where each thread is; the bounces a worker has behind it
    lock,               \* who has asked for the mutex, its owner first
    cvar0, cvar1,       \* who is asleep, in that order
    main_sem,
    curr_bounce_thread,
    bounce_done, barrier_done,  \* the workers whose flag is set
    barrier,            \* the workers that have arrived, in that order
    barrier_return

locals == <<pc, i>>
bounce == <<lock, cvar0, curr_bounce_thread>>
handover == <<cvar1, main_sem, bounce_done>>
lineup == <<barrier, barrier_done, barrier_return>>
vars == <<locals, bounce, handover, lineup>>

Init ==
    /\ pc = [t \in Workers \cup {Main} |-> IF t = Main THEN "bounce_test" ELSE "start"]
    /\ i = [t \in Workers |-> 0]
    /\ lock = <<>>
    /\ cvar0 = <<>>
    /\ cvar1 = {}
    /\ main_sem = 1
    /\ curr_bounce_thread = 0
    /\ bounce_done = {}
    /\ barrier_done = {}
    /\ barrier = <<>>
    /\ barrier_return = [t \in Workers |-> 0]

Go(t, from, to) == pc[t] = from /\ pc' = [pc EXCEPT ![t] = to]

Ask(t) == lock' = Append(lock, t)
Owns(t) == lock # <<>> /\ Head(lock) = t
Unlock(t) == Owns(t) /\ lock' = Tail(lock)

-----------------------------------------------------------------------------
(* thread_top_exec, first phase                                             *)

\* The double lock at the start: the inner trylock fails.
AskFirst(t) ==
    /\ Go(t, "start", "trylock")
    /\ Ask(t)
    /\ UNCHANGED <<i, cvar0, curr_bounce_thread, handover, lineup>>

TryLock(t) ==
    /\ Go(t, "trylock", "bounce")
    /\ Unlock(t)
    /\ UNCHANGED <<i, cvar0, curr_bounce_thread, handover, lineup>>

AskToBounce(t) ==
    /\ Go(t, "bounce", "wait")
    /\ Ask(t)
    /\ UNCHANGED <<i, cvar0, curr_bounce_thread, handover, lineup>>

VeryFirst(t) == t = 0 /\ i[t] = 0

Sleep(t) ==
    /\ ~VeryFirst(t)
    /\ Go(t, "wait", "asleep")
    /\ Unlock(t)
    /\ cvar0' = Append(cvar0, t)
    /\ UNCHANGED <<i, curr_bounce_thread, handover, lineup>>

Delay(t) ==
    /\ VeryFirst(t)
    /\ Go(t, "wait", "delay")
    /\ Unlock(t)
    /\ UNCHANGED <<i, cvar0, curr_bounce_thread, handover, lineup>>

\* No delay: the very first claim may come before the others sleep.
NoDelay(t) ==
    /\ Go(t, "delay", "claim")
    /\ Ask(t)
    /\ UNCHANGED <<i, cvar0, curr_bounce_thread, handover, lineup>>

EndDelay(t) ==
    /\ Go(t, "delay", "claim")
    /\ DelaySuffices => ToSet(cvar0) = Workers \ {t}
    /\ Ask(t)
    /\ UNCHANGED <<i, cvar0, curr_bounce_thread, handover, lineup>>

Wake(t) ==
    /\ Go(t, "asleep", "claim")
    /\ t \notin ToSet(cvar0)
    /\ Ask(t)
    /\ UNCHANGED <<i, cvar0, curr_bounce_thread, handover, lineup>>

Claim(t) ==
    /\ Go(t, "claim", "check")
    /\ Owns(t)
    /\ curr_bounce_thread' = t
    /\ UNCHANGED <<i, lock, cvar0, handover, lineup>>

\* The others that still bounce have asked for the mutex, or sleep.
OthersSettled(t) == \A u \in Workers \ {t} : pc[u] \notin {"start", "trylock", "bounce"}

\* The sleeper that was last to fall asleep is woken.
SignalLast(t) ==
    /\ Go(t, "check", "unlock")
    /\ Owns(t)
    /\ YieldsSuffice => OthersSettled(t)
    /\ cvar0' = Front(cvar0)
    /\ UNCHANGED <<i, lock, curr_bounce_thread, handover, lineup>>

\* All sleepers are woken.
SignalAll(t) ==
    /\ Go(t, "check", "unlock")
    /\ Owns(t)
    /\ YieldsSuffice => OthersSettled(t)
    /\ cvar0' = <<>>
    /\ UNCHANGED <<i, lock, curr_bounce_thread, handover, lineup>>

\* The thousand checks are passed (see NoRace), and the next one's turn comes.
Signal(t) ==
    /\ Go(t, "check", "unlock")
    /\ Owns(t)
    /\ YieldsSuffice => OthersSettled(t)
    /\ cvar0' = IF cvar0 = <<>> THEN <<>> ELSE Tail(cvar0)
    /\ UNCHANGED <<i, lock, curr_bounce_thread, handover, lineup>>

\* The flag is set with the last bounce already, the mutex given up afterwards.
NextBounceDone(t) ==
    /\ Go(t, "unlock", IF i[t] + 1 < BOUNCES THEN "bounce" ELSE "bounced")
    /\ Unlock(t)
    /\ i' = [i EXCEPT ![t] = @ + 1]
    /\ bounce_done' = IF i[t] + 1 < BOUNCES THEN bounce_done ELSE bounce_done \cup {t}
    /\ UNCHANGED <<cvar0, curr_bounce_thread, cvar1, main_sem, lineup>>

NextBounce(t) ==
    /\ Go(t, "unlock", IF i[t] + 1 < BOUNCES THEN "bounce" ELSE "bounced")
    /\ Unlock(t)
    /\ i' = [i EXCEPT ![t] = @ + 1]
    /\ UNCHANGED <<cvar0, curr_bounce_thread, handover, lineup>>

Bounce(t) ==
    \/ AskFirst(t) \/ TryLock(t) \/ AskToBounce(t) \/ Sleep(t) \/ Delay(t) \/ EndDelay(t)
    \/ Wake(t) \/ Claim(t) \/ Signal(t) \/ NextBounce(t)

-----------------------------------------------------------------------------
(* thread_top_exec, between the phases and the second one                   *)

AskAgain(t) ==
    /\ Go(t, "bounced", "done")
    /\ Ask(t)
    /\ UNCHANGED <<i, cvar0, curr_bounce_thread, handover, lineup>>

\* The flag is forgotten.
ForgetDone(t) ==
    /\ Go(t, "done", "post")
    /\ Owns(t)
    /\ UNCHANGED <<i, bounce, cvar1, main_sem, bounce_done, lineup>>

SetDone(t) ==
    /\ Go(t, "done", "post")
    /\ Owns(t)
    /\ bounce_done' = bounce_done \cup {t}
    /\ UNCHANGED <<i, bounce, cvar1, main_sem, lineup>>

Post(t) ==
    /\ Go(t, "post", "parting")
    /\ Owns(t)
    /\ main_sem' = main_sem + 1
    /\ UNCHANGED <<i, bounce, cvar1, bounce_done, lineup>>

SleepForMain(t) ==
    /\ Go(t, "parting", "parted")
    /\ Unlock(t)
    /\ cvar1' = cvar1 \cup {t}
    /\ UNCHANGED <<i, cvar0, curr_bounce_thread, main_sem, bounce_done, lineup>>

WakeByMain(t) ==
    /\ Go(t, "parted", "woken")
    /\ t \notin cvar1
    /\ Ask(t)
    /\ UNCHANGED <<i, cvar0, curr_bounce_thread, handover, lineup>>

Leave(t) ==
    /\ Go(t, "woken", "enter")
    /\ Unlock(t)
    /\ UNCHANGED <<i, cvar0, curr_bounce_thread, handover, lineup>>

\* No flag of barrier_done is found set (see NoneEarly).
Arrive(t) ==
    /\ Go(t, "enter", "barrier")
    /\ barrier' = Append(barrier, t)
    /\ UNCHANGED <<i, bounce, handover, barrier_done, barrier_return>>

\* A barrier for one worker less.
PassEarly(t) ==
    /\ Go(t, "barrier", "passed")
    /\ Len(barrier) >= N_THR_E - 1
    /\ barrier_return' = [barrier_return EXCEPT ![t] =
                             IF barrier[N_THR_E - 1] = t THEN SerialThread ELSE 0]
    /\ UNCHANGED <<i, bounce, handover, barrier, barrier_done>>

\* The one that arrived last is told that it is the serial thread.
Pass(t) ==
    /\ Go(t, "barrier", "passed")
    /\ Len(barrier) = N_THR_E
    /\ barrier_return' = [barrier_return EXCEPT ![t] =
                             IF barrier[N_THR_E] = t THEN SerialThread ELSE 0]
    /\ UNCHANGED <<i, bounce, handover, barrier, barrier_done>>

SetBarrierDone(t) ==
    /\ Go(t, "passed", "last_post")
    /\ barrier_done' = barrier_done \cup {t}
    /\ UNCHANGED <<i, bounce, handover, barrier, barrier_return>>

LastPost(t) ==
    /\ Go(t, "last_post", "ended")
    /\ main_sem' = main_sem + 1
    /\ UNCHANGED <<i, bounce, cvar1, bounce_done, lineup>>

LineUp(t) ==
    \/ AskAgain(t) \/ SetDone(t) \/ Post(t) \/ SleepForMain(t) \/ WakeByMain(t) \/ Leave(t)
    \/ Arrive(t) \/ Pass(t) \/ SetBarrierDone(t) \/ LastPost(t)

-----------------------------------------------------------------------------
(* test_pthread_execution                                                   *)

\* Look at the flags; sleep on the semaphore as long as one is missing.
TestBounce ==
    /\ Go(Main, "bounce_test", IF bounce_done = Workers THEN "ask" ELSE "bounce_sem")
    /\ UNCHANGED <<i, bounce, handover, lineup>>

TestBarrier ==
    /\ Go(Main, "barrier_test", IF barrier_done = Workers THEN "join" ELSE "barrier_sem")
    /\ UNCHANGED <<i, bounce, handover, lineup>>

SemWait ==
    /\ \/ Go(Main, "bounce_sem", "bounce_test")
       \/ Go(Main, "barrier_sem", "barrier_test")
    /\ main_sem > 0
    /\ main_sem' = main_sem - 1
    /\ UNCHANGED <<i, bounce, cvar1, bounce_done, lineup>>

AskToWake ==
    /\ Go(Main, "ask", "broadcast")
    /\ Ask(Main)
    /\ UNCHANGED <<i, cvar0, curr_bounce_thread, handover, lineup>>

\* One of the workers only.
WakeOne ==
    /\ Go(Main, "broadcast", "release")
    /\ Owns(Main)
    /\ \E t \in cvar1 : cvar1' = cvar1 \ {t}
    /\ UNCHANGED <<i, bounce, main_sem, bounce_done, lineup>>

Broadcast ==
    /\ Go(Main, "broadcast", "release")
    /\ Owns(Main)
    /\ cvar1' = {}
    /\ UNCHANGED <<i, bounce, main_sem, bounce_done, lineup>>

Release ==
    /\ Go(Main, "release", "barrier_test")
    /\ Unlock(Main)
    /\ UNCHANGED <<i, cvar0, curr_bounce_thread, handover, lineup>>

Join ==
    /\ \A t \in Workers : pc[t] = "ended"
    /\ Go(Main, "join", "ended")
    /\ UNCHANGED <<i, bounce, handover, lineup>>

MainThread == TestBounce \/ TestBarrier \/ SemWait \/ AskToWake \/ Broadcast \/ Release \/ Join

Done == pc[Main] = "ended"
Finished == Done /\ UNCHANGED vars

Next == (\E t \in Workers : Bounce(t) \/ LineUp(t)) \/ MainThread \/ Finished

\* Every thread that can run does, at last.
Spec ==
    /\ Init /\ [][Next]_vars
    /\ \A t \in Workers : WF_vars(Bounce(t) \/ LineUp(t))
    /\ WF_vars(MainThread)

-----------------------------------------------------------------------------
\* The types; nobody asks for the mutex twice, so it is never locked by its
\* owner, and the semaphore stays within what the workers post.
TypeOK ==
    /\ i \in [Workers -> 0..BOUNCES]
    /\ ToSet(lock) \subseteq Workers \cup {Main}
    /\ Cardinality(ToSet(lock)) = Len(lock)
    /\ ToSet(cvar0) \subseteq Workers
    /\ Cardinality(ToSet(cvar0)) = Len(cvar0)
    /\ cvar1 \in SUBSET Workers
    /\ main_sem \in 0..2 * N_THR_E + 1
    /\ curr_bounce_thread \in Workers
    /\ bounce_done \in SUBSET Workers
    /\ barrier_done \in SUBSET Workers
    /\ barrier_return \in [Workers -> {0, SerialThread}]

\* "Racing bounce threads" (line 112) never happens: the claim stands for all
\* of the thousand checks, and nobody else has been woken to make one.
NoRace ==
    \A t \in Workers : pc[t] = "check" =>
        /\ curr_bounce_thread = t
        /\ \A u \in Workers \ {t} : pc[u] # "claim" /\ (pc[u] = "asleep" => u \in ToSet(cvar0))

\* The ownership goes round: no worker is ever two claims ahead of another.
GoesRound == \A t, u \in Workers : i[t] <= i[u] + 1

\* The one broadcast of main (line 332) reaches every worker, though main has
\* looked at the flags without the mutex.
BroadcastReachesAll == pc[Main] = "broadcast" /\ Owns(Main) => cvar1 = Workers

\* "Barrier exited early" (line 142) never happens, and nobody passes the
\* barrier that somebody has still to reach.
NoneEarly ==
    /\ \A t \in Workers : pc[t] = "enter" => barrier_done = {}
    /\ \A t, u \in Workers : pc[t] = "passed" => pc[u] \in {"barrier", "passed", "last_post", "ended"}

\* "Bungled barrier return value(s)" (line 353): exactly one serial thread.
OneSerialThread ==
    Done => Cardinality({t \in Workers : barrier_return[t] = SerialThread}) = 1

\* The barrier does what the second phase expects of it.
BarrierHolds == NoneEarly /\ OneSerialThread

\* "This ends with all threads going back to sleep on the condition variable
\* and being woken by main() for the second phase" (lines 56 to 58 of the source).
EndsAsleep == <>(cvar1 = Workers)
=============================================================================
