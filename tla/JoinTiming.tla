----------------------------- MODULE JoinTiming -----------------------------
(***************************************************************************)
(* src/tests/pthread/src/pthread.c, test_pthread_timedjoin and, after it,  *)
(* test_pthread_tryjoin: main joins a thread that sleeps for a while, once *)
(* too early and once late enough.  What "early" and "late" mean is left   *)
(* to the clock; nothing but time orders the two threads.                  *)
(*                                                                         *)
(* A thread that could go on goes on at most MaxDelay later.  The thread   *)
(* under test sleeps for 2 * Half.                                         *)
(***************************************************************************)
EXTENDS Integers

CONSTANTS
    Half,       \* sleep_duration_ms / 2
    MaxDelay    \* by how much the scheduler may be late

TimingAssumption == Half \in Nat /\ MaxDelay \in Nat /\ 3 * MaxDelay < Half

VARIABLES
    now,
    at, due,        \* where main is, and the time from which it can go on
    not_done, done, \* the deadlines of the timed joins
    thread, change, \* the thread under test, and the time of its next or last change
    result          \* of the last join

mainVars == <<at, due, not_done, done, result>>
threadVars == <<thread, change>>
vars == <<now, mainVars, threadVars>>

Init ==
    /\ now = 0
    /\ at = "set_deadlines"
    /\ due = 0
    /\ not_done = 0 /\ done = 0
    /\ thread = "none" /\ change = 0
    /\ result = "none"

\* Main goes on at once, or after a sleep.
Go(from, to) == at = from /\ now >= due /\ at' = to
Sleep(duration) == due' = now + duration

-----------------------------------------------------------------------------
(* The thread: usleep, return                                               *)

FallAsleep ==
    /\ thread = "created"
    /\ thread' = "asleep"
    /\ change' = now + 2 * Half
    /\ UNCHANGED <<now, mainVars>>

\* A join with a time limit is woken.
Joining == at \in {"in_first_join", "in_second_join"}

End ==
    /\ thread = "asleep" /\ now >= change
    /\ thread' = "ended"
    /\ change' = now
    /\ due' = IF Joining /\ now < due THEN now ELSE due
    /\ UNCHANGED <<now, at, not_done, done, result>>

-----------------------------------------------------------------------------
(* test_pthread_timedjoin                                                   *)

\* The late deadline is when the thread should end, without a margin.
TightDeadlines ==
    /\ Go("set_deadlines", "create")
    /\ not_done' = now + Half
    /\ done' = now + 2 * Half
    /\ Sleep(0)
    /\ UNCHANGED <<now, threadVars, result>>

\* Taken before the thread is created.
SetDeadlines ==
    /\ Go("set_deadlines", "create")
    /\ not_done' = now + Half
    /\ done' = now + 3 * Half
    /\ Sleep(0)
    /\ UNCHANGED <<now, threadVars, result>>

Create ==
    /\ Go("create", "first_join")
    /\ thread' = "created" /\ change' = now
    /\ Sleep(0)
    /\ UNCHANGED <<now, not_done, done, result>>

\* pthread_timedjoin_np blocks until the thread has ended or the time is over.
Block(deadline) ==
    due' = IF thread = "ended" \/ deadline < now THEN now ELSE deadline

TimedJoin ==
    /\ \/ Go("first_join", "in_first_join") /\ Block(not_done)
       \/ Go("second_join", "in_second_join") /\ Block(done)
    /\ UNCHANGED <<now, threadVars, not_done, done, result>>

\* What it returns was settled by what came first.
JoinReturns(deadline) ==
    /\ \/ result' = "ok" /\ thread = "ended" /\ change <= due
       \/ result' = "ETIMEDOUT" /\ due >= deadline /\ (thread = "ended" => change >= deadline)
    /\ Sleep(0)

TimedJoinReturns ==
    /\ \/ Go("in_first_join", "second_join") /\ JoinReturns(not_done)
       \/ Go("in_second_join", "create_again") /\ JoinReturns(done)
    /\ UNCHANGED <<now, threadVars, not_done, done>>

-----------------------------------------------------------------------------
(* test_pthread_tryjoin                                                     *)

\* A test of its own, which counts the time from here.
CreateAgain ==
    /\ Go("create_again", "nap")
    /\ thread' = "created" /\ change' = 0
    /\ now' = 0 /\ due' = 0
    /\ not_done' = 0 /\ done' = 0
    /\ UNCHANGED result

Nap ==
    /\ Go("nap", "first_try")
    /\ Sleep(Half)
    /\ UNCHANGED <<now, threadVars, not_done, done, result>>

TryJoin ==
    /\ \/ Go("first_try", "sleep")
       \/ Go("second_try", "joined")
    /\ result' = IF thread = "ended" THEN "ok" ELSE "EBUSY"
    /\ Sleep(0)
    /\ UNCHANGED <<now, threadVars, not_done, done>>

LongSleep ==
    /\ Go("sleep", "second_try")
    /\ Sleep(2 * Half)
    /\ UNCHANGED <<now, threadVars, not_done, done, result>>

-----------------------------------------------------------------------------
\* Time passes unless somebody is late already.
Tick ==
    /\ at # "joined"
    /\ now < due + MaxDelay
    /\ thread \in {"created", "asleep"} => now < change + MaxDelay
    /\ now' = now + 1
    /\ UNCHANGED <<mainVars, threadVars>>

Thread == FallAsleep \/ End
MainThread ==
    \/ SetDeadlines \/ Create \/ TimedJoin \/ TimedJoinReturns
    \/ CreateAgain \/ Nap \/ TryJoin \/ LongSleep

Done == at = "joined"
Next == Tick \/ Thread \/ MainThread
Spec == Init /\ [][Next]_vars

-----------------------------------------------------------------------------
\* Each join has the result it is checked for (lines 399, 405, 444 and 447):
\* the early ones find the thread asleep, the late ones find it ended.
JoinsInTime ==
    /\ at = "second_join" => result = "ETIMEDOUT"
    /\ at = "create_again" => result = "ok"
    /\ at \in {"sleep", "second_try"} => result = "EBUSY"
    /\ at = "joined" => result = "ok"

TypeOK ==
    /\ now \in Nat /\ due \in Nat /\ not_done \in Nat /\ done \in Nat /\ change \in Nat
    /\ at \in {"set_deadlines", "create", "first_join", "in_first_join", "second_join",
               "in_second_join", "create_again", "nap", "first_try", "sleep", "second_try",
               "joined"}
    /\ thread \in {"none", "created", "asleep", "ended"}
    /\ result \in {"none", "ok", "ETIMEDOUT", "EBUSY"}
=============================================================================
