---------------------------- MODULE ThreadTests ----------------------------
(***************************************************************************)
(* src/tests/pthread/src/pthread.c: the tests of clean-up handlers,        *)
(* descriptors, names, termination and cancellation, in the order they are *)
(* run in (that of their names).  Each thread is the list of what it does; *)
(* what the calls do is taken from what the tests expect of them.          *)
(*                                                                         *)
(* test_pthread_execution, one of the tests, is BounceBarrier; it shares   *)
(* lock, cvar0 and cvar1 with the test of the names, see PthreadSuite.     *)
(* "joins", the tests whose order is a matter of time, is JoinTiming.      *)
(***************************************************************************)
EXTENDS Integers, SequencesExt

CONSTANT MaxThreads     \* CONFIG_POSIX_THREAD_THREADS_MAX

Main == "main"
Terminating == {"term0", "term1", "term2", "term3"}
Workers == {"explicit", "pexit", "cancelsync", "return", "leak", "named",
            "self", "ext1", "ext2"} \cup Terminating
Threads == {Main} \cup Workers

Do(op, on, want) == [op |-> op, on |-> on, want |-> want]

\* Flags: bits of an atomic, static variables, and what a handler writes.
Set(f) == Do("set", f, "")
Clear(f) == Do("clear", f, "")
Await(f) == Do("await", f, "")
Check(f) == Do("check", f, "")
CheckNot(f) == Do("check_not", f, "")

Push(f) == Do("push", f, "")
Pop(execute) == Do("pop", execute, "")
Create(t) == Do("create", t, "")
Join(t, want) == Do("join", t, want)
Cancel(t, want) == Do("cancel", t, want)
Detach(want) == Do("detach", "self", want)
Exit(v) == Do("exit", v, "")
Return(v) == Do("return", v, "")
ExitIf(f, v) == Do("exit_if", f, v)
ReturnIf(f, v) == Do("return_if", f, v)
CancelState(s) == Do("cancel_state", s, "")
SetName(t, n) == Do("set_name", t, n)
CheckName(t, n) == Do("check_name", t, n)
Call(op) == Do(op, "", "")
TestCancel == Call("test_cancel")
TestCancelForEver == <<TestCancel, Call("again")>>
Unreachable == Call("unreachable")

-----------------------------------------------------------------------------
(* The threads                                                              *)

ExplicitProgram ==
    <<Push("explicit0"), Push("explicit1"), Pop("false"), Pop("true"),
      Check("explicit0"), CheckNot("explicit1"), Return("NULL")>>

PexitProgram ==
    <<Push("pexit0"), Push("pexit1"), ExitIf("CLEANUP_DONE", "executed"),
      Pop("false"), Pop("false"), Unreachable>>

CancelsyncProgram == <<Push("cancelsync0"), Push("cancelsync1")>> \o TestCancelForEver

ReturnProgram ==
    <<Push("return0"), Push("return1"), ReturnIf("CLEANUP_DONE", "executed"),
      Pop("true"), Pop("true"), Unreachable>>

\* The mutex is not given back.
NamedKeepsLock ==
    <<Call("lock"), Call("signal_cvar0"), Call("wait_cvar1"),
      CheckName("named", "Create"), SetName("named", "Changed"),
      CheckName("named", "Changed"), Set("name"), Return("NULL")>>

NamedProgram ==
    <<Call("lock"), Call("signal_cvar0"), Call("wait_cvar1"),
      CheckName("named", "Create"), SetName("named", "Changed"),
      CheckName("named", "Changed"), Set("name"), Call("unlock"), Return("NULL")>>

TermProgram(t) ==
    (IF t \in {"term1", "term3"} THEN <<CancelState("disabled")>> ELSE <<>>)
    \o (IF t \in {"term2", "term3"} THEN <<Detach("ok"), Detach("EINVAL")>> ELSE <<>>)
    \o <<Cancel(t, "ok"), Call("sleep"), Exit("p1")>>

SelfProgram ==
    <<CancelState("disabled"), Clear("ignored"), TestCancel, Set("ignored"),
      Cancel("self", "ok"), CancelState("enabled"), Clear("failed"), TestCancel,
      Set("failed"), Unreachable>>

Ext1Program ==
    <<CancelState("disabled"), Clear("ignored"), TestCancel, Set("ignored"),
      CancelState("enabled"), Set("ENABLED"), Await("SET"), Clear("failed"), TestCancel,
      Set("failed"), Unreachable>>

Ext2Program == <<Clear("failed")>> \o TestCancelForEver

-----------------------------------------------------------------------------
(* The tests                                                                *)

CleanupTests ==
    <<Create("explicit"), Join("explicit", "NULL"),
      Set("CLEANUP_DONE"), Create("pexit"), Join("pexit", "executed"),
      Check("pexit0"), Check("pexit1"),
      Create("cancelsync"), Cancel("cancelsync", "ok"), Join("cancelsync", "CANCELED"),
      Check("cancelsync0"), Check("cancelsync1"),
      Set("CLEANUP_DONE"), Create("return"), Join("return", "executed"),
      CheckNot("return0"), CheckNot("return1")>>

DescriptorLeakTest ==
    [n \in 1..4 * MaxThreads |->
        IF n % 2 = 1 THEN Create("leak") ELSE Join("leak", "NULL")]

NameTest ==
    <<Call("lock"), Create("named"), Call("wait_cvar0"), SetName("named", "Create"),
      CheckName("named", "Create"), Call("signal_cvar1"), Call("unlock"),
      Join("named", "NULL"), Check("name")>>

TerminationTest ==
    <<Create("term0"), Create("term1"), Create("term2"), Create("term3"),
      Join("term0", "any"), Join("term1", "any"), Cancel("term0", "ESRCH")>>

\* The thread is let go before it is cancelled.
CancelExt1SetFirst ==
    <<Clear("ENABLED"), Clear("SET"), Create("ext1"), Await("ENABLED"),
      Set("SET"), Cancel("ext1", "ok"), Join("ext1", "CANCELED"),
      Check("ignored"), CheckNot("failed")>>

CancelExt1Test ==
    <<Clear("ENABLED"), Clear("SET"), Create("ext1"), Await("ENABLED"),
      Cancel("ext1", "ok"), Set("SET"), Join("ext1", "CANCELED"),
      Check("ignored"), CheckNot("failed")>>

TestcancelTests ==
    <<Create("self"), Join("self", "CANCELED"), Check("ignored"), CheckNot("failed")>>
    \o CancelExt1Test
    \o <<Create("ext2"), Cancel("ext2", "ok"), Join("ext2", "CANCELED"), CheckNot("failed")>>

MainProgram ==
    CleanupTests \o DescriptorLeakTest \o <<Call("execution")>> \o NameTest
    \o TerminationTest \o TestcancelTests \o <<Call("joins")>>

NameTestBegin == Len(CleanupTests) + Len(DescriptorLeakTest) + 2

Programs == [t \in Threads |->
    CASE t = Main -> MainProgram
      [] t = "explicit" -> ExplicitProgram
      [] t = "pexit" -> PexitProgram
      [] t = "cancelsync" -> CancelsyncProgram
      [] t = "return" -> ReturnProgram
      [] t = "leak" -> <<Return("NULL")>>
      [] t = "named" -> NamedProgram
      [] t \in Terminating -> TermProgram(t)
      [] t = "self" -> SelfProgram
      [] t = "ext1" -> Ext1Program
      [] t = "ext2" -> Ext2Program]

-----------------------------------------------------------------------------
VARIABLES
    lock,           \* who has asked for the mutex, its owner first
    cvar0, cvar1,   \* who is asleep, on cvar0 in that order
    ip, mode,       \* what each thread does next, and where it is within a wait
    descriptor,     \* of each thread, see NoThread
    used,           \* how many of them the pool has given out
    name,
    flags           \* those that are set

sync == <<lock, cvar0, cvar1>>
threads == <<descriptor, used>>
vars == <<sync, ip, mode, threads, name, flags>>

\* What is known of a thread that has no descriptor in the pool.
NoThread == [status |-> "none", result |-> "NULL", state |-> "enabled", pending |-> FALSE,
             detached |-> FALSE, cleanup |-> <<>>]

Init ==
    /\ lock = <<>>
    /\ cvar0 = <<>>
    /\ cvar1 = {}
    /\ ip = [t \in Threads |-> 1]
    /\ mode = [t \in Threads |-> "run"]
    /\ descriptor = [t \in Threads |->
                       IF t = Main THEN [NoThread EXCEPT !.status = "running"] ELSE NoThread]
    /\ used = 0
    /\ name = [t \in Threads |-> ""]
    /\ flags = {}

Instruction(t) == Programs[t][ip[t]]
Runs(t, op) ==
    /\ descriptor[t].status = "running" /\ mode[t] = "run"
    /\ ip[t] \in DOMAIN Programs[t] /\ Instruction(t).op = op
On(t) == Instruction(t).on
Want(t) == Instruction(t).want
\* From behind the first lock to the return of the join.
InNameTest ==
    LET k == ip[Main] - NameTestBegin IN
    k \in 0..Len(NameTest) - 2 /\ (k = 0 => mode[Main] # "run")

Advance(t) == ip' = [ip EXCEPT ![t] = @ + 1]

-----------------------------------------------------------------------------
(* Flags and handlers                                                       *)

SetFlag(t) ==
    /\ Runs(t, "set")
    /\ flags' = flags \cup {On(t)}
    /\ Advance(t)
    /\ UNCHANGED <<sync, mode, threads, name>>

ClearFlag(t) ==
    /\ Runs(t, "clear")
    /\ flags' = flags \ {On(t)}
    /\ Advance(t)
    /\ UNCHANGED <<sync, mode, threads, name>>

\* A loop that yields until the flag is set.
AwaitFlag(t) ==
    /\ Runs(t, "await")
    /\ On(t) \in flags
    /\ Advance(t)
    /\ UNCHANGED <<sync, mode, threads, name, flags>>

\* A zassert changes nothing, see ChecksHold.
Zassert(t) ==
    /\ Runs(t, "check") \/ Runs(t, "check_not") \/ Runs(t, "check_name")
    /\ Advance(t)
    /\ UNCHANGED <<sync, mode, threads, name, flags>>

PushHandler(t) ==
    /\ Runs(t, "push")
    /\ descriptor' = [descriptor EXCEPT ![t].cleanup = Append(@, On(t))]
    /\ Advance(t)
    /\ UNCHANGED <<sync, mode, used, name, flags>>

PopHandler(t) ==
    /\ Runs(t, "pop")
    /\ flags' = IF On(t) = "true" THEN flags \cup {Last(descriptor[t].cleanup)} ELSE flags
    /\ descriptor' = [descriptor EXCEPT ![t].cleanup = Front(@)]
    /\ Advance(t)
    /\ UNCHANGED <<sync, mode, used, name>>

-----------------------------------------------------------------------------
(* The end of a thread                                                      *)

\* The descriptor of a detached thread goes back to the pool at once.
End(t, v) ==
    /\ descriptor' = [descriptor EXCEPT ![t] =
                         IF @.detached THEN NoThread
                         ELSE [NoThread EXCEPT !.status = "ended", !.result = v]]
    /\ used' = IF descriptor[t].detached THEN used - 1 ELSE used
    /\ ip' = [ip EXCEPT ![t] = 1]
    /\ UNCHANGED <<sync, mode, name>>

\* pthread_exit and cancellation execute the handlers that are still there ...
EndWithHandlers(t, v) ==
    /\ flags' = flags \cup ToSet(descriptor[t].cleanup)
    /\ End(t, v)

Exiting(t) ==
    /\ Runs(t, "exit") \/ (Runs(t, "exit_if") /\ On(t) \in flags)
    /\ EndWithHandlers(t, IF Runs(t, "exit") THEN On(t) ELSE Want(t))

Returning(t) == Runs(t, "return") \/ (Runs(t, "return_if") /\ On(t) \in flags)
ReturnValue(t) == IF Runs(t, "return") THEN On(t) ELSE Want(t)

\* ... but a return does not.
ReturnFrom(t) == Returning(t) /\ End(t, ReturnValue(t)) /\ UNCHANGED flags

-----------------------------------------------------------------------------
(* Cancellation is deferred: it takes effect where the thread asks for it.  *)

Cancellable(t) == descriptor[t].pending /\ descriptor[t].state = "enabled"

Canceled(t) ==
    /\ Cancellable(t)
    /\ Runs(t, "test_cancel") \/ Runs(t, "sleep")
    /\ EndWithHandlers(t, "CANCELED")

TestedCancel(t) ==
    /\ Runs(t, "test_cancel")
    /\ ~Cancellable(t)
    /\ Advance(t)
    /\ UNCHANGED <<sync, mode, threads, name, flags>>

\* Whether sleep is a cancellation point the tests leave open.
Slept(t) ==
    /\ Runs(t, "sleep")
    /\ Advance(t)
    /\ UNCHANGED <<sync, mode, threads, name, flags>>

Again(t) ==
    /\ Runs(t, "again")
    /\ ip' = [ip EXCEPT ![t] = @ - 1]
    /\ UNCHANGED <<sync, mode, threads, name, flags>>

SetCancelState(t) ==
    /\ Runs(t, "cancel_state")
    /\ descriptor' = [descriptor EXCEPT ![t].state = On(t)]
    /\ Advance(t)
    /\ UNCHANGED <<sync, mode, used, name, flags>>

\* ESRCH, without effect, for a thread that has no descriptor any more.
CancelThread(t) ==
    /\ Runs(t, "cancel")
    /\ descriptor' = [descriptor EXCEPT ![On(t)].pending = descriptor[On(t)].status # "none"]
    /\ Advance(t)
    /\ UNCHANGED <<sync, mode, used, name, flags>>

\* EINVAL, without effect, for a thread that is detached already.
DetachSelf(t) ==
    /\ Runs(t, "detach")
    /\ descriptor' = [descriptor EXCEPT ![t].detached = TRUE]
    /\ Advance(t)
    /\ UNCHANGED <<sync, mode, used, name, flags>>

-----------------------------------------------------------------------------
(* Threads                                                                  *)

CreateThread ==
    /\ Runs(Main, "create")
    /\ descriptor' = [descriptor EXCEPT ![On(Main)].status = "running"]
    /\ used' = used + 1
    /\ Advance(Main)
    /\ UNCHANGED <<sync, mode, name, flags>>

\* The descriptor does not go back to the pool.
JoinLeaks ==
    /\ Runs(Main, "join")
    /\ descriptor[On(Main)].status = "ended"
    /\ descriptor' = [descriptor EXCEPT ![On(Main)] = NoThread]
    /\ Advance(Main)
    /\ UNCHANGED <<sync, mode, used, name, flags>>

JoinThread ==
    /\ Runs(Main, "join")
    /\ descriptor[On(Main)].status = "ended"
    /\ descriptor' = [descriptor EXCEPT ![On(Main)] = NoThread]
    /\ used' = used - 1
    /\ Advance(Main)
    /\ UNCHANGED <<sync, mode, name, flags>>

NameThread(t) ==
    /\ Runs(t, "set_name")
    /\ name' = [name EXCEPT ![On(t)] = Want(t)]
    /\ Advance(t)
    /\ UNCHANGED <<sync, mode, threads, flags>>

-----------------------------------------------------------------------------
(* The mutex and the condition variables (see BounceBarrier)                *)

Owns(t) == lock # <<>> /\ Head(lock) = t
Enter(t, from, to) == mode[t] = from /\ mode' = [mode EXCEPT ![t] = to]

Ask(t) ==
    /\ Runs(t, "lock")
    /\ Enter(t, "run", "ask")
    /\ lock' = Append(lock, t)
    /\ UNCHANGED <<cvar0, cvar1, ip, threads, name, flags>>

Locked(t) ==
    /\ Enter(t, "ask", "run")
    /\ Owns(t)
    /\ Advance(t)
    /\ UNCHANGED <<sync, threads, name, flags>>

Unlock(t) ==
    /\ Runs(t, "unlock")
    /\ Owns(t)
    /\ lock' = Tail(lock)
    /\ Advance(t)
    /\ UNCHANGED <<cvar0, cvar1, mode, threads, name, flags>>

Wait(t) ==
    /\ \/ Runs(t, "wait_cvar0") /\ cvar0' = Append(cvar0, t) /\ UNCHANGED cvar1
       \/ Runs(t, "wait_cvar1") /\ cvar1' = cvar1 \cup {t} /\ UNCHANGED cvar0
    /\ Enter(t, "run", "asleep")
    /\ Owns(t)
    /\ lock' = Tail(lock)
    /\ UNCHANGED <<ip, threads, name, flags>>

Wake(t) ==
    /\ Enter(t, "asleep", "ask")
    /\ t \notin ToSet(cvar0) /\ t \notin cvar1
    /\ lock' = Append(lock, t)
    /\ UNCHANGED <<cvar0, cvar1, ip, threads, name, flags>>

Signal(t) ==
    /\ \/ Runs(t, "signal_cvar0") /\ cvar0 = <<>> /\ UNCHANGED <<cvar0, cvar1>>
       \/ Runs(t, "signal_cvar0") /\ cvar0 # <<>> /\ cvar0' = Tail(cvar0) /\ UNCHANGED cvar1
       \/ Runs(t, "signal_cvar1") /\ cvar1 = {} /\ UNCHANGED <<cvar0, cvar1>>
       \/ Runs(t, "signal_cvar1") /\ (\E u \in cvar1 : cvar1' = cvar1 \ {u}) /\ UNCHANGED cvar0
    /\ Advance(t)
    /\ UNCHANGED <<lock, mode, threads, name, flags>>

-----------------------------------------------------------------------------
Step(t) ==
    \/ SetFlag(t) \/ ClearFlag(t) \/ AwaitFlag(t) \/ Zassert(t) \/ PushHandler(t) \/ PopHandler(t)
    \/ Exiting(t) \/ ReturnFrom(t)
    \/ Canceled(t) \/ TestedCancel(t) \/ Slept(t) \/ Again(t) \/ SetCancelState(t)
    \/ CancelThread(t) \/ DetachSelf(t) \/ NameThread(t)
    \/ Ask(t) \/ Locked(t) \/ Unlock(t) \/ Wait(t) \/ Wake(t) \/ Signal(t)
MainThread == Step(Main) \/ CreateThread \/ JoinThread

Done == ip[Main] = Len(MainProgram) + 1
Next == MainThread \/ \E t \in Workers : Step(t)

\* Every thread that can run does, at last.
Fairness == WF_vars(MainThread) /\ \A t \in Workers : WF_vars(Step(t))

-----------------------------------------------------------------------------
Flags == {"CLEANUP_DONE", "ENABLED", "SET", "ignored", "failed", "name"} \cup
         {"explicit0", "explicit1", "pexit0", "pexit1", "cancelsync0", "cancelsync1",
          "return0", "return1"}

\* The types; the pool has given out one descriptor for each thread that runs
\* or has still to be joined.
TypeOK ==
    /\ ip \in [Threads -> 1..Len(MainProgram) + 1]
    /\ mode \in [Threads -> {"run", "ask", "asleep"}]
    /\ \A t \in Threads :
          /\ descriptor[t].status \in {"none", "running", "ended"}
          /\ descriptor[t].result \in {"NULL", "executed", "CANCELED", "p1"}
          /\ descriptor[t].state \in {"enabled", "disabled"}
          /\ descriptor[t].pending \in BOOLEAN
          /\ descriptor[t].detached \in BOOLEAN
          /\ ToSet(descriptor[t].cleanup) \subseteq Flags
    /\ used = Cardinality({t \in Workers : descriptor[t].status # "none"})
    /\ name \in [Threads -> {"", "Create", "Changed"}]
    /\ flags \in SUBSET Flags

\* Each zassert that a thread is about to come to holds: the flags are what
\* is expected, a joined thread has ended as it should, a call fails where it
\* should, and nothing marked unreachable is reached, which a thread would do
\* that did not leave at its "exit_if" or "return_if".
ChecksHold ==
    \A t \in Threads :
        /\ ~Runs(t, "unreachable")
        /\ Runs(t, "exit_if") \/ Runs(t, "return_if") => On(t) \in flags
        /\ Runs(t, "check") => On(t) \in flags
        /\ Runs(t, "check_not") => On(t) \notin flags
        /\ Runs(t, "check_name") => name[On(t)] = Want(t)
        /\ Runs(t, "set_name") => descriptor[On(t)].status = "running"
        /\ Runs(t, "join") /\ descriptor[On(t)].status = "ended" =>
              Want(t) \in {"any", descriptor[On(t)].result}
        /\ Runs(t, "cancel") => (Want(t) = "ESRCH" <=> descriptor[On(t)].status = "none")
        /\ Runs(t, "detach") => (Want(t) = "EINVAL" <=> descriptor[t].detached)
=============================================================================
