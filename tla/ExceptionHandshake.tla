------------------------- MODULE ExceptionHandshake -------------------------
(***************************************************************************)
(* src/samples/cpp_exceptions/src/main.cpp: main and a second thread lead  *)
(* each other, over one state guarded by a mutex and a condition variable, *)
(* through overlapping exception handlers, to find out whether the run     *)
(* time keeps the stack of caught exceptions per thread.  The test         *)
(* src/tests/cpp/concurrency/src/cpp_exceptions.cpp runs the same program  *)
(* after two tests of its own, and throws the exception of the second      *)
(* thread on by an exception_ptr where the sample says `throw;'.           *)
(*                                                                         *)
(* Each thread is the list of the things it does that matter here; a       *)
(* hand-shake with the other thread is taken apart into its steps, and the *)
(* handlers into the calls of the C++ run time (Itanium ABI) that the      *)
(* compiler puts at their beginning and end.                               *)
(***************************************************************************)
EXTENDS Integers, FiniteSets, Sequences, PthreadSync

Main == "main"
Thread2 == "thread2"
Threads == {Main, Thread2}

ASSUME NobodyAssumption == Nobody \notin Threads

Exceptions == {"A", "B", "C"}
NoException == "none"

\* What the run time throws and catches: the header of the exception itself, or
\* that of an exception std::rethrow_exception made for the same object.
Primary(x) == <<x, "primary">>
Dependent(x) == <<x, "dependent">>
Headers == Exceptions \X {"primary", "dependent"}
NoHeader == Primary(NoException)
Object(h) == h[1]

States == <<"ProceedTo_A", "Reached_A", "ProceedTo_B", "Reached_B", "Terminate">>

\* The things a thread does.
Do(op, arg, waitingFor) == [op |-> op, arg |-> arg, waitingFor |-> waitingFor]
SetStateSignalAndWait(next, waitingFor) == Do("set state", next, waitingFor)
WaitState(waitingFor) == Do("wait state", NoException, waitingFor)
Throw(x) == Do("throw", x, "")
Rethrow == Do("rethrow", NoException, "")
CurrentException == Do("current exception", NoException, "")
RethrowPointer == Do("rethrow pointer", NoException, "")
DropPointer == Do("drop pointer", NoException, "")
BeginCatch == Do("begin catch", NoException, "")
Check(x) == Do("check", x, "")
EndCatch == Do("end catch", NoException, "")
Create == Do("create", NoException, "")
Join == Do("join", NoException, "")

\* Thread2Entry and the function Thread2Inner it calls: caught, checked and
\* thrown on at Point A, caught again at Point B.
Thread2Program == <<
    Throw("A"), BeginCatch, Check("A"),
    SetStateSignalAndWait("Reached_A", "ProceedTo_B"),
    Check("A"), Rethrow, EndCatch,
    BeginCatch, Check("A"),
    SetStateSignalAndWait("Reached_B", "Terminate"),
    Check("A"), EndCatch>>

\* The same of the test, where the exception_ptr is a variable of the handler.
Thread2TestProgram == <<
    Throw("A"), BeginCatch, CurrentException, Check("A"),
    SetStateSignalAndWait("Reached_A", "ProceedTo_B"),
    Check("A"), RethrowPointer, DropPointer, EndCatch,
    BeginCatch, Check("A"),
    SetStateSignalAndWait("Reached_B", "Terminate"),
    Check("A"), EndCatch>>

\* main goes on without waiting for the second thread to reach Point A.
HastyMainProgram == <<
    SetStateSignalAndWait("ProceedTo_A", "ProceedTo_A"), Create,
    Throw("B"), BeginCatch, Check("B"),
    SetStateSignalAndWait("ProceedTo_B", "Reached_B"),
    Check("B"), Throw("C"), EndCatch,
    BeginCatch, Check("C"),
    SetStateSignalAndWait("Terminate", "Terminate"),
    Check("C"), Join, Check("C"), EndCatch>>

\* main tells the second thread to end before it has reached Point B.
ImpatientMainProgram == <<
    SetStateSignalAndWait("ProceedTo_A", "ProceedTo_A"), Create,
    WaitState("Reached_A"),
    Throw("B"), BeginCatch, Check("B"),
    SetStateSignalAndWait("ProceedTo_B", "ProceedTo_B"),
    Check("B"), Throw("C"), EndCatch,
    BeginCatch, Check("C"),
    SetStateSignalAndWait("Terminate", "Terminate"),
    Check("C"), Join, Check("C"), EndCatch>>

MainProgram == <<
    SetStateSignalAndWait("ProceedTo_A", "ProceedTo_A"), Create,
    WaitState("Reached_A"),
    Throw("B"), BeginCatch, Check("B"),
    SetStateSignalAndWait("ProceedTo_B", "Reached_B"),
    Check("B"), Throw("C"), EndCatch,
    BeginCatch, Check("C"),
    SetStateSignalAndWait("Terminate", "Terminate"),
    Check("C"), Join, Check("C"), EndCatch>>

\* test_cpp_exceptions01 and 02, which come before the program in the test.
TestsBefore == <<
    Throw("B"), BeginCatch, Check("B"), Check("B"), EndCatch,
    Throw("B"), BeginCatch, Check("B"), Check("B"), Throw("C"), EndCatch,
    BeginCatch, Check("C"),
    SetStateSignalAndWait("Terminate", "Terminate"),
    Check("C"), EndCatch>>

-----------------------------------------------------------------------------
VARIABLES
    sample,     \* whether this is the sample or the test
    m, cv,      \* the mutex and the sleepers on the condition variable
    state,
    ip,         \* what each thread does next; 0 before it is created
    mode,       \* where it is within a hand-shake
    caught,     \* the run time's stack of caught exceptions, per owner
    handlers,   \* handlerCount of each exception object
    refs,       \* the references to each exception object; it exists if any
    eptr,       \* the exception a thread's exception_ptr refers to
    flying,     \* the exception a thread has thrown and not caught yet
    e           \* the exception its innermost handler has caught

sync == <<m, cv, state, mode>>
control == <<sample, ip>>
runtime == <<caught, handlers, refs, eptr, flying, e>>
vars == <<sync, control, runtime>>

Program(t) ==
    IF t = Thread2 THEN IF sample THEN Thread2Program ELSE Thread2TestProgram
    ELSE IF sample THEN MainProgram ELSE TestsBefore \o MainProgram

Init ==
    /\ sample \in BOOLEAN
    /\ m = Nobody
    /\ cv = {}
    /\ state = "ProceedTo_A"
    /\ ip = [t \in Threads |-> IF t = Main THEN 1 ELSE 0]
    /\ mode = [t \in Threads |-> "out"]
    /\ caught = [t \in Threads |-> <<>>]
    /\ handlers = [h \in Headers |-> 0]
    /\ refs = [x \in Exceptions |-> 0]
    /\ eptr = [t \in Threads |-> NoException]
    /\ flying = [t \in Threads |-> NoHeader]
    /\ e = [t \in Threads |-> NoException]

Running(t) == ip[t] \in 1..Len(Program(t))
Ended(t) == ip[t] = Len(Program(t)) + 1
At(t, ops) == Running(t) /\ Program(t)[ip[t]].op \in ops
Instruction(t) == Program(t)[ip[t]]
Advance(t) == ip' = [ip EXCEPT ![t] = @ + 1] /\ UNCHANGED sample
Enter(t, from, to) == mode[t] = from /\ mode' = [mode EXCEPT ![t] = to]

-----------------------------------------------------------------------------
(* WaitState and SetStateSignalAndWait                                      *)

Lock(t) ==
    /\ At(t, {"set state", "wait state"})
    /\ Enter(t, "out", IF At(t, {"set state"}) THEN "set" ELSE "test")
    /\ MutexLock(m, t)
    /\ UNCHANGED <<cv, state, control, runtime>>

\* The new state is set, and nobody is told.
SetSilently(t) ==
    /\ Enter(t, "set", "test")
    /\ state' = Instruction(t).arg
    /\ UNCHANGED <<m, cv, control, runtime>>

SetAndSignal(t) ==
    /\ Enter(t, "set", "test")
    /\ state' = Instruction(t).arg
    /\ CondSignal(cv)
    /\ UNCHANGED <<m, control, runtime>>

Sleep(t) ==
    /\ Enter(t, "test", "wait")
    /\ state # Instruction(t).waitingFor
    /\ CondSleep(cv, m, t)
    /\ UNCHANGED <<state, control, runtime>>

Resume(t) ==
    /\ Enter(t, "wait", "test")
    /\ CondResume(cv, m, t)
    /\ UNCHANGED <<cv, state, control, runtime>>

Unlock(t) ==
    /\ Enter(t, "test", "out")
    /\ state = Instruction(t).waitingFor
    /\ MutexUnlock(m, t)
    /\ Advance(t)
    /\ UNCHANGED <<cv, state, runtime>>

Wakeup(t) ==
    /\ SpuriousWakeup(cv, t)
    /\ UNCHANGED <<m, state, mode, control, runtime>>

HandShake(t) == Lock(t) \/ SetAndSignal(t) \/ Sleep(t) \/ Resume(t) \/ Unlock(t)

-----------------------------------------------------------------------------
(* The C++ run time                                                         *)

\* One stack for all threads: __cxa_get_globals without thread-local storage.
SharedGlobals(t) == Main

\* __cxa_get_globals: whose stack of caught exceptions t uses.
Globals(t) == t

\* h, of which nobody is a handler yet, is thrown with one more reference to its
\* object.
Raise(t, h) ==
    /\ flying' = [flying EXCEPT ![t] = h]
    /\ handlers' = [handlers EXCEPT ![h] = 0]
    /\ refs' = [refs EXCEPT ![Object(h)] = @ + 1]
    /\ Advance(t)
    /\ UNCHANGED <<sync, caught, eptr, e>>

DoThrow(t) ==
    /\ At(t, {"throw"})
    /\ Raise(t, Primary(Instruction(t).arg))

\* `throw;' takes the topmost caught exception and marks it as thrown again.
DoRethrow(t) ==
    /\ At(t, {"rethrow"})
    /\ caught[Globals(t)] # <<>>
    /\ LET h == Head(caught[Globals(t)])
       IN  /\ flying' = [flying EXCEPT ![t] = h]
           /\ handlers' = [handlers EXCEPT ![h] = -@]
    /\ Advance(t)
    /\ UNCHANGED <<sync, caught, refs, eptr, e>>

\* std::current_exception()
DoCurrentException(t) ==
    /\ At(t, {"current exception"})
    /\ caught[Globals(t)] # <<>>
    /\ LET x == Object(Head(caught[Globals(t)]))
       IN  /\ eptr' = [eptr EXCEPT ![t] = x]
           /\ refs' = [refs EXCEPT ![x] = @ + 1]
    /\ Advance(t)
    /\ UNCHANGED <<sync, caught, handlers, flying, e>>

\* std::rethrow_exception(eptr)
DoRethrowPointer(t) ==
    /\ At(t, {"rethrow pointer"})
    /\ Raise(t, Dependent(eptr[t]))

\* ~exception_ptr, when the handler is left.
DoDropPointer(t) ==
    /\ At(t, {"drop pointer"})
    /\ refs' = [refs EXCEPT ![eptr[t]] = @ - 1]
    /\ eptr' = [eptr EXCEPT ![t] = NoException]
    /\ Advance(t)
    /\ UNCHANGED <<sync, caught, handlers, flying, e>>

\* __cxa_begin_catch
DoBeginCatch(t) ==
    /\ At(t, {"begin catch"})
    /\ LET h == flying[t]
           stack == caught[Globals(t)]
       IN  /\ handlers' = [handlers EXCEPT ![h] = IF @ < 0 THEN 1 - @ ELSE @ + 1]
           /\ caught' = [caught EXCEPT ![Globals(t)] =
                            IF stack # <<>> /\ Head(stack) = h THEN @ ELSE <<h>> \o @]
           /\ e' = [e EXCEPT ![t] = Object(h)]
    /\ flying' = [flying EXCEPT ![t] = NoHeader]
    /\ Advance(t)
    /\ UNCHANGED <<sync, refs, eptr>>

\* __cxa_end_catch: the header leaves the stack with its last handler, and gives
\* up its reference to the object unless that handler has thrown it again.
DoEndCatch(t) ==
    /\ At(t, {"end catch"})
    /\ caught[Globals(t)] # <<>>
    /\ LET h == Head(caught[Globals(t)])
           left == IF handlers[h] < 0 THEN handlers[h] + 1 ELSE handlers[h] - 1
       IN  /\ handlers' = [handlers EXCEPT ![h] = left]
           /\ caught' = [caught EXCEPT ![Globals(t)] = IF left = 0 THEN Tail(@) ELSE @]
           /\ refs' = [refs EXCEPT ![Object(h)] =
                          IF left = 0 /\ handlers[h] > 0 THEN @ - 1 ELSE @]
    /\ e' = [e EXCEPT ![t] = NoException]
    /\ Advance(t)
    /\ UNCHANGED <<sync, eptr, flying>>

\* The checks of the handler's `e', see OwnException.
DoCheck(t) ==
    /\ At(t, {"check"})
    /\ Advance(t)
    /\ UNCHANGED <<sync, runtime>>

-----------------------------------------------------------------------------
DoCreate ==
    /\ At(Main, {"create"})
    /\ ip' = [ip EXCEPT ![Main] = @ + 1, ![Thread2] = 1]
    /\ UNCHANGED <<sync, sample, runtime>>

DoJoin ==
    /\ At(Main, {"join"})
    /\ Ended(Thread2)
    /\ Advance(Main)
    /\ UNCHANGED <<sync, runtime>>

Handle(t) ==
    \/ DoThrow(t) \/ DoRethrow(t) \/ DoBeginCatch(t) \/ DoEndCatch(t) \/ DoCheck(t)
    \/ DoCurrentException(t) \/ DoRethrowPointer(t) \/ DoDropPointer(t)

Finished == Ended(Main) /\ UNCHANGED vars

Next ==
    \/ \E t \in Threads : HandShake(t) \/ Handle(t) \/ Wakeup(t)
    \/ DoCreate
    \/ DoJoin
    \/ Finished

\* As for the bucket: a thread that can run does, and a thread that keeps
\* asking for the mutex gets it, which matters only to endless spurious
\* wake-ups of the other one.
Spec ==
    /\ Init /\ [][Next]_vars
    /\ \A t \in Threads :
          WF_vars(HandShake(t) \/ Handle(t)) /\ SF_vars(Lock(t)) /\ SF_vars(Resume(t))
    /\ WF_vars(DoCreate)
    /\ WF_vars(DoJoin)

-----------------------------------------------------------------------------
\* The types; a stack never holds an exception twice.
TypeOK ==
    /\ sample \in BOOLEAN
    /\ m \in Threads \cup {Nobody}
    /\ cv \in SUBSET Threads
    /\ \E k \in DOMAIN States : state = States[k]
    /\ \A t \in Threads : ip[t] \in 0..Len(Program(t)) + 1
    /\ mode \in [Threads -> {"out", "set", "test", "wait"}]
    /\ \A t \in Threads :
          /\ caught[t] \in UNION {[1..n -> Headers] : n \in 0..2}
          /\ \A j, k \in DOMAIN caught[t] : caught[t][j] = caught[t][k] => j = k
    /\ handlers \in [Headers -> -1..1]
    /\ refs \in [Exceptions -> 0..3]
    /\ eptr \in [Threads -> Exceptions \cup {NoException}]
    /\ flying \in [Threads -> Headers \cup {NoHeader}]
    /\ e \in [Threads -> Exceptions \cup {NoException}]

\* The exception is the one looked for, and nothing has been written over it.
Match(t, x) == e[t] = x /\ refs[x] > 0

\* Wherever a handler looks at its `e' (cookies, id, message, type), it finds
\* the exception its own thread has thrown, and that exception still exists:
\* the marks "Corrupts 'e'" (line 438) and ERROR-1, ERROR-2 are about this.
OwnException ==
    \A t \in Threads : At(t, {"check"}) => Match(t, Instruction(t).arg)

\* An exception object has one reference for each of its headers that is flying
\* or caught and for each exception_ptr: it lives exactly as long as those do.
NoLeakNoDangling ==
    LET InUse(h) == \E t \in Threads :
            flying[t] = h \/ \E k \in DOMAIN caught[t] : caught[t][k] = h
    IN  \A x \in Exceptions :
            refs[x] = Cardinality({h \in Headers : Object(h) = x /\ InUse(h)})
                      + Cardinality({t \in Threads : eptr[t] = x})

\* From when the second thread is there the states follow each other one by
\* one, so neither thread overwrites a state that the other one has not seen.
StatesInOrder ==
    [][state' # state /\ ip[Thread2] > 0 =>
        \E k \in 1..Len(States) - 1 : state = States[k] /\ state' = States[k + 1]]_vars

\* The second thread has thrown its exception on and caught it again.
InOuterHandler ==
    /\ \E k \in 1..ip[Thread2] - 1 :
          Program(Thread2)[k].op \in {"rethrow", "rethrow pointer"}
    /\ flying[Thread2] = NoHeader
    /\ e[Thread2] = "A"

\* The program tests what it is there for: when the second thread throws its
\* exception on, main is inside a handler of its own, and when main replaces
\* its exception by another one, the second thread is inside the outer handler.
HandlersOverlap ==
    /\ At(Thread2, {"rethrow", "rethrow pointer"}) => Match(Main, "B")
    /\ At(Main, {"throw"}) /\ Instruction(Main).arg = "C" /\ ip[Thread2] > 0
          => InOuterHandler

\* main ends, so no signal of the hand-shake is lost.
Terminates == <>Ended(Main)

\* The run time keeps the exceptions of the two threads apart: the types, what
\* the handlers see, and the life of the objects.
Inv == TypeOK /\ OwnException /\ NoLeakNoDangling
=============================================================================
