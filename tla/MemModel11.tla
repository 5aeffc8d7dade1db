----------------------------- MODULE MemModel11 -----------------------------
(***************************************************************************)
(* src/samples/cpp_atomic_mm/src/main.cpp, test11 and test12: as many      *)
(* writers as readers, one pair per index, pass one atomic along.  Its     *)
(* value says whose turn it is, and who has the turn may touch the plain   *)
(* value1 and array: putThreadType11 writes them, getThreadType11 checks   *)
(* them and turns value1 over to the next pair.  Atomics are sequentially  *)
(* consistent; every access to plain memory is a step.                     *)
(***************************************************************************)
EXTENDS Integers

CONSTANTS
    Pairs,          \* max_threads / 2
    array_size,
    Loops           \* how often the test runs on the one object

PairsAssumption == Pairs \in Nat
SizeAssumption == array_size \in Nat \ {0} /\ Pairs <= array_size
LoopsAssumption == Loops \in Nat

Indices == 0..Pairs - 1
ReaderOf(i) == <<"get", i>>
WriterOf(i) == <<"put", i>>
Workers == {"get", "put"} \X Indices

VARIABLES
    sync_value,     \* the atomic
    value1, array,  \* the plain memory
    pc,             \* of the workers
    main,           \* the program counter of main
    loop

plain == <<value1, array>>
vars == <<sync_value, plain, pc, main, loop>>

Init ==
    /\ sync_value = 0
    /\ value1 = 0
    /\ array = [i \in 0..array_size - 1 |-> 0]
    /\ pc = [t \in Workers |-> "not created"]
    /\ main = "reset"
    /\ loop = Loops

Transition(t, from, to) == pc[t] = from /\ pc' = [pc EXCEPT ![t] = to]

\* std::min(number(array_size)-1, _idx)
Idx(i) == IF i < array_size THEN i ELSE array_size - 1

\* How the turn of a worker is written in sync_value.
Gate(t) == IF t[1] = "put" THEN {-(Idx(t[2]) + 1)} ELSE {Idx(t[2])}

-----------------------------------------------------------------------------
\* The spin of both functions ends when it is the worker's turn.
Acquire(t) ==
    /\ sync_value \in Gate(t)
    /\ Transition(t, "spin", IF t[1] = "put" THEN "write value1" ELSE "read array")
    /\ UNCHANGED <<sync_value, plain, main, loop>>

\* The turn is passed on with the first of the two writes.
WriteValue1AndRelease(i) ==
    /\ Transition(WriterOf(i), "write value1", "write array")
    /\ value1' = Idx(i)
    /\ sync_value' = Idx(i)
    /\ UNCHANGED <<array, main, loop>>

WriteValue1(i) ==
    /\ Transition(WriterOf(i), "write value1", "write array")
    /\ value1' = Idx(i)
    /\ UNCHANGED <<sync_value, array, main, loop>>

WriteArray(i) ==
    /\ Transition(WriterOf(i), "write array", "release")
    /\ array' = [array EXCEPT ![Idx(i)] = Idx(i)]
    /\ UNCHANGED <<sync_value, value1, main, loop>>

ReleasePut(i) ==
    /\ Transition(WriterOf(i), "release", "end")
    /\ sync_value' = Idx(i)
    /\ UNCHANGED <<plain, main, loop>>

ReadArray(i) ==
    /\ Transition(ReaderOf(i), "read array", "read value1")
    /\ UNCHANGED <<sync_value, plain, main, loop>>

ReadValue1(i) ==
    /\ Transition(ReaderOf(i), "read value1", "turn value1")
    /\ UNCHANGED <<sync_value, plain, main, loop>>

\* Without the `%': the turn after the last index is nobody's.
NextPutUnwrapped(i) == -(Idx(i) + 2)

\* The next writer's turn, as getThreadType11 encodes it.
NextPut(i) == -(((Idx(i) + 1) % array_size) + 1)

TurnValue1(i) ==
    /\ Transition(ReaderOf(i), "turn value1", "release")
    /\ value1' = NextPut(i)
    /\ UNCHANGED <<sync_value, array, main, loop>>

\* The value read at the start is stored again.
ReleaseSame(i) ==
    /\ Transition(ReaderOf(i), "release", "end")
    /\ sync_value' = Idx(i)
    /\ UNCHANGED <<plain, main, loop>>

ReleaseGet(i) ==
    /\ Transition(ReaderOf(i), "release", "end")
    /\ sync_value' = NextPut(i)
    /\ UNCHANGED <<plain, main, loop>>

Put(i) == WriteValue1(i) \/ WriteArray(i) \/ ReleasePut(i)
Get(i) == ReadArray(i) \/ ReadValue1(i) \/ TurnValue1(i) \/ ReleaseGet(i)

Worker(t) == Acquire(t) \/ (t[1] = "put" /\ Put(t[2])) \/ (t[1] = "get" /\ Get(t[2]))

-----------------------------------------------------------------------------
(* main: test11 creates the readers first, test12 the writers; here they    *)
(* come in any order.                                                       *)

\* reset(-1, ...): everything is written (the array with a value no worker
\* uses, -1 here), then it is the turn of writer 0.
Reset ==
    /\ main = "reset"
    /\ loop > 0
    /\ value1' = -1
    /\ array' = [i \in 0..array_size - 1 |-> -1]
    /\ sync_value' = -1
    /\ main' = "create"
    /\ pc' = [t \in Workers |-> "not created"]
    /\ UNCHANGED loop

Create(t) ==
    /\ main = "create"
    /\ Transition(t, "not created", "spin")
    /\ UNCHANGED <<sync_value, plain, main, loop>>

CreatedAll ==
    /\ main = "create"
    /\ \A t \in Workers : pc[t] # "not created"
    /\ main' = "join"
    /\ UNCHANGED <<sync_value, plain, pc, loop>>

\* Only the writers are waited for.
JoinWriters ==
    /\ main = "join"
    /\ \A i \in Indices : pc[WriterOf(i)] = "end"
    /\ main' = "reset"
    /\ loop' = loop - 1
    /\ UNCHANGED <<sync_value, plain, pc>>

JoinAll ==
    /\ main = "join"
    /\ \A t \in Workers : pc[t] = "end"
    /\ main' = "reset"
    /\ loop' = loop - 1
    /\ UNCHANGED <<sync_value, plain, pc>>

MainThread == Reset \/ (\E t \in Workers : Create(t)) \/ CreatedAll \/ JoinAll

Done == main = "reset" /\ loop = 0
Finished == Done /\ UNCHANGED vars

Next == (\E t \in Workers : Worker(t)) \/ MainThread \/ Finished

\* Every thread that does not spin in vain gets the processor.
Spec ==
    /\ Init /\ [][Next]_vars
    /\ \A t \in Workers : WF_vars(Worker(t))
    /\ WF_vars(MainThread)

-----------------------------------------------------------------------------
Labels == {"not created", "spin", "write value1", "write array", "read array",
           "read value1", "turn value1", "release", "end"}

\* The types of the memory and of the threads' positions.
TypeOK ==
    /\ sync_value \in -array_size..array_size - 1
    /\ value1 \in -array_size..array_size - 1
    /\ array \in [0..array_size - 1 -> -array_size..array_size - 1]
    /\ pc \in [Workers -> Labels]
    /\ main \in {"reset", "create", "join"}
    /\ loop \in 0..Loops

\* A worker is in its turn between the end of its spin and its release.
InTurn(t) == pc[t] \notin {"not created", "spin", "end"}

\* The two REQUIREs of getThreadType11: the reader finds what the writer of its
\* own index has written last.
Requires ==
    \A i \in Indices :
        /\ pc[ReaderOf(i)] = "read array" => array[Idx(i)] = Idx(i)
        /\ pc[ReaderOf(i)] = "read value1" => value1 = Idx(i)

\* SC-DRF (line 31): at no time are two threads about to access the same plain
\* memory with one of the accesses a write; main's reset writes all of it.
Touches(t) ==
    CASE pc[t] \in {"write value1", "turn value1", "read value1"} -> {<<"value1", 0>>}
      [] pc[t] \in {"write array", "read array"} -> {<<"array", Idx(t[2])>>}
      [] OTHER -> {}
Writes(t) == pc[t] \in {"write value1", "turn value1", "write array"}
NoDataRace ==
    /\ \A t, u \in Workers : t # u /\ Writes(t) => Touches(t) \cap Touches(u) = {}
    /\ main = "reset" /\ loop > 0 => \A t \in Workers : Touches(t) = {}

\* From the writer of an index to its reader, and from there to the writer of
\* the next index.
PassTurn ==
    \E i \in Indices :
        \/ sync_value = -(i + 1) /\ sync_value' = i
        \/ /\ sync_value = i
           /\ sync_value' = IF i = array_size - 1 THEN -1 ELSE -(i + 2)

\* Each turn is passed on in this order: none is skipped and none taken twice.
TurnsInOrder == [][main # "reset" => sync_value' = sync_value \/ PassTurn]_vars
=============================================================================
