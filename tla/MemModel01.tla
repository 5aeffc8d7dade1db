----------------------------- MODULE MemModel01 -----------------------------
(***************************************************************************)
(* src/samples/cpp_atomic_mm/src/main.cpp, test01, test02 and test03: one  *)
(* writer fills value1 and an array and publishes them by storing          *)
(* startValue in an atomic, and each of several readers spins on that      *)
(* atomic, reads everything and stores the atomic once more, unchanged.    *)
(* The rounds run on one object.                                           *)
(***************************************************************************)
EXTENDS Integers

CONSTANTS
    Readers,
    Writer,
    len,            \* length of the array
    Rounds

ReadersAssumption == Writer \notin Readers
LengthAssumption == len \in Nat \ {0}
RoundsAssumption == Rounds \in Nat

Workers == Readers \cup {Writer}
Slots == 0..len - 1
FirstStart == 3     \* of test01
Blank == -1         \* what reset leaves in the array, a value of no round

VARIABLES
    sync_value,         \* the atomic
    value1, array,      \* the plain memory
    acquired,           \* _sync_value of each reader
    i,                  \* the loop index of each worker
    pc,
    main,               \* the program counter of main
    round

plain == <<value1, array>>
vars == <<sync_value, plain, acquired, i, pc, main, round>>

\* A test runs several rounds with its startValue before the next one uses
\* another.
startValue == FirstStart + round \div 2

Init ==
    /\ sync_value = 0
    /\ value1 = 0
    /\ array = [s \in Slots |-> 0]
    /\ acquired = [r \in Readers |-> 0]
    /\ i = [t \in Workers |-> 0]
    /\ pc = [t \in Workers |-> "not created"]
    /\ main = "reset"
    /\ round = 0

Transition(t, from, to) == pc[t] = from /\ pc' = [pc EXCEPT ![t] = to]

-----------------------------------------------------------------------------
(* putThreadType01                                                          *)

\* The array is filled after the release of the atomic.
PublishFirst ==
    /\ Transition(Writer, "start", "put array")
    /\ i' = [i EXCEPT ![Writer] = 0]
    /\ sync_value' = startValue
    /\ UNCHANGED <<plain, acquired, main, round>>

\* The acquiring load, whose value is thrown away.
StartPut ==
    /\ Transition(Writer, "start", "put array")
    /\ i' = [i EXCEPT ![Writer] = 0]
    /\ UNCHANGED <<sync_value, plain, acquired, main, round>>

PutArray ==
    /\ i[Writer] < len
    /\ pc[Writer] = "put array"
    /\ array' = [array EXCEPT ![i[Writer]] = startValue + i[Writer]]
    /\ i' = [i EXCEPT ![Writer] = @ + 1]
    /\ UNCHANGED <<sync_value, value1, acquired, pc, main, round>>

PutArrayDone ==
    /\ i[Writer] = len
    /\ Transition(Writer, "put array", "put value1")
    /\ UNCHANGED <<sync_value, plain, acquired, i, main, round>>

PutValue1 ==
    /\ Transition(Writer, "put value1", "publish")
    /\ value1' = startValue
    /\ UNCHANGED <<sync_value, array, acquired, i, main, round>>

Publish ==
    /\ Transition(Writer, "publish", "end")
    /\ sync_value' = startValue
    /\ UNCHANGED <<plain, acquired, i, main, round>>

Put == StartPut \/ PutArray \/ PutArrayDone \/ PutValue1 \/ Publish

-----------------------------------------------------------------------------
(* getThreadType01                                                          *)

Acquire(r) ==
    /\ sync_value = startValue
    /\ Transition(r, "start", "get value1")
    /\ acquired' = [acquired EXCEPT ![r] = sync_value]
    /\ i' = [i EXCEPT ![r] = 0]
    /\ UNCHANGED <<sync_value, plain, main, round>>

GetValue1(r) ==
    /\ Transition(r, "get value1", "get array")
    /\ UNCHANGED <<sync_value, plain, acquired, i, main, round>>

GetArray(r) ==
    /\ i[r] < len
    /\ pc[r] = "get array"
    /\ i' = [i EXCEPT ![r] = @ + 1]
    /\ UNCHANGED <<sync_value, plain, acquired, pc, main, round>>

GetArrayDone(r) ==
    /\ i[r] = len
    /\ Transition(r, "get array", "release")
    /\ UNCHANGED <<sync_value, plain, acquired, i, main, round>>

\* The reader takes what it has read out of the atomic.
ReleaseReset(r) ==
    /\ Transition(r, "release", "end")
    /\ sync_value' = 0
    /\ UNCHANGED <<plain, acquired, i, main, round>>

Release(r) ==
    /\ Transition(r, "release", "end")
    /\ sync_value' = acquired[r]
    /\ UNCHANGED <<plain, acquired, i, main, round>>

Get(r) == Acquire(r) \/ GetValue1(r) \/ GetArray(r) \/ GetArrayDone(r) \/ Release(r)

-----------------------------------------------------------------------------
(* main; the tests create the threads in different orders, here in any.     *)

Reset ==
    /\ main = "reset"
    /\ round < Rounds
    /\ value1' = 0
    /\ array' = [s \in Slots |-> Blank]
    /\ sync_value' = 0
    /\ main' = "create"
    /\ pc' = [t \in Workers |-> "not created"]
    /\ UNCHANGED <<acquired, i, round>>

Create(t) ==
    /\ main = "create"
    /\ Transition(t, "not created", "start")
    /\ UNCHANGED <<sync_value, plain, acquired, i, main, round>>

CreatedAll ==
    /\ main = "create"
    /\ \A t \in Workers : pc[t] # "not created"
    /\ main' = "join"
    /\ UNCHANGED <<sync_value, plain, acquired, i, pc, round>>

JoinAll ==
    /\ main = "join"
    /\ \A t \in Workers : pc[t] = "end"
    /\ main' = "reset"
    /\ round' = round + 1
    /\ UNCHANGED <<sync_value, plain, acquired, i, pc>>

MainThread == Reset \/ (\E t \in Workers : Create(t)) \/ CreatedAll \/ JoinAll

Done == main = "reset" /\ round = Rounds
Finished == Done /\ UNCHANGED vars

Next == Put \/ (\E r \in Readers : Get(r)) \/ MainThread \/ Finished

\* Every thread that does not spin in vain gets the processor.
Fairness ==
    /\ WF_vars(Put)
    /\ \A r \in Readers : WF_vars(Get(r))
    /\ WF_vars(MainThread)

Spec == Init /\ [][Next]_vars /\ Fairness

-----------------------------------------------------------------------------
Labels == {"not created", "start", "put array", "put value1", "publish",
           "get value1", "get array", "release", "end"}

\* The types; no thread runs past the end of the array.
TypeOK ==
    /\ sync_value \in 0..FirstStart + Rounds
    /\ value1 \in 0..FirstStart + Rounds
    /\ array \in [Slots -> Blank..FirstStart + Rounds + len]
    /\ acquired \in [Readers -> 0..FirstStart + Rounds]
    /\ i \in [Workers -> 0..len]
    /\ pc \in [Workers -> Labels]
    /\ main \in {"reset", "create", "join"}
    /\ round \in 0..Rounds

\* The REQUIREs of getThreadType01: a reader that has passed its spin finds
\* the atomic unchanged, value1 set and every slot of the array filled.
Requires ==
    \A r \in Readers :
        /\ pc[r] = "get value1" => sync_value = startValue /\ value1 = startValue
        /\ pc[r] = "get array" /\ i[r] < len => array[i[r]] = startValue + i[r]

\* SC-DRF (line 31): no thread is about to access plain memory that another
\* one is about to write; main's reset writes all of it.
Touches(t) ==
    CASE pc[t] \in {"get value1", "put value1"} -> {<<"value1", 0>>}
      [] pc[t] \in {"get array", "put array"} /\ i[t] < len -> {<<"array", i[t]>>}
      [] OTHER -> {}
NoDataRace ==
    /\ \A r \in Readers : Touches(Writer) \cap Touches(r) = {}
    /\ main = "reset" /\ round < Rounds => \A t \in Workers : Touches(t) = {}

\* What has been published is not written any more, and the readers' own
\* releases do not take the publication back: a late reader still passes.
PublicationStands ==
    [][main # "reset" /\ sync_value = startValue =>
          sync_value' = startValue /\ UNCHANGED plain]_vars
=============================================================================
