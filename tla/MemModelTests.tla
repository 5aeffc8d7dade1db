--------------------------- MODULE MemModelTests ---------------------------
(***************************************************************************)
(* src/samples/cpp_atomic_mm/src/main.cpp, test_list: the tests of         *)
(* MemModel01 and those of MemModel11, one after the other on one object.  *)
(* The later tests start from whatever the earlier ones have left in the   *)
(* atomic, in value1 and in the array; nothing but reset is in between.    *)
(***************************************************************************)
EXTENDS Integers

CONSTANTS
    array_size,
    Readers, Writer, Rounds,    \* of MemModel01
    Pairs, Loops                \* of MemModel11

VARIABLES
    sync_value, value1, array,                  \* the object
    acquired, i, pc01, main01, round,           \* of test01 to test03
    pc11, main11, loop                          \* of test11 and test12

object == <<sync_value, value1, array>>
vars01 == <<acquired, i, pc01, main01, round>>
vars11 == <<pc11, main11, loop>>
vars == <<object, vars01, vars11>>

T01 == INSTANCE MemModel01 WITH len <- array_size, pc <- pc01, main <- main01
T11 == INSTANCE MemModel11 WITH pc <- pc11, main <- main11

ASSUME Assumptions01 ==
    T01!ReadersAssumption /\ T01!LengthAssumption /\ T01!RoundsAssumption
ASSUME Assumptions11 ==
    T11!PairsAssumption /\ T11!SizeAssumption /\ T11!LoopsAssumption

Init ==
    /\ T01!Init
    /\ pc11 = [t \in T11!Workers |-> "not created"]
    /\ main11 = "reset"
    /\ loop = Loops

\* The second half starts although threads of the first may still run.
Tests11Early == main01 # "create" /\ T11!Next /\ UNCHANGED vars01

Tests01 == T01!Next /\ UNCHANGED vars11
Tests11 == T01!Done /\ T11!Next /\ UNCHANGED vars01

Next == Tests01 \/ Tests11

vars11All == <<object, vars11>>

\* Every thread that does not spin in vain gets the processor; those of the
\* second half exist only then.
Spec ==
    /\ Init /\ [][Next]_vars
    /\ T01!Fairness
    /\ \A t \in T11!Workers : WF_vars11All(T01!Done /\ T11!Worker(t))
    /\ WF_vars11All(T01!Done /\ T11!MainThread)

-----------------------------------------------------------------------------
\* The second half has begun to use the object.
Begun11 == main11 # "reset" \/ loop < Loops

\* Each half finds the object as it needs it, whatever the other has left: the
\* types, all REQUIREs of the readers, and in the first half no data race.
Inv ==
    /\ ~T01!Done => T01!TypeOK
    /\ Begun11 => T11!TypeOK
    /\ T01!Requires
    /\ T01!NoDataRace
    /\ T11!Requires

\* In the second half nobody touches plain memory out of turn.
NoDataRace == T11!NoDataRace

\* What has been published stays so until all readers have it.
PublicationStands == T01!PublicationStands

\* In the second half no turn is skipped and none is taken twice.
TurnsInOrder == T11!TurnsInOrder

\* All tests end.
Terminates == <>T11!Done
=============================================================================
