----------------------------- MODULE KeyStages -----------------------------
(***************************************************************************)
(* src/tests/pthread/src/pthread_specific.c: three threads take turns,     *)
(* stage by stage, in creating, using and deleting thread-specific keys.   *)
(* The key variables are shared and keep the id of a key that is deleted,  *)
(* and a new key may get that id.                                          *)
(*                                                                         *)
(* Each thread is the list of what it does; a hand-over between stages is  *)
(* taken apart into its steps.                                             *)
(*                                                                         *)
(* In src/samples/cpp_pthread_specific/src/main.cpp the same three threads *)
(* use one key, and nobody waits for a turn.                               *)
(***************************************************************************)
EXTENDS Integers, Sequences, PthreadSync

CONSTANT KeyIds     \* the ids that the key table can give out

Main == "main"
T1 == "thread_1"
T2 == "thread_2"
Threads == {Main, T1, T2}

KeyAssumption == KeyIds \subseteq Nat /\ 0 \in KeyIds /\ Nobody \notin Threads

Keys == {"key", "key2", "key3", "key4"}
Null == "null"
Values == {"tagM", "tagM2", "tagP", "tagP2", "tagK", "tagK2"}

\* What a thread does: calls on keys with the result they are checked for ...
Do(op, key, result) == [op |-> op, key |-> key, result |-> result]
Create(k) == Do("create", k, "ok")
Delete(k) == Do("delete", k, "ok")
DeleteFails(k) == Do("delete", k, "EINVAL")
Set(k, v) == Do("set", k, v)
Get(k, v) == Do("get", k, v)
Use(k, v) == <<Get(k, Null), Set(k, v), Get(k, v)>>
\* ... and the calls that hand the turn over or wait for it.
Call(op) == Do(op, "key", "ok")
IncrWait == Call("incr_wait")
Start == <<Call("lock"), Call("stage_wait")>>
End == <<Call("incr"), Call("unlock")>>

Thread1Program ==
    Start
    \o Use("key", "tagP") \o Use("key2", "tagP2") \o <<Get("key", "tagP"), IncrWait,
    DeleteFails("key2"), Get("key2", Null), Get("key", "tagP"), IncrWait,
    Delete("key"), DeleteFails("key"), Get("key", Null), IncrWait,
    Create("key3")>> \o Use("key3", "tagP") \o <<IncrWait,
    DeleteFails("key3"), Get("key3", Null), DeleteFails("key4"), Get("key4", Null)>> \o End

Thread2Program ==
    Start
    \o Use("key", "tagK") \o Use("key2", "tagK2") \o <<Get("key", "tagK"), IncrWait,
    DeleteFails("key2"), Get("key2", Null), Get("key", "tagK"), IncrWait,
    DeleteFails("key"), Get("key", Null),
    Create("key4")>> \o Use("key4", "tagK") \o <<IncrWait, IncrWait,
    DeleteFails("key3"), Get("key3", Null), DeleteFails("key4"), Get("key4", Null)>> \o End

MainProgram ==
    <<Create("key")>> \o Use("key", "tagM")
    \o <<Delete("key"), DeleteFails("key"), Get("key", Null), Create("key")>> \o Use("key", "tagM")
    \o <<Create("key2")>> \o Use("key2", "tagM2") \o <<Get("key", "tagM"),
    Call("lock"), Call("create_threads"), IncrWait,
    Get("key", "tagM"), Get("key2", "tagM2"),
    Delete("key2"), DeleteFails("key2"), Get("key2", Null), Get("key", "tagM"), IncrWait,
    IncrWait,
    Get("key", Null), DeleteFails("key2"), Get("key2", Null),
    Create("key"), Get("key", Null), Delete("key"), DeleteFails("key"), IncrWait,
    Get("key3", Null), Get("key4", Null),
    Delete("key3"), DeleteFails("key3"), Delete("key4"), DeleteFails("key4")>> \o End
    \o <<Call("join")>>

TestPrograms == [t \in Threads |->
    CASE t = Main -> MainProgram [] t = T1 -> Thread1Program [] OTHER -> Thread2Program]

(* The sample                                                               *)

PthreadEntry == Use("key", "tagP")
KthreadEntry == Use("key", "tagK")
SampleMain ==
    <<Create("key")>> \o Use("key", "tagM") \o <<Call("create_threads"), Call("join")>>

SamplePrograms == [t \in Threads |->
    CASE t = Main -> SampleMain [] t = T1 -> PthreadEntry [] OTHER -> KthreadEntry]

-----------------------------------------------------------------------------
VARIABLES
    sample,     \* whether it is the sample that runs
    m, cv,
    test_stage,
    stage,      \* each thread's own count of the stage it is in, or waits for
    ip,         \* what each thread does next; 0 before it is created
    mode,       \* where it is within a hand-over
    id,         \* the ids in the key variables
    allocated,  \* the ids that stand for a key
    specific    \* the value of each thread for each id

turns == <<sample, m, cv, test_stage, stage, mode>>
table == <<id, allocated, specific>>
vars == <<turns, ip, table>>

Init ==
    /\ sample \in BOOLEAN
    /\ m = Nobody
    /\ cv = {}
    /\ test_stage = 0
    /\ stage = [t \in Threads |-> CASE t = Main -> 0 [] t = T1 -> 1 [] OTHER -> 2]
    /\ ip = [t \in Threads |-> IF t = Main THEN 1 ELSE 0]
    /\ mode = [t \in Threads |-> "run"]
    /\ id = [key \in Keys |-> 0]
    /\ allocated = {}
    /\ specific = [t \in Threads |-> [k \in KeyIds |-> Null]]

Program(t) == IF sample THEN SamplePrograms[t] ELSE TestPrograms[t]
Ended(t) == ip[t] = Len(Program(t)) + 1
Instruction(t) == Program(t)[ip[t]]
Runs(t, op) == ip[t] \in DOMAIN Program(t) /\ mode[t] = "run" /\ Instruction(t).op = op
Id(t) == id[Instruction(t).key]
Advance(t) == ip' = [ip EXCEPT ![t] = @ + 1]
Enter(t, from, to) == mode[t] = from /\ mode' = [mode EXCEPT ![t] = to]

-----------------------------------------------------------------------------
(* The key table                                                            *)

\* A new key gets the lowest free id.
FreshId(k) == k \in KeyIds \ allocated /\ \A j \in KeyIds \ allocated : k <= j

\* The values of the key that had the id before are found again.
KeyCreateKeepsValues(t) ==
    /\ Runs(t, "create")
    /\ \E k \in KeyIds :
          /\ FreshId(k)
          /\ id' = [id EXCEPT ![Instruction(t).key] = k]
          /\ allocated' = allocated \cup {k}
    /\ Advance(t)
    /\ UNCHANGED <<turns, specific>>

\* pthread_key_create: no thread has a value for the new key.
KeyCreate(t) ==
    /\ Runs(t, "create")
    /\ \E k \in KeyIds :
          /\ FreshId(k)
          /\ id' = [id EXCEPT ![Instruction(t).key] = k]
          /\ allocated' = allocated \cup {k}
          /\ specific' = [u \in Threads |-> [specific[u] EXCEPT ![k] = Null]]
    /\ Advance(t)
    /\ UNCHANGED turns

\* pthread_key_delete; without effect (EINVAL) where the id stands for no key.
KeyDelete(t) ==
    /\ Runs(t, "delete")
    /\ allocated' = allocated \ {Id(t)}
    /\ Advance(t)
    /\ UNCHANGED <<turns, id, specific>>

\* pthread_setspecific
SetSpecific(t) ==
    /\ Runs(t, "set")
    /\ Id(t) \in allocated
    /\ specific' = [specific EXCEPT ![t][Id(t)] = Instruction(t).result]
    /\ Advance(t)
    /\ UNCHANGED <<turns, id, allocated>>

\* pthread_getspecific: NULL where the id stands for no key.
Specific(t) == IF Id(t) \in allocated THEN specific[t][Id(t)] ELSE Null

\* A call that only looks; what it finds is checked, see ChecksHold.
GetSpecific(t) ==
    /\ Runs(t, "get")
    /\ Advance(t)
    /\ UNCHANGED <<turns, table>>

OnKeys(t) == KeyCreate(t) \/ KeyDelete(t) \/ SetSpecific(t) \/ GetSpecific(t)

-----------------------------------------------------------------------------
(* test_stage_wait, test_stage_incr_wait, test_stage_incr                   *)

Lock(t) ==
    /\ Runs(t, "lock")
    /\ MutexLock(m, t)
    /\ Advance(t)
    /\ UNCHANGED <<sample, cv, test_stage, stage, mode, table>>

Unlock(t) ==
    /\ Runs(t, "unlock")
    /\ MutexUnlock(m, t)
    /\ Advance(t)
    /\ UNCHANGED <<sample, cv, test_stage, stage, mode, table>>

StageWait(t) ==
    /\ Runs(t, "stage_wait")
    /\ Enter(t, "run", "test")
    /\ UNCHANGED <<sample, m, cv, test_stage, stage, ip, table>>

\* One of the waiting threads is woken, and it may be the wrong one.
IncrAndSignal(t) ==
    /\ Runs(t, "incr_wait")
    /\ test_stage' = test_stage + 1
    /\ CondSignal(cv)
    /\ stage' = [stage EXCEPT ![t] = @ + 3]
    /\ Enter(t, "run", "test")
    /\ UNCHANGED <<sample, m, ip, table>>

StageIncrWait(t) ==
    /\ Runs(t, "incr_wait")
    /\ test_stage' = test_stage + 1
    /\ CondBroadcast(cv)
    /\ stage' = [stage EXCEPT ![t] = @ + 3]
    /\ Enter(t, "run", "test")
    /\ UNCHANGED <<sample, m, ip, table>>

StageIncr(t) ==
    /\ Runs(t, "incr")
    /\ test_stage' = test_stage + 1
    /\ CondBroadcast(cv)
    /\ Advance(t)
    /\ UNCHANGED <<sample, m, stage, mode, table>>

Sleep(t) ==
    /\ Enter(t, "test", "wait")
    /\ test_stage # stage[t]
    /\ CondSleep(cv, m, t)
    /\ UNCHANGED <<sample, test_stage, stage, ip, table>>

\* `if' in the place of `while': whoever is woken goes on.
ResumeWithoutTest(t) ==
    /\ Enter(t, "wait", "run")
    /\ CondResume(cv, m, t)
    /\ Advance(t)
    /\ UNCHANGED <<sample, cv, test_stage, stage, table>>

Resume(t) ==
    /\ Enter(t, "wait", "test")
    /\ CondResume(cv, m, t)
    /\ UNCHANGED <<sample, cv, test_stage, stage, ip, table>>

Continue(t) ==
    /\ Enter(t, "test", "run")
    /\ test_stage = stage[t]
    /\ Advance(t)
    /\ UNCHANGED <<sample, m, cv, test_stage, stage, table>>

OnStages(t) ==
    Lock(t) \/ Unlock(t) \/ StageWait(t) \/ StageIncrWait(t) \/ StageIncr(t) \/ Sleep(t)
    \/ Resume(t) \/ Continue(t)

Wakeup(t) ==
    /\ SpuriousWakeup(cv, t)
    /\ UNCHANGED <<sample, m, test_stage, stage, mode, ip, table>>

-----------------------------------------------------------------------------
\* Two steps of one thread, which nobody can tell from one: in the test the
\* mutex is held, in the sample the new threads share only the key.
CreateThreads ==
    /\ Runs(Main, "create_threads")
    /\ ip' = [ip EXCEPT ![Main] = @ + 1, ![T1] = 1, ![T2] = 1]
    /\ UNCHANGED <<turns, table>>

Join ==
    /\ Runs(Main, "join")
    /\ Ended(T1) /\ Ended(T2)
    /\ Advance(Main)
    /\ UNCHANGED <<turns, table>>

Done == Ended(Main)

Next ==
    \/ \E t \in Threads : OnKeys(t) \/ OnStages(t) \/ Wakeup(t)
    \/ CreateThreads
    \/ Join

-----------------------------------------------------------------------------
\* The types.
TypeOK ==
    /\ sample \in BOOLEAN
    /\ m \in Threads \cup {Nobody}
    /\ cv \in SUBSET Threads
    /\ test_stage \in 0..15
    /\ stage \in [Threads -> 0..14]
    /\ mode \in [Threads -> {"run", "test", "wait"}]
    /\ id \in [Keys -> KeyIds]
    /\ allocated \in SUBSET KeyIds
    /\ specific \in [Threads -> [KeyIds -> Values \cup {Null}]]

\* Every call a thread is about to make has the result it is checked for: it
\* finds its own value and no one else's, nothing under a deleted or a new
\* key, and the deletion of a deleted key fails though its id may stand for
\* another key by now.
ChecksHold ==
    \A t \in Threads :
        /\ Runs(t, "get") => Specific(t) = Instruction(t).result
        /\ Runs(t, "set") => Id(t) \in allocated
        /\ Runs(t, "create") => KeyIds # allocated
        /\ Runs(t, "delete") => (Id(t) \in allocated <=> Instruction(t).result = "ok")

\* In the test only one thread at a time works on the keys once there are
\* several, and it holds the mutex.
OneAtATime ==
    \A t \in Threads : \A op \in {"create", "delete", "set", "get", "incr_wait", "incr"} :
        ~sample /\ ip[T1] > 0 /\ Runs(t, op) => m = t /\ test_stage = stage[t]

\* The keys as the threads see them.
Inv == TypeOK /\ OneAtATime /\ ChecksHold

\* The stages go round: each is ended by the thread whose turn it is, as in the
\* table of lines 130 to 137.
RoundRobin ==
    [][test_stage' # test_stage =>
        /\ test_stage' = test_stage + 1
        /\ m = CASE test_stage % 3 = 0 -> Main [] test_stage % 3 = 1 -> T1 [] OTHER -> T2]_vars
=============================================================================
