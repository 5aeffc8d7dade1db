--------------------------- MODULE BucketThreads ---------------------------
(***************************************************************************)
(* The part that the two producer/consumer programs share: one producer    *)
(* and one consumer with a bucket guarded by a mutex and a condition       *)
(* variable (src/samples/cpp_pthreads over pthread, and as a test in       *)
(* src/tests/pthread/src/pthread_threads01.c; src/samples/cpp_stlthreads   *)
(* over std::mutex).  They differ in how a thread that has moved an item   *)
(* leaves the critical section and tells the other one: see PthreadBucket  *)
(* and StlBucket.                                                          *)
(***************************************************************************)
EXTENDS Integers, PthreadSync

CONSTANTS ItemCount, BucketCapacity

ASSUME ItemCountAssumption == ItemCount \in Nat \ {0}
ASSUME BucketCapacityAssumption == BucketCapacity \in Nat \ {0}

Producer == "producer"
Consumer == "consumer"
Main == "main"
Workers == {Producer, Consumer}
Threads == Workers \cup {Main}

ASSUME NobodyAssumption == Nobody \notin Threads

VARIABLES
    m,              \* the mutex: its owner or Nobody
    cv,             \* the threads asleep on the condition variable
    bucket_value, bucket_given, bucket_taken,
    tls_bucket_value,   \* one __thread counter per thread
    count,          \* the loop counter of each worker
    pc

bucket == <<bucket_value, bucket_given, bucket_taken>>
vars == <<m, cv, bucket, tls_bucket_value, count, pc>>

Init ==
    /\ m = Nobody
    /\ cv = {}
    /\ bucket_value = 0
    /\ bucket_given = 0
    /\ bucket_taken = 0
    /\ tls_bucket_value = [t \in Threads |-> 0]
    /\ count = [t \in Workers |-> ItemCount]
    /\ pc = [t \in Threads |-> IF t = Main THEN "create first" ELSE "not created"]

Transition(t, from, to) == pc[t] = from /\ pc' = [pc EXCEPT ![t] = to]

-----------------------------------------------------------------------------
(* TakeItem and GiveItem; `self' is the thread that runs the function.      *)

\* The condition of the `while' in front of pthread_cond_wait.
MustWait(t) ==
    IF t = Producer THEN bucket_value >= BucketCapacity ELSE bucket_value = 0

\* The taker signals one item too late: the bucket was full two items ago.
OffByOneEdge(t) ==
    IF t = Producer THEN bucket_value = 1 ELSE bucket_value = BucketCapacity - 2

\* The edges are tested on the value before the update.
LateEdge(t) ==
    IF t = Producer THEN bucket_value = 0 ELSE bucket_value = BucketCapacity

\* The bucket has just left the state in which the other thread may sleep.
OnEdge(t) ==
    IF t = Producer THEN bucket_value = 1 ELSE bucket_value = BucketCapacity - 1

Lock(self) ==
    /\ Transition(self, "lock", "test")
    /\ MutexLock(m, self)
    /\ UNCHANGED <<cv, bucket, tls_bucket_value, count>>

Wait(self) ==
    /\ MustWait(self)
    /\ Transition(self, "test", "wait")
    /\ CondSleep(cv, m, self)
    /\ UNCHANGED <<bucket, tls_bucket_value, count>>

\* `if' instead of `while': the woken thread does not look again.
ResumeWithoutTest(self) ==
    /\ pc[self] = "wait"
    /\ CondResume(cv, m, self)
    /\ pc' = [pc EXCEPT ![self] = "moved"]
    /\ bucket_value' = IF self = Producer THEN bucket_value + 1 ELSE bucket_value - 1
    /\ bucket_given' = IF self = Producer THEN bucket_given + 1 ELSE bucket_given
    /\ bucket_taken' = IF self = Producer THEN bucket_taken ELSE bucket_taken + 1
    /\ UNCHANGED <<cv, tls_bucket_value, count>>

\* Back from pthread_cond_wait the `while' looks at the bucket again.
Resume(self) ==
    /\ Transition(self, "wait", "test")
    /\ CondResume(cv, m, self)
    /\ UNCHANGED <<cv, bucket, tls_bucket_value, count>>

\* The counter is a plain static: every thread sees the one object.
PutInSharedCounter ==
    /\ ~MustWait(Producer)
    /\ Transition(Producer, "test", "moved")
    /\ tls_bucket_value' = [t \in Threads |-> tls_bucket_value[t] + 1]
    /\ bucket_value' = bucket_value + 1
    /\ bucket_given' = bucket_given + 1
    /\ UNCHANGED <<m, cv, bucket_taken, count>>

Put ==
    /\ ~MustWait(Producer)
    /\ Transition(Producer, "test", "moved")
    /\ tls_bucket_value' = [tls_bucket_value EXCEPT ![Producer] = @ + 1]
    /\ bucket_value' = bucket_value + 1
    /\ bucket_given' = bucket_given + 1
    /\ UNCHANGED <<m, cv, bucket_taken, count>>

Get ==
    /\ ~MustWait(Consumer)
    /\ Transition(Consumer, "test", "moved")
    /\ tls_bucket_value' = [tls_bucket_value EXCEPT ![Consumer] = @ - 1]
    /\ bucket_value' = bucket_value - 1
    /\ bucket_taken' = bucket_taken + 1
    /\ UNCHANGED <<m, cv, bucket_given, count>>

\* while (count--) of ThreadProducer and ThreadConsumer.
NextItem(self) ==
    /\ count[self] > 0
    /\ Transition(self, "loop", "lock")
    /\ count' = [count EXCEPT ![self] = @ - 1]
    /\ UNCHANGED <<m, cv, bucket, tls_bucket_value>>

EndThread(self) ==
    /\ count[self] = 0
    /\ Transition(self, "loop", "end")
    /\ UNCHANGED <<m, cv, bucket, tls_bucket_value, count>>

-----------------------------------------------------------------------------
(* The main thread creates both workers and joins the producer first.       *)

Create(t, from, to) ==
    /\ pc[Main] = from
    /\ pc' = [pc EXCEPT ![Main] = to, ![t] = "loop"]
    /\ UNCHANGED <<m, cv, bucket, tls_bucket_value, count>>

\* The first join is not waited for.
JoinLastOnly(t, from, to) ==
    /\ pc[t] = "end" \/ t = Consumer
    /\ Transition(Main, from, to)
    /\ UNCHANGED <<m, cv, bucket, tls_bucket_value, count>>

Join(t, from, to) ==
    /\ pc[t] = "end"
    /\ Transition(Main, from, to)
    /\ UNCHANGED <<m, cv, bucket, tls_bucket_value, count>>

Wakeup(t) ==
    /\ SpuriousWakeup(cv, t)
    /\ UNCHANGED <<m, bucket, tls_bucket_value, count, pc>>

\* The test is over: nothing is left to run.
Finished == pc[Main] = "done" /\ UNCHANGED vars

-----------------------------------------------------------------------------
Labels ==
    {"not created", "loop", "lock", "test", "wait", "moved", "unlock", "notify", "end"}
MainLabels ==
    {"create first", "create second", "join producer", "join consumer", "done"}

\* Every variable has its type; the bucket never holds less than nothing or
\* more than BucketCapacity (GiveItem and TakeItem wait rather than overrun).
TypeOK ==
    /\ m \in Workers \cup {Nobody}
    /\ cv \in SUBSET Workers
    /\ bucket_value \in 0..BucketCapacity
    /\ bucket_given \in 0..ItemCount
    /\ bucket_taken \in 0..ItemCount
    /\ tls_bucket_value \in [Threads -> Int]
    /\ count \in [Workers -> 0..ItemCount]
    /\ pc \in [Threads -> Labels \cup MainLabels]
    /\ pc[Main] \in MainLabels
    /\ \A t \in Workers : pc[t] \in Labels

\* The aborts of the three functions (zassert_equal in the test): after its
\* update a worker finds its own thread-local counter equal to the shared one,
\* and after both joins the main thread finds every item given and taken, the
\* bucket empty and its own counter untouched.
CodeAsserts ==
    /\ pc[Producer] = "moved" => tls_bucket_value[Producer] = bucket_given
    /\ pc[Consumer] = "moved" => 0 - tls_bucket_value[Consumer] = bucket_taken
    /\ pc[Main] = "done" => /\ bucket_given = ItemCount
                            /\ bucket_taken = ItemCount
                            /\ bucket_value = 0
                            /\ tls_bucket_value[Main] = 0

\* Signalling on the edges alone is enough: a thread sleeps only while its
\* condition holds, or while the other one is about to signal it, either with
\* the mutex still held or between the unlock and the notification.
NoLostWakeup ==
    /\ Consumer \in cv =>
          \/ bucket_value = 0
          \/ pc[Producer] = "moved" /\ bucket_value = 1
          \/ pc[Producer] = "notify"
    /\ Producer \in cv =>
          \/ bucket_value = BucketCapacity
          \/ pc[Consumer] = "moved" /\ bucket_value = BucketCapacity - 1
          \/ pc[Consumer] = "notify"

\* The workers are never both out of action with one of them asleep: somebody
\* who may still wake the sleeper is awake.
NoStall ==
    \A t \in Workers : t \in cv =>
        \E u \in Workers \ {t} : u \notin cv /\ pc[u] # "end"

\* Why all of this holds, as one inductive invariant.
Holding == {"test", "moved", "unlock"}     \* where a worker owns the mutex
Pending == {"lock", "test", "wait"}         \* an item is claimed, not yet moved

MutexHeld == \A t \in Workers : m = t <=> pc[t] \in Holding
Asleep == \A t \in Workers : t \in cv => pc[t] = "wait"
Joined ==
    /\ pc[Main] = "create first" => \A t \in Workers : pc[t] = "not created"
    /\ pc[Main] \in {"join consumer", "done"} => pc[Producer] = "end"
    /\ pc[Main] = "done" => pc[Consumer] = "end"
Left(t) == count[t] + (IF pc[t] \in Pending THEN 1 ELSE 0)
Accounting ==
    /\ bucket_value = bucket_given - bucket_taken
    /\ bucket_given = ItemCount - Left(Producer)
    /\ bucket_taken = ItemCount - Left(Consumer)
    /\ tls_bucket_value[Producer] = bucket_given
    /\ tls_bucket_value[Consumer] = 0 - bucket_taken
    /\ tls_bucket_value[Main] = 0
    /\ \A t \in Workers : pc[t] = "end" => count[t] = 0
JustMoved ==
    /\ pc[Producer] = "moved" => bucket_value >= 1
    /\ pc[Consumer] = "moved" => bucket_value <= BucketCapacity - 1

\* What every step preserves: who owns the mutex, where the sleepers are, and
\* that the counters account for every item.
BucketInv ==
    /\ TypeOK
    /\ MutexHeld
    /\ Asleep
    /\ Joined
    /\ Accounting
    /\ JustMoved
    /\ NoLostWakeup

\* The bucket without threads, which both programs implement.
Abstract == INSTANCE BoundedBucket
=============================================================================
