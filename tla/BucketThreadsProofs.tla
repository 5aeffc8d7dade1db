------------------------ MODULE BucketThreadsProofs ------------------------
(***************************************************************************)
(* What the two producer/consumer programs have in common, for every       *)
(* number of items and every capacity: the steps they share preserve the   *)
(* invariant, and the invariant implies the properties.                    *)
(***************************************************************************)
EXTENDS BucketThreads, TLAPS

\* The constants as the leaves need them.
LEMMA ConstantFacts ==
    /\ ItemCount \in Nat /\ ItemCount > 0
    /\ BucketCapacity \in Nat /\ BucketCapacity > 0
    /\ Nobody \notin Threads
  BY ItemCountAssumption, BucketCapacityAssumption, NobodyAssumption

USE ConstantFacts DEF Producer, Consumer, Main, Workers, Threads

\* The program starts in the invariant.
LEMMA InitBucketInv == Init => BucketInv
  <1> SUFFICES ASSUME Init PROVE BucketInv
    OBVIOUS
  <1>1. /\ m = Nobody /\ cv = {}
        /\ bucket_value = 0 /\ bucket_given = 0 /\ bucket_taken = 0
    BY DEF Init
  <1>2. tls_bucket_value = [t \in Threads |-> 0]
    BY DEF Init
  <1>3. count \in [Workers -> 0..ItemCount] /\ \A t \in Workers : count[t] = ItemCount
    <2>1. ItemCount \in 0..ItemCount
      OBVIOUS
    <2> QED
      BY <2>1 DEF Init
  <1>4. /\ pc \in [Threads -> Labels \cup MainLabels]
        /\ pc[Main] = "create first"
        /\ \A t \in Workers : pc[t] = "not created"
    BY DEF Init, Labels, MainLabels
  <1>5. TypeOK
    <2>1. tls_bucket_value \in [Threads -> Int]
      BY <1>2
    <2>2. \A t \in Workers : pc[t] \in Labels
      BY <1>4 DEF Labels
    <2>3. pc[Main] \in MainLabels
      BY <1>4 DEF MainLabels
    <2>4. 0 \in 0..BucketCapacity /\ 0 \in 0..ItemCount
      OBVIOUS
    <2> QED
      BY <1>1, <1>3, <1>4, <2>1, <2>2, <2>3, <2>4 DEF TypeOK
  <1>6. MutexHeld /\ Asleep /\ Joined /\ JustMoved /\ NoLostWakeup
    BY <1>1, <1>4 DEF MutexHeld, Holding, Asleep, Joined, JustMoved, NoLostWakeup
  <1>7. Accounting
    <2>1. count[Producer] = ItemCount /\ count[Consumer] = ItemCount
      BY <1>3
    <2>2. pc[Producer] \notin Pending /\ pc[Consumer] \notin Pending
      BY <1>4 DEF Pending
    <2>3. Left(Producer) = ItemCount /\ Left(Consumer) = ItemCount
      BY <2>1, <2>2, ItemCount + 0 = ItemCount DEF Left
    <2>4. \A t \in Threads : tls_bucket_value[t] = 0
      BY <1>2
    <2>5. \A t \in Workers : pc[t] # "end"
      BY <1>4
    <2>6. ItemCount - ItemCount = 0 /\ 0 - 0 = 0
      OBVIOUS
    <2> QED
      BY <1>1, <2>3, <2>4, <2>5, <2>6 DEF Accounting
  <1> QED
    BY <1>5, <1>6, <1>7 DEF BucketInv

\* Taking the mutex.
LEMMA LockStep == ASSUME BucketInv, NEW t \in Workers, Lock(t) PROVE BucketInv'
  <1> USE DEF BucketInv, Transition, bucket, MutexLock, MutexUnlock
  <1>1. TypeOK'
    BY DEF Lock, TypeOK, Labels, MainLabels
  <1>2. MutexHeld'
    BY DEF Lock, TypeOK, MutexHeld, Holding, Labels
  <1>3. Asleep'
    BY DEF Lock, TypeOK, Asleep
  <1>4. Joined'
    BY DEF Lock, TypeOK, Joined
  <1>5. Accounting'
    BY DEF Lock, TypeOK, Accounting, Left, Pending
  <1>6. JustMoved'
    BY DEF Lock, TypeOK, JustMoved, MutexHeld, Holding
  <1>7. NoLostWakeup'
    BY DEF Lock, TypeOK, NoLostWakeup, JustMoved, MutexHeld, Holding, Asleep
  <1> QED
    BY <1>1, <1>2, <1>3, <1>4, <1>5, <1>6, <1>7

\* Falling asleep, which gives the mutex up.
LEMMA WaitStep == ASSUME BucketInv, NEW t \in Workers, Wait(t) PROVE BucketInv'
  <1> USE DEF BucketInv, Transition, bucket, MutexLock, MutexUnlock
  <1>1. TypeOK'
    BY DEF Wait, CondSleep, MustWait, TypeOK, Labels, MainLabels
  <1>2. MutexHeld'
    BY DEF Wait, CondSleep, MustWait, TypeOK, MutexHeld, Holding, Labels
  <1>3. Asleep'
    BY DEF Wait, CondSleep, MustWait, TypeOK, Asleep
  <1>4. Joined'
    BY DEF Wait, CondSleep, MustWait, TypeOK, Joined
  <1>5. Accounting'
    BY DEF Wait, CondSleep, MustWait, TypeOK, Accounting, Left, Pending
  <1>6. JustMoved'
    BY DEF Wait, CondSleep, MustWait, TypeOK, JustMoved, MutexHeld, Holding
  <1>7. NoLostWakeup'
    BY DEF Wait, CondSleep, MustWait, TypeOK, NoLostWakeup, JustMoved, MutexHeld, Holding, Asleep
  <1> QED
    BY <1>1, <1>2, <1>3, <1>4, <1>5, <1>6, <1>7

\* Waking up, which takes it again.
LEMMA ResumeStep == ASSUME BucketInv, NEW t \in Workers, Resume(t) PROVE BucketInv'
  <1> USE DEF BucketInv, Transition, bucket, MutexLock, MutexUnlock
  <1>1. TypeOK'
    BY DEF Resume, CondResume, TypeOK, Labels, MainLabels
  <1>2. MutexHeld'
    BY DEF Resume, CondResume, TypeOK, MutexHeld, Holding, Labels
  <1>3. Asleep'
    BY DEF Resume, CondResume, TypeOK, Asleep
  <1>4. Joined'
    BY DEF Resume, CondResume, TypeOK, Joined
  <1>5. Accounting'
    BY DEF Resume, CondResume, TypeOK, Accounting, Left, Pending
  <1>6. JustMoved'
    BY DEF Resume, CondResume, TypeOK, JustMoved, MutexHeld, Holding
  <1>7. NoLostWakeup'
    BY DEF Resume, CondResume, TypeOK, NoLostWakeup, JustMoved, MutexHeld, Holding, Asleep
  <1> QED
    BY <1>1, <1>2, <1>3, <1>4, <1>5, <1>6, <1>7

\* Putting an item in.
LEMMA PutStep == ASSUME BucketInv, Put PROVE BucketInv'
  <1> USE DEF BucketInv, Transition, bucket, MutexLock, MutexUnlock
  <1>1. TypeOK'
    <2>1. bucket_given' \in 0..ItemCount
      BY DEF Put, TypeOK, Accounting, Left, Pending
    <2>2. bucket_value' \in 0..BucketCapacity
      BY DEF Put, MustWait, TypeOK
    <2>3. tls_bucket_value' \in [Threads -> Int]
      BY DEF Put, TypeOK
    <2> QED
      BY <2>1, <2>2, <2>3 DEF Put, TypeOK, Labels, MainLabels
  <1>2. MutexHeld'
    BY DEF Put, MustWait, TypeOK, MutexHeld, Holding, Labels
  <1>3. Asleep'
    BY DEF Put, MustWait, TypeOK, Asleep
  <1>4. Joined'
    BY DEF Put, MustWait, TypeOK, Joined
  <1>5. Accounting'
    BY DEF Put, MustWait, TypeOK, Accounting, Left, Pending
  <1>6. JustMoved'
    BY DEF Put, MustWait, TypeOK, JustMoved, MutexHeld, Holding
  <1>7. NoLostWakeup'
    BY DEF Put, MustWait, TypeOK, NoLostWakeup, JustMoved, MutexHeld, Holding, Asleep
  <1> QED
    BY <1>1, <1>2, <1>3, <1>4, <1>5, <1>6, <1>7

\* Taking an item out.
LEMMA GetStep == ASSUME BucketInv, Get PROVE BucketInv'
  <1> USE DEF BucketInv, Transition, bucket, MutexLock, MutexUnlock
  <1>1. TypeOK'
    <2>1. bucket_taken' \in 0..ItemCount
      BY DEF Get, TypeOK, Accounting, Left, Pending
    <2>2. bucket_value' \in 0..BucketCapacity
      BY DEF Get, MustWait, TypeOK
    <2>3. tls_bucket_value' \in [Threads -> Int]
      BY DEF Get, TypeOK
    <2> QED
      BY <2>1, <2>2, <2>3 DEF Get, TypeOK, Labels, MainLabels
  <1>2. MutexHeld'
    BY DEF Get, MustWait, TypeOK, MutexHeld, Holding, Labels
  <1>3. Asleep'
    BY DEF Get, MustWait, TypeOK, Asleep
  <1>4. Joined'
    BY DEF Get, MustWait, TypeOK, Joined
  <1>5. Accounting'
    BY DEF Get, MustWait, TypeOK, Accounting, Left, Pending
  <1>6. JustMoved'
    BY DEF Get, MustWait, TypeOK, JustMoved, MutexHeld, Holding
  <1>7. NoLostWakeup'
    BY DEF Get, MustWait, TypeOK, NoLostWakeup, JustMoved, MutexHeld, Holding, Asleep
  <1> QED
    BY <1>1, <1>2, <1>3, <1>4, <1>5, <1>6, <1>7

\* The next round of the loop.
LEMMA NextItemStep == ASSUME BucketInv, NEW t \in Workers, NextItem(t) PROVE BucketInv'
  <1> USE DEF BucketInv, Transition, bucket, MutexLock, MutexUnlock
  <1>1. TypeOK'
    <2>1. count[t] - 1 \in 0..ItemCount
      BY DEF NextItem, TypeOK
    <2> QED
      BY <2>1 DEF NextItem, TypeOK, Labels, MainLabels
  <1>2. MutexHeld'
    BY DEF NextItem, TypeOK, MutexHeld, Holding, Labels
  <1>3. Asleep'
    BY DEF NextItem, TypeOK, Asleep
  <1>4. Joined'
    BY DEF NextItem, TypeOK, Joined
  <1>5. Accounting'
    BY DEF NextItem, TypeOK, Accounting, Left, Pending
  <1>6. JustMoved'
    BY DEF NextItem, TypeOK, JustMoved, MutexHeld, Holding
  <1>7. NoLostWakeup'
    BY DEF NextItem, TypeOK, NoLostWakeup, JustMoved, MutexHeld, Holding, Asleep
  <1> QED
    BY <1>1, <1>2, <1>3, <1>4, <1>5, <1>6, <1>7

\* The end of the loop.
LEMMA EndThreadStep == ASSUME BucketInv, NEW t \in Workers, EndThread(t) PROVE BucketInv'
  <1> USE DEF BucketInv, Transition, bucket, MutexLock, MutexUnlock
  <1>1. TypeOK'
    BY DEF EndThread, TypeOK, Labels, MainLabels
  <1>2. MutexHeld'
    BY DEF EndThread, TypeOK, MutexHeld, Holding, Labels
  <1>3. Asleep'
    BY DEF EndThread, TypeOK, Asleep
  <1>4. Joined'
    BY DEF EndThread, TypeOK, Joined
  <1>5. Accounting'
    BY DEF EndThread, TypeOK, Accounting, Left, Pending
  <1>6. JustMoved'
    BY DEF EndThread, TypeOK, JustMoved, MutexHeld, Holding
  <1>7. NoLostWakeup'
    BY DEF EndThread, TypeOK, NoLostWakeup, JustMoved, MutexHeld, Holding, Asleep
  <1> QED
    BY <1>1, <1>2, <1>3, <1>4, <1>5, <1>6, <1>7

\* A spurious wake-up.
LEMMA WakeupStep == ASSUME BucketInv, NEW t \in Workers, Wakeup(t) PROVE BucketInv'
  <1> USE DEF BucketInv, Transition, bucket, MutexLock, MutexUnlock
  <1>1. TypeOK'
    BY DEF Wakeup, SpuriousWakeup, TypeOK, Labels, MainLabels
  <1>2. MutexHeld'
    BY DEF Wakeup, SpuriousWakeup, TypeOK, MutexHeld, Holding, Labels
  <1>3. Asleep'
    BY DEF Wakeup, SpuriousWakeup, TypeOK, Asleep
  <1>4. Joined'
    BY DEF Wakeup, SpuriousWakeup, TypeOK, Joined
  <1>5. Accounting'
    BY DEF Wakeup, SpuriousWakeup, TypeOK, Accounting, Left, Pending
  <1>6. JustMoved'
    BY DEF Wakeup, SpuriousWakeup, TypeOK, JustMoved, MutexHeld, Holding
  <1>7. NoLostWakeup'
    BY DEF Wakeup, SpuriousWakeup, TypeOK, NoLostWakeup, JustMoved, MutexHeld, Holding, Asleep
  <1> QED
    BY <1>1, <1>2, <1>3, <1>4, <1>5, <1>6, <1>7

\* Creating a worker that does not run yet.
LEMMA CreateStep == ASSUME BucketInv, NEW t \in Workers, NEW from, NEW to \in MainLabels \ {"create first", "join consumer", "done"},
                          pc[t] = "not created", Create(t, from, to) PROVE BucketInv'
  <1> USE DEF BucketInv, Transition, bucket, MutexLock, MutexUnlock
  <1>0. /\ pc'[t] = "loop" /\ \A u \in Workers \ {t} : pc'[u] = pc[u]
        /\ pc'[Main] = to
    BY DEF Create, TypeOK
  <1>1. TypeOK'
    BY <1>0 DEF Create, TypeOK, Labels, MainLabels
  <1>2. MutexHeld'
    BY <1>0 DEF Create, TypeOK, MutexHeld, Holding, Labels
  <1>3. Asleep'
    BY <1>0 DEF Create, TypeOK, Asleep
  <1>4. Joined'
    BY <1>0 DEF Create, TypeOK, Joined
  <1>5. Accounting'
    BY <1>0 DEF Create, TypeOK, Accounting, Left, Pending
  <1>6. JustMoved'
    BY <1>0 DEF Create, TypeOK, JustMoved, MutexHeld, Holding
  <1>7. NoLostWakeup'
    BY <1>0 DEF Create, TypeOK, NoLostWakeup, JustMoved, MutexHeld, Holding, Asleep
  <1> QED
    BY <1>1, <1>2, <1>3, <1>4, <1>5, <1>6, <1>7

\* Joining the producer.
LEMMA JoinProducerStep == ASSUME BucketInv, Join(Producer, "join producer", "join consumer") PROVE BucketInv'
  <1> USE DEF BucketInv, Transition, bucket, MutexLock, MutexUnlock
  <1>1. TypeOK'
    BY DEF Join, TypeOK, Labels, MainLabels
  <1>2. MutexHeld'
    BY DEF Join, TypeOK, MutexHeld, Holding, Labels
  <1>3. Asleep'
    BY DEF Join, TypeOK, Asleep
  <1>4. Joined'
    BY DEF Join, TypeOK, Joined
  <1>5. Accounting'
    BY DEF Join, TypeOK, Accounting, Left, Pending
  <1>6. JustMoved'
    BY DEF Join, TypeOK, JustMoved, MutexHeld, Holding
  <1>7. NoLostWakeup'
    BY DEF Join, TypeOK, NoLostWakeup, JustMoved, MutexHeld, Holding, Asleep
  <1> QED
    BY <1>1, <1>2, <1>3, <1>4, <1>5, <1>6, <1>7

\* Joining the consumer.
LEMMA JoinConsumerStep == ASSUME BucketInv, Join(Consumer, "join consumer", "done") PROVE BucketInv'
  <1> USE DEF BucketInv, Transition, bucket, MutexLock, MutexUnlock
  <1>1. TypeOK'
    BY DEF Join, TypeOK, Labels, MainLabels
  <1>2. MutexHeld'
    BY DEF Join, TypeOK, MutexHeld, Holding, Labels
  <1>3. Asleep'
    BY DEF Join, TypeOK, Asleep
  <1>4. Joined'
    BY DEF Join, TypeOK, Joined
  <1>5. Accounting'
    BY DEF Join, TypeOK, Accounting, Left, Pending
  <1>6. JustMoved'
    BY DEF Join, TypeOK, JustMoved, MutexHeld, Holding
  <1>7. NoLostWakeup'
    BY DEF Join, TypeOK, NoLostWakeup, JustMoved, MutexHeld, Holding, Asleep
  <1> QED
    BY <1>1, <1>2, <1>3, <1>4, <1>5, <1>6, <1>7

\* Both workers asleep, or one asleep and the other gone: the bucket would have
\* to be empty and full, or the items not add up.
LEMMA InvNoStall == BucketInv => NoStall
  <1> SUFFICES ASSUME BucketInv PROVE NoStall
    OBVIOUS
  <1> USE DEF BucketInv, TypeOK, NoLostWakeup, Asleep
  <1>1. ASSUME Consumer \in cv PROVE Producer \notin cv /\ pc[Producer] # "end"
    <2>1. pc[Consumer] = "wait"
      BY <1>1
    <2>2. bucket_taken < ItemCount
      BY <2>1 DEF Accounting, Left, Pending
    <2>3. Producer \notin cv
      BY <1>1, <2>1
    <2>4. ASSUME pc[Producer] = "end" PROVE FALSE
      <3>1. bucket_value = 0
        BY <1>1, <2>4
      <3>2. bucket_given = ItemCount
        BY <2>4 DEF Accounting, Left, Pending
      <3> QED
        BY <2>2, <3>1, <3>2 DEF Accounting
    <2> QED
      BY <2>3, <2>4
  <1>2. ASSUME Producer \in cv PROVE Consumer \notin cv /\ pc[Consumer] # "end"
    <2>1. pc[Producer] = "wait"
      BY <1>2
    <2>2. bucket_given < ItemCount
      BY <2>1 DEF Accounting, Left, Pending
    <2>3. Consumer \notin cv
      BY <1>2, <2>1
    <2>4. ASSUME pc[Consumer] = "end" PROVE FALSE
      <3>1. bucket_value = BucketCapacity
        BY <1>2, <2>4
      <3>2. bucket_taken = ItemCount
        BY <2>4 DEF Accounting, Left, Pending
      <3> QED
        BY <2>2, <3>1, <3>2 DEF Accounting
    <2> QED
      BY <2>3, <2>4
  <1> QED
    BY <1>1, <1>2 DEF NoStall

\* What the assertions of the source compare is equal.
LEMMA InvCodeAsserts == BucketInv => CodeAsserts
  <1> SUFFICES ASSUME BucketInv PROVE CodeAsserts
    OBVIOUS
  <1>1. bucket_given \in Int /\ bucket_taken \in Int /\ bucket_value \in Int
    BY DEF BucketInv, TypeOK
  <1>2. pc[Producer] = "moved" => tls_bucket_value[Producer] = bucket_given
    BY DEF BucketInv, Accounting
  <1>3. pc[Consumer] = "moved" => 0 - tls_bucket_value[Consumer] = bucket_taken
    BY <1>1 DEF BucketInv, Accounting
  <1>4. ASSUME pc[Main] = "done"
        PROVE  /\ bucket_given = ItemCount /\ bucket_taken = ItemCount
               /\ bucket_value = 0 /\ tls_bucket_value[Main] = 0
    <2>1. \A t \in Workers : pc[t] = "end" /\ count[t] = 0
      BY <1>4 DEF BucketInv, Joined, Accounting
    <2>2. \A t \in Workers : Left(t) = 0
      BY <2>1 DEF Left, Pending
    <2> QED
      BY <1>1, <2>2 DEF BucketInv, Accounting
  <1> QED
    BY <1>2, <1>3, <1>4 DEF CodeAsserts

\* The bucket without threads allows every item that is moved.
LEMMA PutRefines == ASSUME BucketInv, Put PROVE Abstract!GiveItem
  <1>1. bucket_given < ItemCount
    BY DEF Put, Transition, BucketInv, TypeOK, Accounting, Left, Pending
  <1> QED
    BY <1>1 DEF Put, MustWait, BucketInv, TypeOK, Abstract!GiveItem

LEMMA GetRefines == ASSUME BucketInv, Get PROVE Abstract!TakeItem
  <1>1. bucket_taken < ItemCount
    BY DEF Get, Transition, BucketInv, TypeOK, Accounting, Left, Pending
  <1> QED
    BY <1>1 DEF Get, MustWait, BucketInv, TypeOK, Abstract!TakeItem
=============================================================================
