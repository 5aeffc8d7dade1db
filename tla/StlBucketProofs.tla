-------------------------- MODULE StlBucketProofs ---------------------------
(***************************************************************************)
(* StlBucket, for every number of items and every bucket capacity: the     *)
(* inductive invariant, what follows from it, and the refinement.  The     *)
(* case of its own is the window between the unlock and the notification.  *)
(***************************************************************************)
EXTENDS StlBucket, BucketThreadsProofs

USE ConstantFacts DEF Producer, Consumer, Main, Workers, Threads

\* The program starts in the invariant.
LEMMA InitIInv == Init => IInv
  <1>1. Init => pc[Main] = "create first"
    BY DEF Init
  <1> QED
    BY <1>1, InitBucketInv DEF IInv

\* Giving the mutex up with a notification still to send.
LEMMA UnlockOnEdgeStep == ASSUME BucketInv, NEW t \in Workers, UnlockOnEdge(t) PROVE BucketInv'
  <1> USE DEF BucketInv, Transition, bucket, MutexLock, MutexUnlock, UnlockOnEdge, OnEdge
  <1>1. TypeOK'
    BY DEF TypeOK, Labels, MainLabels
  <1>2. MutexHeld'
    BY DEF TypeOK, MutexHeld, Holding, Labels
  <1>3. Asleep'
    BY DEF TypeOK, Asleep
  <1>4. Joined'
    BY DEF TypeOK, Joined
  <1>5. Accounting'
    BY DEF TypeOK, Accounting, Left, Pending
  <1>6. JustMoved'
    BY DEF TypeOK, JustMoved, MutexHeld, Holding
  <1>7. NoLostWakeup'
    BY DEF TypeOK, NoLostWakeup, JustMoved, MutexHeld, Holding, Asleep
  <1> QED
    BY <1>1, <1>2, <1>3, <1>4, <1>5, <1>6, <1>7

\* Sending it, without the mutex.
LEMMA NotifyStep == ASSUME BucketInv, NEW t \in Workers, Notify(t) PROVE BucketInv'
  <1> USE DEF BucketInv, Transition, bucket, MutexLock, MutexUnlock, Notify, CondBroadcast
  <1>1. TypeOK'
    BY DEF TypeOK, Labels, MainLabels
  <1>2. MutexHeld'
    BY DEF TypeOK, MutexHeld, Holding, Labels
  <1>3. Asleep'
    BY DEF TypeOK, Asleep
  <1>4. Joined'
    BY DEF TypeOK, Joined
  <1>5. Accounting'
    BY DEF TypeOK, Accounting, Left, Pending
  <1>6. JustMoved'
    BY DEF TypeOK, JustMoved, MutexHeld, Holding
  <1>7. NoLostWakeup'
    BY DEF TypeOK, NoLostWakeup, JustMoved, MutexHeld, Holding, Asleep
  <1> QED
    BY <1>1, <1>2, <1>3, <1>4, <1>5, <1>6, <1>7

\* Giving the mutex up when there is nobody to notify.
LEMMA UnlockStep == ASSUME BucketInv, NEW t \in Workers, Unlock(t) PROVE BucketInv'
  <1> USE DEF BucketInv, Transition, bucket, MutexLock, MutexUnlock, Unlock, OnEdge
  <1>1. TypeOK'
    BY DEF TypeOK, Labels, MainLabels
  <1>2. MutexHeld'
    BY DEF TypeOK, MutexHeld, Holding, Labels
  <1>3. Asleep'
    BY DEF TypeOK, Asleep
  <1>4. Joined'
    BY DEF TypeOK, Joined
  <1>5. Accounting'
    BY DEF TypeOK, Accounting, Left, Pending
  <1>6. JustMoved'
    BY DEF TypeOK, JustMoved, MutexHeld, Holding
  <1>7. NoLostWakeup'
    BY DEF TypeOK, NoLostWakeup, JustMoved, MutexHeld, Holding, Asleep
  <1> QED
    BY <1>1, <1>2, <1>3, <1>4, <1>5, <1>6, <1>7

\* A worker is created once, so no step of the others touches it before.
LEMMA NextIInv == IInv /\ [Next]_vars => IInv'
  <1> SUFFICES ASSUME IInv, [Next]_vars PROVE IInv'
    OBVIOUS
  <1>1. BucketInv
    BY DEF IInv
  <1>2. ASSUME NEW t \in Workers, Worker(t) PROVE IInv'
    <2>1. BucketInv'
      BY <1>1, <1>2, LockStep, WaitStep, ResumeStep, NextItemStep, EndThreadStep,
         UnlockOnEdgeStep, NotifyStep, UnlockStep DEF Worker
    <2>2. pc[t] # "not created" /\ pc' = [pc EXCEPT ![t] = pc'[t]]
      BY <1>1, <1>2 DEF Worker, Transition, Lock, Wait, Resume, NextItem, EndThread, UnlockOnEdge, Notify, Unlock, BucketInv, TypeOK
    <2> QED
      BY <1>1, <2>1, <2>2 DEF IInv, BucketInv, TypeOK
  <1>3. ASSUME Put \/ Get PROVE IInv'
    <2>1. BucketInv'
      BY <1>1, <1>3, PutStep, GetStep
    <2>2. \E t \in Workers : pc[t] = "test" /\ pc' = [pc EXCEPT ![t] = "moved"]
      BY <1>3 DEF Put, Get, Transition
    <2> QED
      BY <1>1, <2>1, <2>2 DEF IInv, BucketInv, TypeOK
  <1>4. CASE MainThread
    <2>1. CASE Create(Producer, "create first", "create second")
      <3>1. pc[Producer] = "not created" /\ pc[Consumer] = "not created"
        BY <1>1, <2>1 DEF Create, BucketInv, Joined
      <3>2. BucketInv'
        BY <1>1, <2>1, <3>1, CreateStep DEF MainLabels
      <3> QED
        BY <1>1, <2>1, <3>1, <3>2 DEF IInv, Create, BucketInv, TypeOK
    <2>2. CASE Create(Consumer, "create second", "join producer")
      <3>1. pc[Consumer] = "not created"
        BY <2>2 DEF Create, IInv
      <3>2. BucketInv'
        BY <1>1, <2>2, <3>1, CreateStep DEF MainLabels
      <3>3. pc'[Main] = "join producer"
        BY <1>1, <2>2 DEF Create, BucketInv, TypeOK
      <3> QED
        BY <3>2, <3>3 DEF IInv
    <2>3. CASE Join(Producer, "join producer", "join consumer")
      <3>1. pc'[Main] = "join consumer"
        BY <1>1, <2>3 DEF Join, Transition, BucketInv, TypeOK
      <3> QED
        BY <1>1, <2>3, <3>1, JoinProducerStep DEF IInv
    <2>4. CASE Join(Consumer, "join consumer", "done")
      <3>1. pc'[Main] = "done"
        BY <1>1, <2>4 DEF Join, Transition, BucketInv, TypeOK
      <3> QED
        BY <1>1, <2>4, <3>1, JoinConsumerStep DEF IInv
    <2> QED
      BY <1>4, <2>1, <2>2, <2>3, <2>4 DEF MainThread
  <1>5. ASSUME NEW t \in Workers, Wakeup(t) PROVE IInv'
    BY <1>1, <1>5, WakeupStep DEF IInv, Wakeup
  <1>6. CASE UNCHANGED vars
    BY <1>6 DEF IInv, BucketInv, vars, bucket, TypeOK, MutexHeld, Asleep, Joined,
       Accounting, Left, JustMoved, NoLostWakeup
  <1> QED
    BY <1>2, <1>3, <1>4, <1>5, <1>6 DEF Next, Finished

\* The invariant holds in every state the program reaches.
THEOREM AlwaysIInv == Safety => []IInv
  BY InitIInv, NextIInv, PTL DEF Safety

\* Every variable keeps its type and the bucket its bounds, for every
\* ItemCount and BucketCapacity.
THEOREM TypeCorrect == Spec => []TypeOK
  <1>1. IInv => TypeOK
    BY DEF IInv, BucketInv
  <1> QED
    BY <1>1, AlwaysIInv, PTL DEF Spec

\* Notifying on the two edges alone loses no wake-up.
THEOREM EdgeSignalsSuffice == Spec => []NoLostWakeup
  <1>1. IInv => NoLostWakeup
    BY DEF IInv, BucketInv
  <1> QED
    BY <1>1, AlwaysIInv, PTL DEF Spec

\* A sleeping worker always has a partner that is awake and not finished.
THEOREM NeverStalls == Spec => []NoStall
  <1>1. IInv => NoStall
    BY InvNoStall DEF IInv
  <1> QED
    BY <1>1, AlwaysIInv, PTL DEF Spec

\* What the assertions of the source compare is equal.
THEOREM AssertsHold == Spec => []CodeAsserts
  <1>1. IInv => CodeAsserts
    BY InvCodeAsserts DEF IInv
  <1> QED
    BY <1>1, AlwaysIInv, PTL DEF Spec

\* The bucket is not used any more when main, whose local it is, leaves.
THEOREM BucketOutlivesItsUsers == Spec => []AliveWhileUsed
  <1>1. IInv => AliveWhileUsed
    BY DEF IInv, BucketInv, TypeOK, Joined, MutexHeld, Holding, AliveWhileUsed
  <1> QED
    BY <1>1, AlwaysIInv, PTL DEF Spec

\* Threads, mutex and condition variable implement the bucket without them:
\* a step is one of its steps or leaves the bucket alone.
THEOREM ImplementsBucketSafety == Spec => Abstract!Safety
  <1>1. Init => Abstract!Init
    BY DEF Init, Abstract!Init
  <1>2. IInv /\ [Next]_vars => [Abstract!Next]_(Abstract!bucketVars)
    <2> SUFFICES ASSUME IInv, [Next]_vars, bucket' # bucket
                 PROVE  Abstract!Next
      BY DEF bucket, Abstract!bucketVars
    <2>1. CASE Put
      BY <2>1, PutRefines DEF IInv, Abstract!Next
    <2>2. CASE Get
      BY <2>2, GetRefines DEF IInv, Abstract!Next
    <2> QED
      BY <2>1, <2>2 DEF Next, Worker, MainThread, Finished, vars, bucket,
         Lock, Wait, Resume, NextItem, EndThread, UnlockOnEdge, Notify, Unlock, Create, Join, Wakeup
  <1> QED
    BY <1>1, <1>2, AlwaysIInv, PTL DEF Spec, Safety, Abstract!Safety
=============================================================================
