----------------------------- MODULE StlBucket -----------------------------
(***************************************************************************)
(* src/samples/cpp_stlthreads/src/main.cpp: the bucket over std::mutex and *)
(* std::condition_variable, members of an object on the stack of main.  On *)
(* an edge a worker unlocks first and notifies afterwards, so the other    *)
(* one may run, and even empty or fill the bucket again, in between.  The  *)
(* producer is created first.                                              *)
(***************************************************************************)
EXTENDS BucketThreads

\* lock.unlock() inside the `if' of TakeItem and GiveItem.
UnlockOnEdge(self) ==
    /\ OnEdge(self)
    /\ Transition(self, "moved", "notify")
    /\ MutexUnlock(m, self)
    /\ UNCHANGED <<cv, bucket, tls_bucket_value, count>>

Notify(self) ==
    /\ Transition(self, "notify", "loop")
    /\ CondBroadcast(cv)
    /\ UNCHANGED <<m, bucket, tls_bucket_value, count>>

\* The unlock without the notification that belongs to it.
UnlockSilently(self) ==
    /\ Transition(self, "moved", "loop")
    /\ MutexUnlock(m, self)
    /\ UNCHANGED <<cv, bucket, tls_bucket_value, count>>

\* The destructor of the unique_lock.
Unlock(self) ==
    /\ ~OnEdge(self)
    /\ Transition(self, "moved", "loop")
    /\ MutexUnlock(m, self)
    /\ UNCHANGED <<cv, bucket, tls_bucket_value, count>>

Worker(self) ==
    \/ Lock(self) \/ Wait(self) \/ Resume(self)
    \/ UnlockOnEdge(self) \/ Notify(self) \/ Unlock(self)
    \/ NextItem(self) \/ EndThread(self)

MainThread ==
    \/ Create(Producer, "create first", "create second")
    \/ Create(Consumer, "create second", "join producer")
    \/ Join(Producer, "join producer", "join consumer")
    \/ Join(Consumer, "join consumer", "done")

Next ==
    \/ \E t \in Workers : Worker(t)
    \/ Put
    \/ Get
    \/ MainThread
    \/ \E t \in Workers : Wakeup(t)
    \/ Finished

Safety == Init /\ [][Next]_vars

\* As for the pthread program.
Fairness ==
    /\ \A t \in Workers : /\ WF_vars(Worker(t))
                          /\ SF_vars(Lock(t))
                          /\ SF_vars(Resume(t))
    /\ WF_vars(Put)
    /\ WF_vars(Get)
    /\ WF_vars(MainThread)

Spec == Safety /\ Fairness

-----------------------------------------------------------------------------
\* The inductive invariant: the shared one, and the consumer is only created
\* once.
IInv == BucketInv /\ (pc[Main] = "create second" => pc[Consumer] = "not created")

\* The bucket is a local variable of main: when main leaves, no worker is
\* still on its way to the mutex or to the notification it sends unlocked.
AliveWhileUsed == pc[Main] = "done" => m = Nobody /\ \A t \in Workers : pc[t] = "end"

\* The program implements the bucket without threads, and under the fairness
\* of Spec it also brings every item through.
ImplementsBucket == Abstract!Spec

\* The sample terminates: main has joined both workers.
Terminates == <>(pc[Main] = "done")
=============================================================================
