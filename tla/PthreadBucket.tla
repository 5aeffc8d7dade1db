--------------------------- MODULE PthreadBucket ---------------------------
(***************************************************************************)
(* src/samples/cpp_pthreads/src/main.cpp, and as a test of the suites      *)
(* src/tests/pthread/src/pthread_threads01.c: the bucket over pthread.  A  *)
(* worker signals with the mutex held, and only when the bucket has left   *)
(* the state the other one could be asleep in: empty -> one item, full ->  *)
(* one free slot.  The consumer is created first.                          *)
(***************************************************************************)
EXTENDS BucketThreads

Signal(self) ==
    /\ Transition(self, "moved", "unlock")
    /\ IF OnEdge(self) THEN CondSignal(cv) ELSE UNCHANGED cv
    /\ UNCHANGED <<m, bucket, tls_bucket_value, count>>

Unlock(self) ==
    /\ Transition(self, "unlock", "loop")
    /\ MutexUnlock(m, self)
    /\ UNCHANGED <<cv, bucket, tls_bucket_value, count>>

Worker(self) ==
    \/ Lock(self) \/ Wait(self) \/ Resume(self)
    \/ Signal(self) \/ Unlock(self)
    \/ NextItem(self) \/ EndThread(self)

MainThread ==
    \/ Create(Consumer, "create first", "create second")
    \/ Create(Producer, "create second", "join producer")
    \/ Join(Producer, "join producer", "join consumer")
    \/ Join(Consumer, "join consumer", "done")

Next ==
    \/ \E t \in Workers : Worker(t)
    \/ Put
    \/ Get
    \/ MainThread
    \/ \E t \in Workers : Wakeup(t)
    \/ Finished

Safety == Init /\ [][Next]_vars

\* A thread that can run does run, and one that keeps asking for the mutex gets
\* it (k_mutex hands over to a waiter).  The second is only needed because
\* spurious wake-ups may go on for ever here; they are never assumed to happen.
Fairness ==
    /\ \A t \in Workers : /\ WF_vars(Worker(t))
                          /\ SF_vars(Lock(t))
                          /\ SF_vars(Resume(t))
    /\ WF_vars(Put)
    /\ WF_vars(Get)
    /\ WF_vars(MainThread)

Spec == Safety /\ Fairness

-----------------------------------------------------------------------------
\* The inductive invariant: the shared one, and the producer is only created
\* once.
IInv == BucketInv /\ (pc[Main] = "create second" => pc[Producer] = "not created")

\* The program implements the bucket without threads, and under the fairness
\* of Spec it also brings every item through.
ImplementsBucket == Abstract!Spec

\* The test terminates: both workers end and the main thread has joined them.
Terminates == <>(pc[Main] = "done")
=============================================================================
