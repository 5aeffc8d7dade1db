--------------------------- MODULE ThreadIdentity ---------------------------
(***************************************************************************)
(* src/samples/cpp_pthread_kthread/src/main.cpp (and the test              *)
(* src/tests/pthread/src/pthread_kthread.c, which does the same with main  *)
(* last): main, a pthread and a kernel thread each compare their two       *)
(* identities.  The new threads leave theirs in two variables that main    *)
(* reads after joining.                                                    *)
(*                                                                         *)
(* A thread of the kernel is its own k_tid_t.  Which pthread_t belongs to  *)
(* it is the kernel's affair: a thread has one from the time when it is    *)
(* first asked for, and one that has been joined leaves it to others.      *)
(***************************************************************************)
CONSTANT Handles    \* the values of pthread_t

Main == "main"
P == "pthread"
K == "kthread"
Threads == {Main, P, K}
None == "none"

IdentityAssumption == None \notin Handles

VARIABLES
    at,                                 \* where each thread is
    handle,                             \* the pthread_t of each
    pthread_thread,                     \* main's, as pthread_create returned it
    pthread_thread2, kthread_thread2    \* what the threads have found

vars == <<at, handle, pthread_thread, pthread_thread2, kthread_thread2>>

Init ==
    /\ at = [t \in Threads |-> IF t = Main THEN "self" ELSE "none"]
    /\ handle = [t \in Threads |-> None]
    /\ pthread_thread = None /\ pthread_thread2 = None /\ kthread_thread2 = None

Go(t, from, to) == at[t] = from /\ at' = [at EXCEPT ![t] = to]
Free == {h \in Handles : \A t \in Threads : handle[t] # h}

\* pthread_self
Self(t) ==
    IF handle[t] # None THEN UNCHANGED handle
    ELSE \E h \in Free : handle' = [handle EXCEPT ![t] = h]

\* pthread_to_zephyr_thread
Owners(h) == {t \in Threads : handle[t] = h}

\* pthread_entry
PthreadSelf ==
    /\ Go(P, "self", "compare")
    /\ Self(P)
    /\ pthread_thread2' = handle'[P]
    /\ UNCHANGED <<pthread_thread, kthread_thread2>>

\* kthread_entry
KthreadSelf ==
    /\ Go(K, "self", "compare")
    /\ Self(K)
    /\ kthread_thread2' = K
    /\ UNCHANGED <<pthread_thread, pthread_thread2>>

\* The two identities are compared.
Compare(t) ==
    /\ Go(t, "compare", IF t = Main THEN "create_P" ELSE "ended")
    /\ UNCHANGED <<handle, pthread_thread, pthread_thread2, kthread_thread2>>

\* main
MainSelf ==
    /\ Go(Main, "self", "compare")
    /\ Self(Main)
    /\ UNCHANGED <<pthread_thread, pthread_thread2, kthread_thread2>>

CreateP ==
    /\ at[Main] = "create_P"
    /\ at' = [at EXCEPT ![Main] = "create_K", ![P] = "self"]
    /\ \E h \in Free : handle' = [handle EXCEPT ![P] = h] /\ pthread_thread' = h
    /\ UNCHANGED <<pthread_thread2, kthread_thread2>>

CreateK ==
    /\ at[Main] = "create_K"
    /\ at' = [at EXCEPT ![Main] = "join_P", ![K] = "self"]
    /\ UNCHANGED <<handle, pthread_thread, pthread_thread2, kthread_thread2>>

JoinP ==
    /\ at[P] = "ended"
    /\ Go(Main, "join_P", "join_K")
    /\ handle' = [handle EXCEPT ![P] = None]
    /\ UNCHANGED <<pthread_thread, pthread_thread2, kthread_thread2>>

JoinK ==
    /\ at[K] = "ended"
    /\ Go(Main, "join_K", "done")
    /\ handle' = [handle EXCEPT ![K] = None]
    /\ UNCHANGED <<pthread_thread, pthread_thread2, kthread_thread2>>

MainThread == MainSelf \/ Compare(Main) \/ CreateP \/ CreateK \/ JoinP \/ JoinK
NewThreads == PthreadSelf \/ KthreadSelf \/ Compare(P) \/ Compare(K)
Next == MainThread \/ NewThreads

Done == at[Main] = "done"

\* Every comparison finds what it should: a thread's pthread_t leads back to
\* that thread only, and behind each join main finds what that thread has left.
IdentitiesHold ==
    /\ \A t \in Threads : at[t] = "compare" => Owners(handle[t]) = {t}
    /\ at[Main] \in {"join_K", "done"} => pthread_thread2 = pthread_thread
    /\ Done => kthread_thread2 = K

TypeOK ==
    /\ at \in [Threads -> {"none", "self", "compare", "create_P", "create_K", "join_P",
                           "join_K", "ended", "done"}]
    /\ handle \in [Threads -> Handles \cup {None}]
    /\ {pthread_thread, pthread_thread2} \subseteq Handles \cup {None}
    /\ kthread_thread2 \in {None, K}
=============================================================================
