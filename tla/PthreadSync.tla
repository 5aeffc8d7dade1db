---------------------------- MODULE PthreadSync ----------------------------
(***************************************************************************)
(* What the programs of this repository rely on of the synchronisation     *)
(* objects that Zephyr's pthread layer (and libstdc++ on top of it)        *)
(* provides.  The kernel is not part of the repository: these operators    *)
(* are the contract the calling code is written against.                   *)
(*                                                                         *)
(* A mutex is a variable that holds its owner or Nobody.  A condition      *)
(* variable is the set of the threads asleep on it: a thread inside        *)
(* pthread_cond_wait that has left that set has been woken and competes    *)
(* for the mutex again.                                                    *)
(***************************************************************************)
CONSTANT Nobody     \* "no thread": the owner of a free mutex

MutexLock(m, t) == m = Nobody /\ m' = t

MutexUnlock(m, t) == m = t /\ m' = Nobody

\* pthread_cond_wait, first half: give the mutex up and fall asleep, in one step.
CondSleep(cv, m, t) == MutexUnlock(m, t) /\ cv' = cv \cup {t}

\* pthread_cond_wait, second half: a woken thread takes the mutex again.
CondResume(cv, m, t) == t \notin cv /\ MutexLock(m, t)

\* pthread_cond_signal: one sleeper leaves, any of them; nothing is remembered
\* when nobody sleeps.
CondSignal(cv) == IF cv = {} THEN cv' = cv ELSE \E t \in cv : cv' = cv \ {t}

CondBroadcast(cv) == cv' = {}

\* POSIX and C++ let a wait return although nobody signalled.
SpuriousWakeup(cv, t) == t \in cv /\ cv' = cv \ {t}
=============================================================================
