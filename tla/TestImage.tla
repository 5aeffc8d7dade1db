----------------------------- MODULE TestImage -----------------------------
(***************************************************************************)
(* The image of src/tests/pthread: its suites run one after the other, in  *)
(* the order of their names, and share the pools of condition variables    *)
(* and threads that prj.conf has set up.  A condition variable that is     *)
(* initialised statically takes its element when it is first used, and     *)
(* keeps it.                                                               *)
(*                                                                         *)
(* The suites cond, pthread_kthread (ThreadIdentity), pthread_once         *)
(* (OnceRace) and pthread_specific (KeyStages) are here with all their     *)
(* steps; of pthread and pthread_threads01 (PthreadSuite, PthreadBucket)   *)
(* only what they leave behind.  The samples cpp_pthread_kthread and       *)
(* cpp_pthread_specific are images of their own.                           *)
(***************************************************************************)
EXTENDS KeyStages

CONSTANTS
    POSIX_THREAD_THREADS_MAX, MAX_PTHREAD_COND_COUNT, SpuriousWaiters,  \* of OnceRace
    Handles                                                             \* of ThreadIdentity

\* The suite cond.
InitExistingAttr == <<"init", "destroy">>
ResourceExhausted ==
    [n \in 1..MAX_PTHREAD_COND_COUNT |-> "init"] \o <<"init_fails">>
    \o [n \in 1..MAX_PTHREAD_COND_COUNT |-> "destroy"]
ResourceLeak ==
    [n \in 1..4 * MAX_PTHREAD_COND_COUNT |-> IF n % 2 = 1 THEN "init" ELSE "destroy"]

\* The suites that use the pool come before the one that wants all of it.
StaticsFirst ==
    <<"first_use", "first_use", "leave_threads">> \o InitExistingAttr \o ResourceExhausted
    \o ResourceLeak \o <<"kthread", "once", "first_use", "keys", "first_use">>

\* Two static condition variables in pthread.c, one in pthread_specific.c, one
\* in pthread_threads01.c.
Tests ==
    InitExistingAttr \o ResourceExhausted \o ResourceLeak
    \o <<"first_use", "first_use", "leave_threads">>
    \o <<"kthread", "once", "first_use", "keys", "first_use">>

Images == {"tests", "cpp_pthread_kthread", "cpp_pthread_specific"}

VARIABLES
    image,
    step,           \* of its list, what comes next
    detached,       \* threads of the suite pthread that still sleep
    conds, m_tstart, cv_tstart, cv_run, i, once_id, control, once_value, once_pc,
    at, handle, pthread_thread, pthread_thread2, kthread_thread2

onceVars == <<m_tstart, cv_tstart, cv_run, i, once_id, control, once_value, once_pc>>
identityVars == <<at, handle, pthread_thread, pthread_thread2, kthread_thread2>>
imageVars == <<image, step, detached, conds, onceVars, identityVars, vars>>

Identity == INSTANCE ThreadIdentity
Once == INSTANCE OnceRace WITH id <- once_id, pc <- once_pc

ASSUME ImageAssumption ==
    KeyAssumption /\ Once!OnceAssumption /\ Identity!IdentityAssumption

ImageInit ==
    /\ image \in Images
    /\ step = 1
    /\ detached = 0
    /\ Identity!Init
    /\ Once!Init
    /\ Init
    /\ sample = (image = "cpp_pthread_specific")

Steps ==
    CASE image = "tests" -> Tests
      [] image = "cpp_pthread_kthread" -> <<"kthread">>
      [] OTHER -> <<"keys">>
At(op) == step \in DOMAIN Steps /\ Steps[step] = op
GoOn == step' = step + 1 /\ UNCHANGED <<image, onceVars, vars>>
NextStep == GoOn /\ UNCHANGED identityVars

\* pthread_cond_init, and the first use of a static condition variable.
InitCond ==
    /\ At("init") \/ At("first_use")
    /\ conds < MAX_PTHREAD_COND_COUNT
    /\ conds' = conds + 1
    /\ NextStep
    /\ UNCHANGED detached

InitCondFails ==
    /\ At("init_fails")
    /\ conds = MAX_PTHREAD_COND_COUNT
    /\ NextStep
    /\ UNCHANGED <<detached, conds>>

DestroyCond ==
    /\ At("destroy")
    /\ conds' = conds - 1
    /\ NextStep
    /\ UNCHANGED detached

\* Two detached threads may outlive the suite pthread.
LeaveThreads ==
    /\ At("leave_threads")
    /\ detached' \in 0..2
    /\ NextStep
    /\ UNCHANGED conds

DetachedEnds ==
    /\ detached > 0
    /\ detached' = detached - 1
    /\ UNCHANGED <<image, step, conds, onceVars, identityVars, vars>>

SuiteEnds ==
    /\ \/ At("once") /\ Once!Done
       \/ At("keys") /\ Done
    /\ NextStep
    /\ UNCHANGED <<detached, conds>>

\* The identities are never looked at again, and the model forgets them.
KthreadEnds ==
    /\ At("kthread") /\ Identity!Done
    /\ handle' = [t \in Identity!Threads |-> Identity!None]
    /\ pthread_thread' = Identity!None /\ pthread_thread2' = Identity!None
    /\ GoOn
    /\ UNCHANGED <<detached, conds, at, kthread_thread2>>

ImageStep ==
    InitCond \/ InitCondFails \/ DestroyCond \/ LeaveThreads \/ SuiteEnds \/ KthreadEnds

KthreadStep ==
    /\ At("kthread") /\ Identity!Next
    /\ UNCHANGED <<image, step, detached, conds, onceVars, vars>>
OnceStep ==
    /\ At("once") /\ Once!Next
    /\ UNCHANGED <<image, step, detached, identityVars, vars>>
KeysStep ==
    /\ At("keys") /\ Next
    /\ UNCHANGED <<image, step, detached, conds, onceVars, identityVars>>

ImageEnd == step = Len(Steps) + 1
Finished == ImageEnd /\ UNCHANGED imageVars

ImageNext ==
    ImageStep \/ DetachedEnds \/ KthreadStep \/ OnceStep \/ KeysStep \/ Finished

\* A thread that can run does, and one that asks for a mutex again and again
\* gets it, which matters only to endless spurious wake-ups of the others.
ImageSpec ==
    /\ ImageInit /\ [][ImageNext]_imageVars
    /\ WF_imageVars(ImageStep)
    /\ WF_identityVars(At("kthread") /\ Identity!MainThread)
    /\ WF_identityVars(At("kthread") /\ Identity!NewThreads)
    /\ \A t \in Once!Threads : WF_onceVars(At("once") /\ Once!AThread(t))
    /\ WF_onceVars(At("once") /\ Once!MainThread)
    /\ \A t \in Threads :
          /\ WF_vars(At("keys") /\ (OnKeys(t) \/ OnStages(t)))
          /\ SF_vars(At("keys") /\ Lock(t))
          /\ SF_vars(At("keys") /\ Resume(t))
    /\ WF_vars(At("keys") /\ (CreateThreads \/ Join))

-----------------------------------------------------------------------------
\* The suites hold: the types, and everything their threads check.
ImageInv ==
    /\ step \in 1..Len(Steps) + 1 /\ detached \in 0..2
    /\ Inv
    /\ Once!Inv
    /\ Identity!TypeOK /\ Identity!IdentitiesHold

\* The pools suffice: pthread_cond_init fails in the one place where it is
\* meant to and nowhere else (nobody looks in test_2_parallel), and there is a
\* thread for each that the race creates, detached ones of pthread.c included.
PoolsSuffice ==
    /\ At("init") \/ At("first_use") => conds < MAX_PTHREAD_COND_COUNT
    /\ At("init_fails") => conds = MAX_PTHREAD_COND_COUNT
    /\ At("once") /\ once_pc[Once!Main] = "init_conds" => conds < MAX_PTHREAD_COND_COUNT
    /\ At("once") /\ once_pc[Once!Main] = "create" => i + detached < POSIX_THREAD_THREADS_MAX

\* All suites come to their end, and only the static condition variables are
\* still out.
Terminates == <>(ImageEnd /\ conds = IF image = "tests" THEN 4 ELSE 0)
=============================================================================
