-------------------------- MODULE TestImageProofs --------------------------
(***************************************************************************)
(* The suites of TestImage one by one, with pools of any size: the start   *)
(* of any number of threads and their race through pthread_once, the       *)
(* identities whatever values pthread_t has, how many condition variables  *)
(* are out before each step of the image, and the turns and the keys of    *)
(* three threads with any number of key ids.                               *)
(***************************************************************************)
EXTENDS TestImage, TLAPS

-----------------------------------------------------------------------------
(* OnceRace                                                                 *)

N == Once!MY_THREAD_COUNT
Starter == Once!Main                \* main
Racers == Once!Threads
Everyone == Racers \cup {Starter}

\* Where main is: alone with pthread_once, setting up, creating the threads,
\* and behind that.
Solo == {"once", "init_func", "once_done", "check", "bad_value"}
SettingUp == {"init_conds", "lock"}
Starting == {"create", "wait", "waiting"}
Launching == {"launch", "unlock", "join", "done"}

\* Where another thread is: on its way to the wait, and behind that.
OnItsWay == {"not_created", "created", "lock", "signal", "wait"}
Racing == {"once", "init_func", "once_done", "check", "end"}
Started == {"waiting", "unlock"} \cup Racing

PlaceTypes ==
    /\ once_pc \in [Everyone ->
                       OnItsWay \cup Started \cup Solo \cup SettingUp \cup Starting \cup Launching]
    /\ once_pc[Starter] \in Solo \cup SettingUp \cup Starting \cup Launching
    /\ \A t \in Racers : once_pc[t] \in OnItsWay \cup Started

RaceTypes ==
    /\ PlaceTypes
    /\ m_tstart \in Everyone \cup {Nobody}
    /\ cv_tstart \in SUBSET {Starter}
    /\ cv_run \in [Racers -> SUBSET Racers]
    /\ i \in 0..N
    /\ once_id \in [Racers -> Everyone]
    /\ control \in [{"once_control", "once_control2"} -> {"init", "running", "done"}]
    /\ once_value \in 0..1

\* How far main's loops have got; until the last of them there is nobody else.
Loops ==
    /\ once_pc[Starter] \in Solo => i \in {0, 1}
    /\ once_pc[Starter] \in {"bad_value", "lock"} => i = 0
    /\ once_pc[Starter] \in Starting \cup {"launch"} => i < N
    /\ once_pc[Starter] \in Solo \cup SettingUp =>
          control["once_control2"] = "init" /\ \A t \in Racers : once_pc[t] = "not_created"

\* The function runs once, by one caller, and the control knows.
InFunction == {"init_func", "once_done"}
Current == IF once_pc[Starter] \in Solo THEN "once_control" ELSE "once_control2"
OneCall ==
    /\ control[Current] = "init" => once_value = 0
    /\ control[Current] = "done" => once_value = 1
    /\ \A t \in Everyone :
          /\ once_pc[t] = "init_func" => control[Once!Used(t)] = "running" /\ once_value = 0
          /\ once_pc[t] = "once_done" => control[Once!Used(t)] = "running" /\ once_value = 1
    /\ \A t, u \in Everyone : once_pc[t] \in InFunction /\ once_pc[u] \in InFunction => t = u

RaceInv == RaceTypes /\ Loops /\ OneCall /\ Once!InitRanOnce

\* The mutex: its owner is where it is held.
Holding == {"signal", "wait", "unlock", "create", "launch"}
Owned == \A t \in Everyone : once_pc[t] \in Holding <=> m_tstart = t

\* Who sleeps, and on which condition variable.
Asleep ==
    /\ Starter \in cv_tstart => once_pc[Starter] = "waiting"
    /\ \A k, t \in Racers : t \in cv_run[k] => k = t /\ once_pc[t] = "waiting"

\* The thread that main is about to create, and the one that it has created and
\* waits for.
Newest ==
    CASE once_pc[Starter] = "create" -> {"not_created"}
      [] once_pc[Starter] = "wait" -> {"created", "lock"}
      [] OTHER -> IF Starter \in cv_tstart THEN {"created", "lock", "signal"}
                                           ELSE {"wait"} \cup Started

OneByOne ==
    /\ once_pc[Starter] \in Starting =>
          \A t \in Racers :
              /\ t < i => once_pc[t] \in Started
              /\ t = i => once_pc[t] \in Newest
              /\ t > i => once_pc[t] = "not_created"
    /\ once_pc[Starter] \in Launching => \A t \in Racers : once_pc[t] \in Started

StartInv == Owned /\ Asleep /\ OneByOne /\ Once!ArgLifecycle

-----------------------------------------------------------------------------
(* The pools                                                                *)

M == MAX_PTHREAD_COND_COUNT

\* Where the suite pthread_once is in Tests.
OnceStepNo == 6 * M + 8

\* The condition variables that are out before each step, those of the race
\* left aside: two at most of the suite cond, or all of them, then the static
\* ones.
Out(s) ==
    CASE s <= 2 -> s - 1
      [] s \in 3..M + 3 -> s - 3
      [] s \in M + 4..2 * M + 4 -> 2 * M + 4 - s
      [] s \in 2 * M + 5..6 * M + 4 -> s % 2
      [] s \in 6 * M + 5..6 * M + 6 -> s - (6 * M + 4)
      [] s \in 6 * M + 7..6 * M + 9 -> 2
      [] s \in 6 * M + 10..6 * M + 11 -> 3
      [] OTHER -> 4

\* Those of the race: as many as the pool still has, and all are given back,
\* the one that was not there too.
OutForRace ==
    CASE once_pc[Starter] \in Solo -> 0
      [] once_pc[Starter] = "init_conds" -> i
      [] once_pc[Starter] = "done" ->
            IF POSIX_THREAD_THREADS_MAX < M THEN 0 ELSE -1
      [] OTHER -> Once!MY_MIN(N + 1, M - 2)

PoolInv ==
    /\ image \in Images
    /\ step \in 1..Len(Steps) + 1
    /\ detached \in 0..2
    /\ image # "tests" \/ step < OnceStepNo => once_pc[Starter] = "once"
    /\ image = "tests" /\ step > OnceStepNo => once_pc[Starter] = "done"
    /\ conds = IF image = "tests" THEN Out(step) + OutForRace ELSE 0

-----------------------------------------------------------------------------
(* ThreadIdentity                                                           *)

IdentityInv ==
    /\ Identity!TypeOK
    \* Who is there.
    /\ at["main"] \in {"self", "compare", "create_P", "create_K", "join_P", "join_K", "done"}
    /\ at["pthread"] \in {"none", "self", "compare", "ended"}
    /\ at["kthread"] \in {"none", "self", "compare", "ended"}
    /\ at["pthread"] = "none" <=> at["main"] \in {"self", "compare", "create_P"}
    /\ at["kthread"] = "none" <=> at["main"] \in {"self", "compare", "create_P", "create_K"}
    /\ at["main"] \in {"join_K", "done"} => at["pthread"] = "ended"
    /\ at["main"] = "done" => at["kthread"] = "ended"
    \* A pthread_t belongs to one thread.
    /\ \A t, u \in Identity!Threads : handle[t] = handle[u] /\ handle[t] # "none" => t = u
    /\ \A t \in Identity!Threads : at[t] = "compare" => handle[t] # "none"
    /\ at["main"] \in {"create_K", "join_P"} =>
          handle["pthread"] = pthread_thread /\ pthread_thread # "none"
    \* What the threads have found.
    /\ at["pthread"] \in {"compare", "ended"} => pthread_thread2 = pthread_thread
    /\ at["kthread"] \in {"compare", "ended"} => kthread_thread2 = "kthread"

-----------------------------------------------------------------------------
(* KeyStages: the turns                                                     *)

\* Where a thread asks for the mutex, where it ends one stage and waits for its
\* next one, and where it ends its last one.
LockAt(t) == IF t = Main THEN 17 ELSE 1
IncrWaits(t) ==
    CASE t = Main -> {19, 26, 27, 35} [] t = T1 -> {10, 14, 18, 23} [] OTHER -> {10, 14, 21, 22}
IncrAt(t) == CASE t = Main -> 42 [] t = T1 -> 28 [] OTHER -> 27

\* The stage that a thread is in at a place: its first one, and three more each
\* time.
FirstStage(t) == CASE t = Main -> 0 [] t = T1 -> 1 [] OTHER -> 2
Rounds(t, p) ==
    CASE t = Main -> IF p <= 19 THEN 0 ELSE IF p <= 26 THEN 1 ELSE IF p <= 27 THEN 2
                     ELSE IF p <= 35 THEN 3 ELSE 4
      [] t = T1 -> IF p <= 10 THEN 0 ELSE IF p <= 14 THEN 1 ELSE IF p <= 18 THEN 2
                   ELSE IF p <= 23 THEN 3 ELSE 4
      [] OTHER -> IF p <= 10 THEN 0 ELSE IF p <= 14 THEN 1 ELSE IF p <= 21 THEN 2
                  ELSE IF p <= 22 THEN 3 ELSE 4
StageAt(t, p) == FirstStage(t) + 3 * Rounds(t, p)

HandingOver(t) == mode[t] # "run" /\ ip[t] \in IncrWaits(t)
InMutex(t) == ip[t] > LockAt(t) /\ ip[t] <= IncrAt(t) + 1 /\ mode[t] # "wait"
Working(t) == mode[t] = "run" /\ ip[t] <= IncrAt(t) /\ (t # Main => ip[t] >= 3)

KeyTypes ==
    /\ ip \in [Threads -> 0..45]
    /\ m \in Threads \cup {Nobody}
    /\ cv \in SUBSET Threads
    /\ test_stage \in 0..15
    /\ stage \in [Threads -> Int]
    /\ mode \in [Threads -> {"run", "test", "wait"}]

\* In the test a thread works in its own stage only, in which it has the mutex;
\* the other two wait for the two stages behind it, or have ended.
Turn(t) ==
    /\ m = t <=> InMutex(t)
    /\ mode[t] # "run" => ip[t] \in IncrWaits(t) \/ (t # Main /\ ip[t] = 2)
    /\ stage[t] = StageAt(t, ip[t]) + (IF HandingOver(t) THEN 3 ELSE 0)
    /\ Working(t) => test_stage = stage[t]
    /\ ip[t] <= IncrAt(t) => stage[t] \in test_stage..test_stage + 2
    /\ ip[t] > IncrAt(t) => test_stage > stage[t]

TestTurns ==
    /\ ip[Main] \in 1..45 /\ ip[T1] \in 0..30 /\ ip[T2] \in 0..29
    /\ ip[T1] = 0 <=> ip[Main] <= 18
    /\ ip[T2] = 0 <=> ip[Main] <= 18
    /\ \A t \in Threads : Turn(t)

\* In the sample nobody waits for anybody.
SampleTurns ==
    /\ ip[Main] \in 1..7 /\ ip[T1] \in 0..4 /\ ip[T2] \in 0..4
    /\ \A t \in Threads : mode[t] = "run" /\ stage[t] = FirstStage(t)
    /\ m = Nobody /\ cv = {} /\ test_stage = 0

TurnInv ==
    /\ sample \in BOOLEAN /\ KeyTypes
    /\ IF sample THEN SampleTurns ELSE TestTurns

-----------------------------------------------------------------------------
(* KeyStages: the keys                                                      *)

\* The ids of the keys, two at most: the least one, and the one behind it,
\* which is known once main has created its second key.
Other == id["key2"]
IsOther(b) == b \in KeyIds \ {0} /\ \A j \in KeyIds \ {0} : b <= j

\* What stands for a key, and what each thread has under it.
TestZero ==
    \/ ip[Main] \in 2..5
    \/ ip[Main] >= 9 /\ ip[T1] <= 15
    \/ ip[T2] >= 18 /\ ip[Main] <= 40
TestOther ==
    \/ ip[Main] \in 13..22
    \/ ip[Main] \in 32..33
    \/ ip[T1] >= 20 /\ ip[Main] <= 38

TestUnderZero(t) ==
    CASE t = Main ->
            IF ip[Main] \in 4..8 \/ (ip[Main] >= 11 /\ ip[T2] <= 17) THEN "tagM" ELSE Null
      [] t = T1 -> IF ip[T1] >= 5 /\ ip[T2] <= 17 THEN "tagP" ELSE Null
      [] OTHER -> IF ip[T2] \in 5..17 \/ ip[T2] >= 20 THEN "tagK" ELSE Null

TestUnderOther(t) ==
    CASE t = Main -> IF ip[Main] \in 15..31 THEN "tagM2" ELSE Null
      [] t = T1 -> IF ip[T1] >= 8 /\ ip[Main] <= 31 THEN "tagP2"
                   ELSE IF ip[T1] >= 22 THEN "tagP" ELSE Null
      [] OTHER -> IF ip[T2] >= 8 /\ ip[Main] <= 31 THEN "tagK2" ELSE Null

TestKeys ==
    /\ ip[Main] <= 12 => id["key2"] = 0
    /\ ip[Main] >= 13 => IsOther(Other)
    /\ id["key"] = IF ip[Main] >= 32 THEN Other ELSE 0
    /\ id["key3"] = IF ip[T1] >= 20 THEN Other ELSE 0
    /\ id["key4"] = 0
    /\ allocated = (IF TestZero THEN {0} ELSE {}) \cup (IF TestOther THEN {Other} ELSE {})
    /\ \A t \in Threads :
          /\ specific[t][0] = TestUnderZero(t)
          /\ ip[Main] >= 13 => specific[t][Other] = TestUnderOther(t)

SampleKeys ==
    /\ \A key \in Keys : id[key] = 0
    /\ allocated = IF ip[Main] = 1 THEN {} ELSE {0}
    /\ ip[Main] <= 5 => ip[T1] = 0 /\ ip[T2] = 0
    /\ specific[Main][0] = IF ip[Main] >= 4 THEN "tagM" ELSE Null
    /\ specific[T1][0] = IF ip[T1] >= 3 THEN "tagP" ELSE Null
    /\ specific[T2][0] = IF ip[T2] >= 3 THEN "tagK" ELSE Null

\* The types of the ids and of the values.
TableTypes ==
    /\ id \in [Keys -> KeyIds]
    /\ specific \in [Threads -> [KeyIds -> Values \cup {Null}]]

KeyInv == TableTypes /\ IF sample THEN SampleKeys ELSE TestKeys

-----------------------------------------------------------------------------
(* Proofs: OnceRace                                                         *)

LEMMA Numbers ==
    /\ N \in Nat /\ N > 0 /\ Racers = 0..N - 1 /\ Starter = N
    /\ Starter \notin Racers
    /\ Nobody \notin Everyone
    /\ SpuriousWaiters \subseteq Everyone
BY ImageAssumption
DEF Once!OnceAssumption, N, Once!MY_THREAD_COUNT, Once!MY_MIN, Racers, Starter, Everyone,
    Once!Threads, Once!Main

USE DEF N, Starter, Racers

LEMMA InitRace == Once!Init => RaceInv
<1> SUFFICES ASSUME Once!Init PROVE RaceInv
    OBVIOUS
<1> USE Numbers DEF Once!Init
<1>1. /\ once_pc = [t \in Everyone |-> IF t = Starter THEN "once" ELSE "not_created"]
      /\ once_id = [t \in Racers |-> Starter]
      /\ cv_run = [t \in Racers |-> {}]
    BY DEF Everyone
<1>2. RaceTypes
    BY <1>1 DEF RaceTypes, PlaceTypes, Everyone, Solo, OnItsWay
<1>3. Loops
    BY <1>1 DEF Loops, Everyone, Solo, SettingUp, Starting
<1>4. OneCall
    BY <1>1 DEF OneCall, Everyone, Solo, Current, InFunction
<1>5. Once!InitRanOnce
    BY <1>1 DEF Once!InitRanOnce, Everyone
<1> QED BY <1>2, <1>3, <1>4, <1>5 DEF RaceInv

\* Who uses which control.
LEMMA Controls ==
    /\ Once!Used(Starter) = "once_control"
    /\ \A t \in Racers : Once!Used(t) = "once_control2"
    /\ Current \in {"once_control", "once_control2"}
BY Numbers DEF Once!Used, Current

\* All that call pthread_once at a time use the same.
LEMMA OneControl ==
    ASSUME RaceInv, NEW t \in Everyone, once_pc[t] \in Racing
    PROVE  Once!Used(t) = Current
<1>1. CASE t = Starter
  <2>1. once_pc[Starter] \in Solo
      BY <1>1 DEF RaceInv, RaceTypes, PlaceTypes, Racing, Solo, SettingUp, Starting, Launching
  <2> QED BY <1>1, <2>1, Controls DEF Current
<1>2. CASE t \in Racers
  <2>1. once_pc[Starter] \notin Solo
      BY <1>2 DEF RaceInv, Loops, Racing
  <2> QED BY <1>2, <2>1, Controls DEF Current
<1> QED BY <1>1, <1>2 DEF Everyone

\* A step of one thread, as a function of the others.
LEMMA Moves ==
    ASSUME RaceTypes, NEW t \in Everyone, NEW from, NEW to, Once!Go(t, from, to)
    PROVE  /\ once_pc[t] = from
           /\ \A u \in Everyone : once_pc'[u] = IF u = t THEN to ELSE once_pc[u]
BY DEF RaceTypes, PlaceTypes, Once!Go

LEMMA PlacesMove ==
    ASSUME RaceTypes, NEW t \in Everyone, NEW from, NEW to, Once!Go(t, from, to),
           t = Starter => to \in Solo \cup SettingUp \cup Starting \cup Launching,
           t \in Racers => to \in OnItsWay \cup Started
    PROVE  PlaceTypes'
BY Numbers DEF RaceTypes, PlaceTypes, Once!Go, Everyone

LEMMA CallRace ==
    ASSUME RaceInv, NEW t \in Everyone, Once!Once(t) PROVE RaceInv'
<1> DEFINE c == Once!Used(t)
           to == IF control[c] = "init" THEN "init_func" ELSE "check"
<1>1. /\ RaceTypes /\ Loops /\ OneCall /\ Once!InitRanOnce
      /\ Once!Go(t, "once", to)
      /\ control' = [control EXCEPT ![c] = IF @ = "init" THEN "running" ELSE @]
      /\ control[c] # "running"
      /\ UNCHANGED <<m_tstart, cv_tstart, cv_run, i, once_id, once_value>>
    BY DEF RaceInv, Once!Once, Once!Call, Once!start
<1>2. /\ once_pc[t] = "once"
      /\ \A u \in Everyone : once_pc'[u] = IF u = t THEN to ELSE once_pc[u]
    BY <1>1, Moves
<1>3. RaceTypes'
    BY <1>1, PlacesMove, Controls DEF RaceTypes, Solo, Started, Racing
<1>4. c = Current
    BY <1>2, OneControl DEF Racing
<1>5. Current' = Current /\ c \in DOMAIN control
    BY <1>1, <1>2, Numbers, Controls DEF Current, Solo, Everyone, RaceTypes
<1>6. Loops'
    BY <1>1, <1>2, Numbers, Controls DEF Loops, Everyone, Solo, SettingUp, Starting
<1>7. \A u \in Everyone : once_pc[u] \in Racing => Once!Used(u) = c
    BY <1>4, OneControl
<1>8. CASE control[c] = "init"
  <2>1. control'[c] = "running" /\ to = "init_func" /\ once_value = 0
      BY <1>1, <1>4, <1>5, <1>8 DEF OneCall
  <2>2. \A u \in Everyone : once_pc[u] \notin {"init_func", "once_done", "check", "end"}
      BY <1>1, <1>7, <1>8 DEF OneCall, Racing, Once!InitRanOnce, Everyone
  <2>3. OneCall'
      BY <1>1, <1>2, <1>4, <1>5, <2>1, <2>2 DEF OneCall, InFunction
  <2>4. Once!InitRanOnce'
      BY <1>2, <2>1, <2>2 DEF Once!InitRanOnce, Everyone
  <2> QED BY <1>3, <1>6, <2>3, <2>4 DEF RaceInv
<1>9. CASE control[c] = "done"
  <2>1. control' = control /\ to = "check" /\ once_value = 1
      BY <1>1, <1>4, <1>5, <1>9 DEF OneCall, RaceTypes
  <2>2. OneCall'
      BY <1>1, <1>2, <1>5, <2>1 DEF OneCall, InFunction
  <2>3. Once!InitRanOnce'
      BY <1>1, <1>2, <1>9, <2>1 DEF Once!InitRanOnce, Everyone
  <2> QED BY <1>3, <1>6, <2>2, <2>3 DEF RaceInv
<1> QED BY <1>1, <1>5, <1>8, <1>9 DEF RaceTypes

\* Between the calls nothing of pthread_once changes.
LEMMA OutsideOnce ==
    ASSUME RaceInv, RaceTypes', NEW t \in Everyone, NEW from, NEW to, Once!Go(t, from, to),
           to \notin {"init_func", "once_done", "check", "end"},
           \/ Current' = Current
           \/ Current' = "once_control2" /\ once_value = 0 /\ control["once_control2"] = "init",
           UNCHANGED <<control, once_value>>
    PROVE  OneCall' /\ Once!InitRanOnce'
<1>1. \A u \in Everyone : once_pc'[u] = IF u = t THEN to ELSE once_pc[u]
    BY Moves DEF RaceInv
<1>2. OneCall'
    BY <1>1, Controls DEF RaceInv, OneCall, InFunction, Current
<1>3. Once!InitRanOnce'
    BY <1>1 DEF RaceInv, Once!InitRanOnce, Everyone
<1> QED BY <1>2, <1>3

LEMMA InitFuncRace ==
    ASSUME RaceInv, NEW t \in Everyone, Once!InitFunc(t) PROVE RaceInv'
<1>1. /\ RaceTypes /\ Loops /\ OneCall /\ Once!InitRanOnce
      /\ Once!Go(t, "init_func", "once_done")
      /\ once_value' = once_value + 1
      /\ UNCHANGED <<m_tstart, cv_tstart, cv_run, i, once_id, control>>
    BY DEF RaceInv, Once!InitFunc, Once!start
<1>2. /\ once_pc[t] = "init_func"
      /\ \A u \in Everyone : once_pc'[u] = IF u = t THEN "once_done" ELSE once_pc[u]
    BY <1>1, Moves
<1>3. Once!Used(t) = Current /\ control[Current] = "running" /\ once_value' = 1
    BY <1>1, <1>2, OneControl DEF Racing, OneCall
<1>4. RaceTypes'
    BY <1>1, <1>3, PlacesMove DEF RaceTypes, Solo, Started, Racing
<1>5. Loops' /\ Current' = Current
    BY <1>1, <1>2, Numbers DEF Loops, Everyone, Solo, SettingUp, Starting, Current
<1>6. \A u \in Everyone : u # t => once_pc[u] \notin {"init_func", "once_done", "check", "end"}
    BY <1>1, <1>2, <1>3, OneControl
    DEF OneCall, InFunction, Racing, Once!InitRanOnce, Everyone
<1>7. OneCall'
    BY <1>1, <1>2, <1>3, <1>5, <1>6 DEF OneCall, InFunction
<1>8. Once!InitRanOnce'
    BY <1>2, <1>6 DEF Once!InitRanOnce, Everyone
<1> QED BY <1>4, <1>5, <1>7, <1>8 DEF RaceInv

LEMMA OnceDoneRace ==
    ASSUME RaceInv, NEW t \in Everyone, Once!OnceDone(t) PROVE RaceInv'
<1> DEFINE c == Once!Used(t)
<1>1. /\ RaceTypes /\ Loops /\ OneCall /\ Once!InitRanOnce
      /\ Once!Go(t, "once_done", "check")
      /\ control' = [control EXCEPT ![c] = "done"]
      /\ UNCHANGED <<m_tstart, cv_tstart, cv_run, i, once_id, once_value>>
    BY DEF RaceInv, Once!OnceDone, Once!start
<1>2. /\ once_pc[t] = "once_done"
      /\ \A u \in Everyone : once_pc'[u] = IF u = t THEN "check" ELSE once_pc[u]
    BY <1>1, Moves
<1>3. c = Current /\ c \in DOMAIN control /\ control'[c] = "done" /\ once_value = 1
    BY <1>1, <1>2, OneControl, Controls DEF Racing, OneCall, RaceTypes
<1>4. RaceTypes'
    BY <1>1, <1>3, PlacesMove DEF RaceTypes, Solo, Started, Racing
<1>5. Loops' /\ Current' = Current
    BY <1>1, <1>2, Numbers, Controls
    DEF Loops, Everyone, Solo, SettingUp, Starting, Current
<1>6. \A u \in Everyone : u # t => once_pc[u] \notin InFunction
    BY <1>1, <1>2 DEF OneCall, InFunction
<1>7. \A u \in Everyone : once_pc'[u] \in Racing => Once!Used(u) = c
    BY <1>2, <1>3, OneControl
<1>8. OneCall'
    BY <1>2, <1>3, <1>5, <1>6, <1>1 DEF OneCall, InFunction
<1>9. Once!InitRanOnce'
    BY <1>1, <1>3, <1>7 DEF Once!InitRanOnce, Racing, Everyone
<1> QED BY <1>4, <1>5, <1>8, <1>9 DEF RaceInv

LEMMA ReadArgRace == ASSUME RaceInv, NEW t \in Racers, Once!ReadArg(t) PROVE RaceInv'
<1>1. RaceTypes'
    BY Numbers, PlacesMove
    DEF RaceInv, RaceTypes, Once!ReadArg, Once!once, Everyone, OnItsWay, Started, Racing, Starting,
        SettingUp, Launching
<1>2. Loops' /\ Current' = Current
    BY Numbers DEF RaceInv, RaceTypes, Loops, Current, Once!ReadArg, Once!Go, Once!once, Everyone,
        Solo, SettingUp, Starting
<1>3. OneCall' /\ Once!InitRanOnce'
    BY <1>1, <1>2, OutsideOnce DEF Once!ReadArg, Once!once, Everyone
<1> QED BY <1>1, <1>2, <1>3 DEF RaceInv

LEMMA LockRace == ASSUME RaceInv, NEW t \in Everyone, Once!Lock(t) PROVE RaceInv'
<1>1. RaceTypes'
    BY Numbers, PlacesMove
    DEF RaceInv, RaceTypes, Once!Lock, Once!once, Everyone, OnItsWay, Started, Racing, Starting,
        SettingUp, Launching, Once!MutexLock
<1>2. Loops' /\ Current' = Current
    BY Numbers DEF RaceInv, RaceTypes, Loops, Current, Once!Lock, Once!Go, Once!once, Everyone,
        Solo, SettingUp, Starting, Once!MutexLock
<1>3. OneCall' /\ Once!InitRanOnce'
    BY <1>1, <1>2, OutsideOnce DEF Once!Lock, Once!once, Everyone, Once!MutexLock
<1> QED BY <1>1, <1>2, <1>3 DEF RaceInv

LEMMA SignalStartRace == ASSUME RaceInv, NEW t \in Racers, Once!SignalStart(t) PROVE RaceInv'
<1>1. RaceTypes'
    BY Numbers, PlacesMove
    DEF RaceInv, RaceTypes, Once!SignalStart, Once!once, Everyone, OnItsWay, Started, Racing, Starting,
        SettingUp, Launching, Once!CondSignal
<1>2. Loops' /\ Current' = Current
    BY Numbers DEF RaceInv, RaceTypes, Loops, Current, Once!SignalStart, Once!Go, Once!once, Everyone,
        Solo, SettingUp, Starting, Once!CondSignal
<1>3. OneCall' /\ Once!InitRanOnce'
    BY <1>1, <1>2, OutsideOnce DEF Once!SignalStart, Once!once, Everyone, Once!CondSignal
<1> QED BY <1>1, <1>2, <1>3 DEF RaceInv

LEMMA WaitForLaunchRace == ASSUME RaceInv, NEW t \in Racers, Once!WaitForLaunch(t) PROVE RaceInv'
<1>0. cv_run' \in [Racers -> SUBSET Racers]
    BY DEF RaceInv, RaceTypes, Once!WaitForLaunch
<1>1. RaceTypes'
    BY <1>0, Numbers, PlacesMove
    DEF RaceInv, RaceTypes, Once!WaitForLaunch, Once!once, Everyone, OnItsWay, Started, Racing, Starting,
        SettingUp, Launching, Once!MutexUnlock
<1>2. Loops' /\ Current' = Current
    BY Numbers DEF RaceInv, RaceTypes, Loops, Current, Once!WaitForLaunch, Once!Go, Once!once, Everyone,
        Solo, SettingUp, Starting, Once!MutexUnlock
<1>3. OneCall' /\ Once!InitRanOnce'
    BY <1>1, <1>2, OutsideOnce DEF Once!WaitForLaunch, Once!once, Everyone, Once!MutexUnlock
<1> QED BY <1>1, <1>2, <1>3 DEF RaceInv

LEMMA LaunchedRace == ASSUME RaceInv, NEW t \in Racers, Once!Launched(t) PROVE RaceInv'
<1>1. RaceTypes'
    BY Numbers, PlacesMove
    DEF RaceInv, RaceTypes, Once!Launched, Once!once, Everyone, OnItsWay, Started, Racing, Starting,
        SettingUp, Launching, Once!CondResume, Once!MutexLock
<1>2. Loops' /\ Current' = Current
    BY Numbers DEF RaceInv, RaceTypes, Loops, Current, Once!Launched, Once!Go, Once!once, Everyone,
        Solo, SettingUp, Starting, Once!CondResume, Once!MutexLock
<1>3. OneCall' /\ Once!InitRanOnce'
    BY <1>1, <1>2, OutsideOnce DEF Once!Launched, Once!once, Everyone, Once!CondResume, Once!MutexLock
<1> QED BY <1>1, <1>2, <1>3 DEF RaceInv

LEMMA UnlockRace == ASSUME RaceInv, NEW t \in Everyone, Once!Unlock(t) PROVE RaceInv'
<1>1. RaceTypes'
    BY Numbers, PlacesMove
    DEF RaceInv, RaceTypes, Once!Unlock, Once!once, Everyone, OnItsWay, Started, Racing, Starting,
        SettingUp, Launching, Once!MutexUnlock
<1>2. Loops' /\ Current' = Current
    BY Numbers DEF RaceInv, RaceTypes, Loops, Current, Once!Unlock, Once!Go, Once!once, Everyone,
        Solo, SettingUp, Starting, Once!MutexUnlock
<1>3. OneCall' /\ Once!InitRanOnce'
    BY <1>1, <1>2, OutsideOnce DEF Once!Unlock, Once!once, Everyone, Once!MutexUnlock
<1> QED BY <1>1, <1>2, <1>3 DEF RaceInv

LEMMA InitCondsRace == ASSUME RaceInv, Once!InitConds PROVE RaceInv'
<1>1. RaceTypes'
    BY Numbers, PlacesMove
    DEF RaceInv, RaceTypes, Once!InitConds, Once!once, Everyone, OnItsWay, Started, Racing, Starting,
        SettingUp, Launching, Solo
<1>2. Loops'
    BY Numbers
    DEF RaceInv, RaceTypes, PlaceTypes, Loops, Once!InitConds, Once!Go, Once!once, Everyone,
        Solo, SettingUp, Starting
<1>3. OneCall' /\ Once!InitRanOnce'
    BY <1>1, OutsideOnce
    DEF Once!InitConds, Once!Go, Once!once, Everyone, RaceInv, Loops, OneCall, RaceTypes,
        PlaceTypes, Current, Solo, SettingUp
<1> QED BY <1>1, <1>2, <1>3 DEF RaceInv

LEMMA WaitForStartRace == ASSUME RaceInv, Once!WaitForStart PROVE RaceInv'
<1>1. RaceTypes'
    BY Numbers, PlacesMove
    DEF RaceInv, RaceTypes, Once!WaitForStart, Once!once, Everyone, OnItsWay, Started, Racing, Starting,
        SettingUp, Launching, Solo, Once!CondSleep, Once!MutexUnlock
<1>2. Loops'
    BY Numbers
    DEF RaceInv, RaceTypes, PlaceTypes, Loops, Once!WaitForStart, Once!Go, Once!once, Everyone,
        Solo, SettingUp, Starting, Once!CondSleep, Once!MutexUnlock
<1>3. OneCall' /\ Once!InitRanOnce'
    BY <1>1, OutsideOnce
    DEF Once!WaitForStart, Once!Go, Once!once, Everyone, RaceInv, Loops, OneCall, RaceTypes,
        PlaceTypes, Current, Solo, SettingUp, Once!CondSleep, Once!MutexUnlock
<1> QED BY <1>1, <1>2, <1>3 DEF RaceInv

LEMMA StartedRace == ASSUME RaceInv, Once!Started PROVE RaceInv'
<1>1. RaceTypes'
    BY Numbers, PlacesMove
    DEF RaceInv, RaceTypes, Once!Started, Once!once, Everyone, OnItsWay, Started, Racing, Starting,
        SettingUp, Launching, Solo, Once!CondResume, Once!MutexLock
<1>2. Loops'
    BY Numbers
    DEF RaceInv, RaceTypes, PlaceTypes, Loops, Once!Started, Once!Go, Once!once, Everyone,
        Solo, SettingUp, Starting, Once!CondResume, Once!MutexLock
<1>3. OneCall' /\ Once!InitRanOnce'
    BY <1>1, OutsideOnce
    DEF Once!Started, Once!Go, Once!once, Everyone, RaceInv, Loops, OneCall, RaceTypes,
        PlaceTypes, Current, Solo, SettingUp, Once!CondResume, Once!MutexLock
<1> QED BY <1>1, <1>2, <1>3 DEF RaceInv

LEMMA LaunchRace == ASSUME RaceInv, Once!Launch PROVE RaceInv'
<1>0. cv_run' \in [Racers -> SUBSET Racers] /\ i' \in 0..N
    BY Numbers DEF RaceInv, RaceTypes, Loops, Once!Launch, Once!Go
<1>1. RaceTypes'
    BY <1>0, Numbers, PlacesMove
    DEF RaceInv, RaceTypes, Once!Launch, Once!once, Everyone, OnItsWay, Started, Racing, Starting,
        SettingUp, Launching, Solo
<1>2. Loops'
    BY Numbers
    DEF RaceInv, RaceTypes, PlaceTypes, Loops, Once!Launch, Once!Go, Once!once, Everyone,
        Solo, SettingUp, Starting
<1>3. OneCall' /\ Once!InitRanOnce'
    BY <1>1, OutsideOnce
    DEF Once!Launch, Once!Go, Once!once, Everyone, RaceInv, Loops, OneCall, RaceTypes,
        PlaceTypes, Current, Solo, SettingUp
<1> QED BY <1>1, <1>2, <1>3 DEF RaceInv

LEMMA JoinRace == ASSUME RaceInv, Once!Join PROVE RaceInv'
<1>1. RaceTypes'
    BY Numbers, PlacesMove
    DEF RaceInv, RaceTypes, Once!Join, Once!once, Everyone, OnItsWay, Started, Racing, Starting,
        SettingUp, Launching, Solo, Once!start
<1>2. Loops'
    BY Numbers
    DEF RaceInv, RaceTypes, PlaceTypes, Loops, Once!Join, Once!Go, Once!once, Everyone,
        Solo, SettingUp, Starting, Once!start
<1>3. OneCall' /\ Once!InitRanOnce'
    BY <1>1, OutsideOnce
    DEF Once!Join, Once!Go, Once!once, Everyone, RaceInv, Loops, OneCall, RaceTypes,
        PlaceTypes, Current, Solo, SettingUp, Once!start
<1> QED BY <1>1, <1>2, <1>3 DEF RaceInv

LEMMA EndThreadRace == ASSUME RaceInv, NEW t \in Racers, Once!EndThread(t) PROVE RaceInv'
<1>1. /\ RaceTypes /\ Loops /\ OneCall /\ Once!InitRanOnce
      /\ Once!Go(t, "check", "end")
      /\ UNCHANGED <<m_tstart, cv_tstart, cv_run, i, once_id, control, once_value>>
    BY DEF RaceInv, Once!EndThread, Once!start, Once!once
<1>2. /\ once_pc[t] = "check"
      /\ \A u \in Everyone : once_pc'[u] = IF u = t THEN "end" ELSE once_pc[u]
    BY <1>1, Moves DEF Everyone
<1>3. RaceTypes'
    BY <1>1, PlacesMove, Numbers DEF RaceTypes, Started, Racing, Everyone
<1>4. Loops' /\ Current' = Current
    BY <1>1, <1>2, Numbers DEF Loops, Everyone, Solo, SettingUp, Starting, Current
<1>5. OneCall'
    BY <1>1, <1>2, <1>4 DEF OneCall, InFunction
<1>6. Once!InitRanOnce'
    BY <1>1, <1>2 DEF Once!InitRanOnce, Everyone
<1> QED BY <1>3, <1>4, <1>5, <1>6 DEF RaceInv

LEMMA CheckOnceRace == ASSUME RaceInv, Once!CheckOnce PROVE RaceInv'
<1> DEFINE to == IF i = 0 THEN "once" ELSE "bad_value"
<1>1. /\ RaceTypes /\ Loops /\ OneCall /\ Once!InitRanOnce
      /\ Once!Go(Starter, "check", to)
      /\ i' = 1 - i
      /\ UNCHANGED <<m_tstart, cv_tstart, cv_run, once_id, control, once_value>>
    BY DEF RaceInv, Once!CheckOnce, Once!once
<1>2. /\ once_pc[Starter] = "check"
      /\ \A u \in Everyone : once_pc'[u] = IF u = Starter THEN to ELSE once_pc[u]
    BY <1>1, Moves DEF Everyone
<1>3. i \in {0, 1}
    BY <1>1, <1>2 DEF Loops, Solo
<1>4. RaceTypes'
    BY <1>1, <1>3, PlacesMove, Numbers DEF RaceTypes, Solo, Everyone
<1>5. Loops' /\ Current' = Current
    BY <1>1, <1>2, <1>3, Numbers DEF Loops, Everyone, Solo, SettingUp, Starting, Current
<1>6. OneCall' /\ Once!InitRanOnce'
    BY <1>1, <1>4, <1>5, OutsideOnce DEF Everyone, RaceInv
<1> QED BY <1>4, <1>5, <1>6 DEF RaceInv

LEMMA BadValueRace == ASSUME RaceInv, Once!BadValue PROVE RaceInv'
<1>1. /\ RaceTypes /\ Loops /\ OneCall /\ Once!InitRanOnce
      /\ Once!Go(Starter, "bad_value", "init_conds")
      /\ once_value' = 0
      /\ UNCHANGED <<m_tstart, cv_tstart, cv_run, i, once_id, control>>
    BY DEF RaceInv, Once!BadValue, Once!start
<1>2. /\ once_pc[Starter] = "bad_value"
      /\ \A u \in Everyone : once_pc'[u] = IF u = Starter THEN "init_conds" ELSE once_pc[u]
    BY <1>1, Moves DEF Everyone
<1>3. RaceTypes'
    BY <1>1, PlacesMove, Numbers DEF RaceTypes, SettingUp, Everyone
<1>4. Loops' /\ Current' = "once_control2" /\ control["once_control2"] = "init"
    BY <1>1, <1>2, Numbers DEF Loops, Everyone, Solo, SettingUp, Starting, Current
<1>5. \A u \in Everyone : once_pc'[u] \in {"not_created", "init_conds"}
    BY <1>1, <1>2 DEF Loops, Everyone, Solo
<1>6. OneCall' /\ Once!InitRanOnce'
    BY <1>1, <1>4, <1>5 DEF OneCall, Once!InitRanOnce, InFunction, Everyone
<1> QED BY <1>3, <1>4, <1>6 DEF RaceInv

LEMMA CreateRace == ASSUME RaceInv, Once!Create PROVE RaceInv'
<1>1. /\ RaceTypes /\ Loops /\ OneCall /\ Once!InitRanOnce
      /\ once_pc[Starter] = "create"
      /\ once_pc' = [once_pc EXCEPT ![Starter] = "wait", ![i] = "created"]
      /\ UNCHANGED <<m_tstart, cv_tstart, cv_run, i, once_id, control, once_value>>
    BY DEF RaceInv, Once!Create, Once!start, Once!once
<1>2. i \in Racers
    BY <1>1, Numbers DEF RaceTypes, Loops, Starting
<1>3. \A u \in Everyone :
         once_pc'[u] = IF u = i THEN "created" ELSE IF u = Starter THEN "wait" ELSE once_pc[u]
    BY <1>1, <1>2, Numbers DEF RaceTypes, PlaceTypes, Everyone
<1>4. RaceTypes'
  <2>1. PlaceTypes'
      BY <1>1, <1>2, <1>3, Numbers
      DEF RaceTypes, PlaceTypes, Everyone, OnItsWay, Starting
  <2> QED BY <1>1, <2>1 DEF RaceTypes
<1>5. once_pc'[Starter] = "wait" /\ i < N
    BY <1>2, <1>3, Numbers DEF Everyone
<1>6. Loops' /\ Current' = Current
    BY <1>1, <1>5, Numbers DEF Loops, Everyone, Solo, SettingUp, Starting, Current
<1>7. OneCall'
  <2>1. \A u \in Everyone : once_pc'[u] \in InFunction => once_pc'[u] = once_pc[u]
      BY <1>3 DEF InFunction
  <2> QED BY <1>1, <1>6, <2>1 DEF OneCall, InFunction
<1>8. Once!InitRanOnce'
    BY <1>1, <1>3 DEF Once!InitRanOnce, Everyone
<1> QED BY <1>4, <1>6, <1>7, <1>8 DEF RaceInv

LEMMA StayRace ==
    ASSUME RaceInv,
           UNCHANGED <<m_tstart, i, once_id, control, once_value, once_pc>>,
           cv_tstart' \in SUBSET {Starter}, cv_run' \in [Racers -> SUBSET Racers]
    PROVE  RaceInv'
BY DEF RaceInv, RaceTypes, PlaceTypes, Loops, OneCall, Current, Once!InitRanOnce

\* Every step of the suite preserves its invariant.
LEMMA NextRace == ASSUME RaceInv, [Once!Next]_onceVars PROVE RaceInv'
<1>1. ASSUME NEW t \in Racers, Once!AThread(t) PROVE RaceInv'
  <2>1. t \in Everyone
      BY DEF Everyone
  <2> QED
      BY <1>1, <2>1, ReadArgRace, LockRace, SignalStartRace, WaitForLaunchRace, LaunchedRace,
         UnlockRace, CallRace, InitFuncRace, OnceDoneRace, EndThreadRace
      DEF Once!AThread
<1>2. CASE Once!MainThread
  <2>1. Starter \in Everyone
      BY DEF Everyone
  <2> QED
      BY <1>2, <2>1, CallRace, InitFuncRace, OnceDoneRace, CheckOnceRace, BadValueRace,
         InitCondsRace, LockRace, CreateRace, WaitForStartRace, StartedRace, LaunchRace,
         UnlockRace, JoinRace
      DEF Once!MainThread
<1>3. ASSUME NEW t \in SpuriousWaiters, Once!Wakeup(t) PROVE RaceInv'
    BY <1>3, StayRace DEF Once!Wakeup, Once!once, RaceInv, RaceTypes
<1>4. CASE UNCHANGED onceVars
    BY <1>4, StayRace DEF onceVars, RaceInv, RaceTypes
<1> QED BY <1>1, <1>2, <1>3, <1>4 DEF Once!Next
-----------------------------------------------------------------------------
\* The start of the threads: as long as main's own wait returns only when it is
\* signalled.

LEMMA InitStart == Once!Init => StartInv
<1> SUFFICES ASSUME Once!Init PROVE StartInv
    OBVIOUS
<1>1. /\ once_pc = [t \in Everyone |-> IF t = Starter THEN "once" ELSE "not_created"]
      /\ cv_run = [t \in Racers |-> {}] /\ cv_tstart = {} /\ m_tstart = Nobody
    BY DEF Once!Init, Everyone
<1>2. Owned
    BY <1>1, Numbers DEF Owned, Holding
<1>3. Asleep
    BY <1>1 DEF Asleep
<1>4. OneByOne /\ Once!ArgLifecycle
    BY <1>1, Numbers DEF OneByOne, Starting, Launching, Once!ArgLifecycle, Everyone
<1> QED BY <1>2, <1>3, <1>4 DEF StartInv

\* A step that has to do with none of it.
LEMMA ElsewhereStart ==
    ASSUME RaceInv, StartInv, NEW t \in Everyone, NEW from, NEW to, Once!Go(t, from, to),
           from \notin Holding, to \notin Holding, from # "waiting",
           t \in Racers => from \in Started /\ to \in Started,
           t = Starter => to \notin Starting \cup Launching,
           UNCHANGED <<m_tstart, cv_tstart, cv_run, i, once_id>>
    PROVE  StartInv'
<1>1. /\ once_pc[t] = from
      /\ \A u \in Everyone : once_pc'[u] = IF u = t THEN to ELSE once_pc[u]
      /\ t = Starter \/ once_pc'[Starter] = once_pc[Starter]
    BY Moves DEF RaceInv, Everyone
<1>2. Owned'
    BY <1>1 DEF StartInv, Owned
<1>3. Asleep'
    BY <1>1 DEF StartInv, Asleep, Everyone
<1>4. OneByOne'
    BY <1>1, Numbers
    DEF StartInv, OneByOne, Newest, Everyone, Started, Racing, Starting, Launching
<1>5. Once!ArgLifecycle'
    BY <1>1 DEF StartInv, Once!ArgLifecycle, Everyone, Started, Racing
<1> QED BY <1>2, <1>3, <1>4, <1>5 DEF StartInv

LEMMA OnceStart ==
    ASSUME RaceInv, StartInv, NEW t \in Everyone,
           Once!Once(t) \/ Once!InitFunc(t) \/ Once!OnceDone(t)
    PROVE  StartInv'
<1>1. \E from \in Racing, to \in {"init_func", "once_done", "check"} :
         Once!Go(t, from, to) /\ UNCHANGED <<m_tstart, cv_tstart, cv_run, i, once_id>>
    BY DEF Once!Once, Once!Call, Once!InitFunc, Once!OnceDone, Once!start, Racing
<1> QED BY <1>1, ElsewhereStart DEF Holding, Racing, Started, Starting, Launching

LEMMA EndThreadStart ==
    ASSUME RaceInv, StartInv, NEW t \in Racers, Once!EndThread(t) PROVE StartInv'
<1>1. /\ t \in Everyone
      /\ Once!Go(t, "check", "end")
      /\ UNCHANGED <<m_tstart, cv_tstart, cv_run, i, once_id>>
    BY DEF Once!EndThread, Once!start, Everyone
<1> QED BY <1>1, ElsewhereStart, Numbers DEF Holding, Racing, Started

\* Main's steps before it has a mutex: nobody else is there.
LEMMA SoloStart ==
    ASSUME RaceInv, RaceInv', StartInv, Once!CheckOnce \/ Once!BadValue \/ Once!InitConds
    PROVE  StartInv'
<1>1. /\ UNCHANGED <<m_tstart, cv_tstart, cv_run, once_id>>
      /\ \E from \in Solo \cup SettingUp, to \in Solo \cup SettingUp : Once!Go(Starter, from, to)
      /\ once_pc[Starter] \notin {"waiting"}
    BY DEF Once!CheckOnce, Once!BadValue, Once!InitConds, Once!start, Solo, SettingUp, Once!Go
<1>2. /\ once_pc[Starter] \in Solo \cup SettingUp
      /\ once_pc'[Starter] \in Solo \cup SettingUp
      /\ \A u \in Racers : once_pc'[u] = once_pc[u]
    BY <1>1, Moves, Numbers DEF Everyone, RaceInv
<1>3. Owned'
    BY <1>1, <1>2 DEF StartInv, Owned, Everyone, Solo, SettingUp, Holding
<1>4. Asleep'
    BY <1>1, <1>2 DEF StartInv, Asleep
<1>5. OneByOne' /\ Once!ArgLifecycle'
    BY <1>1, <1>2
    DEF StartInv, OneByOne, Once!ArgLifecycle, Solo, SettingUp, Starting, Launching
<1> QED BY <1>3, <1>4, <1>5 DEF StartInv
\* The steps of a new thread.
LEMMA ReadArgStart ==
    ASSUME RaceInv, StartInv, NEW t \in Racers, Once!ReadArg(t) PROVE StartInv'
<1>1. /\ once_pc[t] = "created"
      /\ \A u \in Everyone : once_pc'[u] = IF u = t THEN "lock" ELSE once_pc[u]
      /\ once_pc'[Starter] = once_pc[Starter]
    BY Moves, Numbers DEF Once!ReadArg, Everyone, RaceInv
<1>2. /\ once_id' = [once_id EXCEPT ![t] = i]
      /\ UNCHANGED <<m_tstart, cv_tstart, cv_run, i>>
    BY Numbers DEF Once!ReadArg, Once!once
<1>7. t = i
    BY <1>1, Numbers
    DEF RaceInv, RaceTypes, PlaceTypes, Loops, StartInv, OneByOne, Started, Racing, Starting, Launching
<1>3. Owned'
    BY <1>1, <1>2, Numbers DEF StartInv, Owned, Holding, Everyone
<1>4. Asleep'
    BY <1>1, <1>2, Numbers DEF StartInv, Asleep, Everyone
<1>5. OneByOne'
    BY <1>1, <1>2, Numbers, <1>7
    DEF StartInv, OneByOne, Newest, Everyone, Started, Racing, Starting, Launching
<1>6. Once!ArgLifecycle'
    BY <1>1, <1>2, <1>7 DEF RaceInv, RaceTypes, StartInv, Once!ArgLifecycle, Everyone
<1> QED BY <1>3, <1>4, <1>5, <1>6 DEF StartInv

LEMMA SignalStartStart ==
    ASSUME RaceInv, StartInv, NEW t \in Racers, Once!SignalStart(t) PROVE StartInv'
<1>1. /\ once_pc[t] = "signal"
      /\ \A u \in Everyone : once_pc'[u] = IF u = t THEN "wait" ELSE once_pc[u]
      /\ once_pc'[Starter] = once_pc[Starter]
    BY Moves, Numbers DEF Once!SignalStart, Everyone, RaceInv
<1>2. /\ Once!CondSignal(cv_tstart)
      /\ UNCHANGED <<m_tstart, cv_run, i, once_id>>
    BY Numbers DEF Once!SignalStart, Once!once
<1>7. Starter \notin cv_tstart'
    BY <1>2 DEF Once!CondSignal, RaceInv, RaceTypes
<1>8. cv_tstart' \in SUBSET {Starter}
    BY <1>2 DEF Once!CondSignal, RaceInv, RaceTypes
<1>3. Owned'
    BY <1>1, <1>2, Numbers DEF StartInv, Owned, Holding, Everyone
<1>4. Asleep'
    BY <1>1, <1>2, Numbers, <1>7 DEF StartInv, Asleep, Everyone
<1>5. OneByOne'
    BY <1>1, <1>2, Numbers, <1>7
    DEF StartInv, OneByOne, Newest, Everyone, Started, Racing, Starting, Launching
<1>6. Once!ArgLifecycle'
    BY <1>1, <1>2 DEF StartInv, Once!ArgLifecycle, Everyone
<1> QED BY <1>3, <1>4, <1>5, <1>6 DEF StartInv

LEMMA WaitForLaunchStart ==
    ASSUME RaceInv, StartInv, NEW t \in Racers, Once!WaitForLaunch(t) PROVE StartInv'
<1>1. /\ once_pc[t] = "wait"
      /\ \A u \in Everyone : once_pc'[u] = IF u = t THEN "waiting" ELSE once_pc[u]
      /\ once_pc'[Starter] = once_pc[Starter]
    BY Moves, Numbers DEF Once!WaitForLaunch, Everyone, RaceInv
<1>2. /\ cv_run' = [cv_run EXCEPT ![once_id[t]] = @ \cup {t}]
      /\ m_tstart = t /\ m_tstart' = Nobody
      /\ UNCHANGED <<cv_tstart, i, once_id>>
    BY Numbers DEF Once!WaitForLaunch, Once!once, Once!MutexUnlock
<1>7. once_id[t] = t
    BY <1>1 DEF StartInv, Once!ArgLifecycle
<1>8. \A k \in Racers : cv_run'[k] = IF k = t THEN cv_run[k] \cup {t} ELSE cv_run[k]
    BY <1>2, <1>7 DEF RaceInv, RaceTypes
<1>3. Owned'
    BY <1>1, <1>2, Numbers DEF StartInv, Owned, Holding, Everyone
<1>4. Asleep'
  <2>1. ASSUME NEW k \in Racers, NEW u \in Racers, u \in cv_run'[k]
        PROVE  k = u /\ once_pc'[u] = "waiting"
    <3>1. CASE u = t
      <4>1. k = t
        <5>1. t \notin cv_run[k] \/ k = t
            BY DEF StartInv, Asleep
        <5> QED BY <2>1, <3>1, <5>1, <1>8
      <4> QED BY <4>1, <3>1, <1>1 DEF Everyone
    <3>2. CASE u # t
      <4>1. u \in cv_run[k]
          BY <2>1, <3>2, <1>8
      <4> QED BY <4>1, <3>2, <1>1 DEF StartInv, Asleep, Everyone
    <3> QED BY <3>1, <3>2
  <2> QED BY <2>1, <1>1, <1>2 DEF StartInv, Asleep
<1>5. OneByOne'
    BY <1>1, <1>2, Numbers
    DEF StartInv, OneByOne, Newest, Everyone, Started, Racing, Starting, Launching
<1>6. Once!ArgLifecycle'
    BY <1>1, <1>2 DEF StartInv, Once!ArgLifecycle, Everyone
<1> QED BY <1>3, <1>4, <1>5, <1>6 DEF StartInv

LEMMA LaunchedStart ==
    ASSUME RaceInv, StartInv, NEW t \in Racers, Once!Launched(t) PROVE StartInv'
<1>1. /\ once_pc[t] = "waiting"
      /\ \A u \in Everyone : once_pc'[u] = IF u = t THEN "unlock" ELSE once_pc[u]
      /\ once_pc'[Starter] = once_pc[Starter]
    BY Moves, Numbers DEF Once!Launched, Everyone, RaceInv
<1>2. /\ t \notin cv_run[once_id[t]] /\ m_tstart = Nobody /\ m_tstart' = t
      /\ UNCHANGED <<cv_tstart, cv_run, i, once_id>>
    BY Numbers DEF Once!Launched, Once!once, Once!CondResume, Once!MutexLock
<1>7. once_id[t] = t
    BY <1>1 DEF StartInv, Once!ArgLifecycle
<1>3. Owned'
    BY <1>1, <1>2, Numbers DEF StartInv, Owned, Holding, Everyone
<1>4. Asleep'
    BY <1>1, <1>2, Numbers, <1>7 DEF StartInv, Asleep, Everyone
<1>5. OneByOne'
    BY <1>1, <1>2, Numbers
    DEF StartInv, OneByOne, Newest, Everyone, Started, Racing, Starting, Launching
<1>6. Once!ArgLifecycle'
    BY <1>1, <1>2 DEF StartInv, Once!ArgLifecycle, Everyone
<1> QED BY <1>3, <1>4, <1>5, <1>6 DEF StartInv
\* The steps of main, and those that both have.
LEMMA LockStart ==
    ASSUME RaceInv, RaceInv', StartInv, NEW t \in Everyone, Once!Lock(t) PROVE StartInv'
<1> DEFINE to == IF t = Starter THEN "create" ELSE "signal"
<1>1. /\ once_pc[t] = "lock"
      /\ \A u \in Everyone : once_pc'[u] = IF u = t THEN to ELSE once_pc[u]
    BY Moves DEF Once!Lock, RaceInv
<1>2. /\ m_tstart = Nobody /\ m_tstart' = t
      /\ UNCHANGED <<cv_tstart, cv_run, i, once_id>>
    BY DEF Once!Lock, Once!MutexLock
<1>3. Owned'
    BY <1>1, <1>2, Numbers DEF StartInv, Owned, Holding, Everyone
<1>4. Asleep'
    BY <1>1, <1>2, Numbers DEF StartInv, Asleep, Everyone
<1>5. CASE t = Starter
  <2>1. i = 0 /\ \A u \in Racers : once_pc[u] = "not_created" /\ once_pc'[u] = "not_created"
      BY <1>1, <1>5, Numbers DEF RaceInv, Loops, SettingUp, Everyone
  <2>2. once_pc'[Starter] = "create"
      BY <1>1, <1>5
  <2>3. OneByOne' /\ Once!ArgLifecycle'
      BY <1>2, <2>1, <2>2, Numbers
      DEF OneByOne, Once!ArgLifecycle, Newest, Starting, Launching
  <2> QED BY <1>3, <1>4, <2>3 DEF StartInv
<1>6. CASE t \in Racers
  <2>1. once_pc'[Starter] = once_pc[Starter]
      BY <1>1, <1>6, Numbers DEF Everyone
  <2>2. once_pc[Starter] # "wait"
      BY <1>2, Numbers DEF StartInv, Owned, Holding, Everyone
  <2>3. OneByOne'
      BY <1>1, <1>2, <1>6, <2>1, <2>2, Numbers
      DEF StartInv, OneByOne, Newest, Everyone, Started, Racing, Starting, Launching
  <2>4. Once!ArgLifecycle'
      BY <1>1, <1>2, <1>6 DEF StartInv, Once!ArgLifecycle, Everyone
  <2> QED BY <1>3, <1>4, <2>3, <2>4 DEF StartInv
<1> QED BY <1>5, <1>6 DEF Everyone

LEMMA UnlockStart ==
    ASSUME RaceInv, StartInv, NEW t \in Everyone, Once!Unlock(t) PROVE StartInv'
<1> DEFINE to == IF t = Starter THEN "join" ELSE "once"
<1>1. /\ once_pc[t] = "unlock"
      /\ \A u \in Everyone : once_pc'[u] = IF u = t THEN to ELSE once_pc[u]
      /\ once_pc'[Starter] = IF t = Starter THEN "join" ELSE once_pc[Starter]
    BY Moves DEF Once!Unlock, RaceInv, Everyone
<1>2. /\ m_tstart = t /\ m_tstart' = Nobody
      /\ UNCHANGED <<cv_tstart, cv_run, i, once_id>>
    BY DEF Once!Unlock, Once!MutexUnlock
<1>3. Owned'
    BY <1>1, <1>2, Numbers DEF StartInv, Owned, Holding, Everyone
<1>4. Asleep'
    BY <1>1, <1>2, Numbers DEF StartInv, Asleep, Everyone
<1>5. OneByOne'
    BY <1>1, <1>2, Numbers
    DEF StartInv, OneByOne, Newest, Everyone, Started, Racing, Starting, Launching
<1>6. Once!ArgLifecycle'
    BY <1>1, <1>2, Numbers DEF StartInv, Once!ArgLifecycle, Everyone
<1> QED BY <1>3, <1>4, <1>5, <1>6 DEF StartInv

LEMMA CreateStart ==
    ASSUME RaceInv, StartInv, Once!Create PROVE StartInv'
<1>1. /\ once_pc[Starter] = "create"
      /\ once_pc' = [once_pc EXCEPT ![Starter] = "wait", ![i] = "created"]
      /\ m_tstart = Starter
      /\ UNCHANGED <<m_tstart, cv_tstart, cv_run, i, once_id>>
    BY DEF Once!Create, Once!start
<1>2. i \in Racers /\ once_pc[i] = "not_created"
    BY <1>1, Numbers DEF RaceInv, RaceTypes, Loops, StartInv, OneByOne, Newest, Starting
<1>3. /\ \A u \in Racers : once_pc'[u] = IF u = i THEN "created" ELSE once_pc[u]
      /\ once_pc'[Starter] = "wait"
    BY <1>1, <1>2, Numbers DEF RaceInv, RaceTypes, PlaceTypes, Everyone
<1>4. Owned'
  <2>1. ASSUME NEW u \in Racers PROVE once_pc'[u] \notin Holding /\ u # Starter
    <3>1. u # Starter /\ u \in Everyone
        BY Numbers DEF Everyone
    <3>2. once_pc[u] \notin Holding
        BY <1>1, <3>1 DEF StartInv, Owned
    <3> QED BY <1>3, <3>1, <3>2 DEF Holding
  <2> QED BY <1>1, <1>3, <2>1 DEF Owned, Holding, Everyone
<1>5. Asleep'
    BY <1>1, <1>2, <1>3 DEF StartInv, Asleep
<1>6. OneByOne'
  <2>1. \A u \in Racers :
           (u < i => once_pc[u] \in Started) /\ (u > i => once_pc[u] = "not_created")
      BY <1>1 DEF StartInv, OneByOne, Starting
  <2>2. Newest' = {"created", "lock"}
      BY <1>3 DEF Newest
  <2>3. ASSUME NEW u \in Racers
        PROVE  /\ u < i => once_pc'[u] \in Started
               /\ u = i => once_pc'[u] \in Newest'
               /\ u > i => once_pc'[u] = "not_created"
    <3>1. u < i \/ u > i => u # i
        BY <1>2, Numbers
    <3> QED BY <1>3, <2>1, <2>2, <3>1
  <2> QED BY <1>1, <1>3, <2>3 DEF OneByOne, Launching
<1>7. Once!ArgLifecycle'
    BY <1>1, <1>3 DEF StartInv, Once!ArgLifecycle
<1> QED BY <1>4, <1>5, <1>6, <1>7 DEF StartInv

LEMMA WaitForStartStart ==
    ASSUME RaceInv, RaceInv', StartInv, Once!WaitForStart PROVE StartInv'
<1>1. /\ once_pc[Starter] = "wait" /\ once_pc'[Starter] = "waiting"
      /\ \A u \in Racers : once_pc'[u] = once_pc[u]
    BY Moves, Numbers DEF Once!WaitForStart, Everyone, RaceInv
<1>2. /\ cv_tstart' = cv_tstart \cup {Starter} /\ m_tstart = Starter /\ m_tstart' = Nobody
      /\ UNCHANGED <<cv_run, i, once_id>>
    BY Numbers DEF Once!WaitForStart, Once!once, Once!start, Once!CondSleep, Once!MutexUnlock
<1>3. Owned'
    BY <1>1, <1>2, Numbers DEF StartInv, Owned, Holding, Everyone
<1>4. Asleep'
    BY <1>1, <1>2, Numbers DEF StartInv, Asleep, Everyone
<1>5. OneByOne'
    BY <1>1, <1>2, Numbers
    DEF StartInv, OneByOne, Newest, Starting, Launching
<1>6. Once!ArgLifecycle'
    BY <1>1, <1>2 DEF StartInv, Once!ArgLifecycle
<1> QED BY <1>3, <1>4, <1>5, <1>6 DEF StartInv

LEMMA StartedStart ==
    ASSUME RaceInv, RaceInv', StartInv, Once!Started PROVE StartInv'
<1>1. /\ once_pc[Starter] = "waiting" /\ once_pc'[Starter] = IF i + 1 < N THEN "create" ELSE "launch"
      /\ \A u \in Racers : once_pc'[u] = once_pc[u]
    BY Moves, Numbers DEF Once!Started, Everyone, RaceInv
<1>2. /\ Starter \notin cv_tstart /\ m_tstart = Nobody /\ m_tstart' = Starter
      /\ i' = (IF i + 1 < N THEN i + 1 ELSE 0)
      /\ UNCHANGED <<cv_tstart, cv_run, once_id>>
    BY Numbers DEF Once!Started, Once!once, Once!start, Once!CondResume, Once!MutexLock
<1>3. Owned'
    BY <1>1, <1>2, Numbers DEF StartInv, Owned, Holding, Everyone
<1>4. Asleep'
    BY <1>1, <1>2, Numbers DEF StartInv, Asleep, Everyone
<1>5. OneByOne'
  <2>1. \A u \in Racers : /\ u <= i => once_pc[u] \in Started
                          /\ u > i => once_pc[u] = "not_created"
    <3>1. ASSUME NEW u \in Racers, u = i PROVE once_pc[u] \in Started
        BY <1>1, <1>2, <3>1, Numbers
        DEF StartInv, OneByOne, Newest, Starting, Owned, Holding, Everyone
    <3>2. \A u \in Racers : /\ u < i => once_pc[u] \in Started
                            /\ u > i => once_pc[u] = "not_created"
        BY <1>1 DEF StartInv, OneByOne, Starting
    <3> QED BY <3>1, <3>2, Numbers DEF RaceInv, RaceTypes
  <2>2. i \in Racers
      BY <1>1, Numbers DEF RaceInv, RaceTypes, Loops, Starting
  <2>3. CASE i + 1 < N
    <3>1. once_pc'[Starter] = "create" /\ i' = i + 1 /\ Newest' = {"not_created"}
        BY <1>1, <1>2, <2>3 DEF Newest
    <3> QED BY <1>1, <2>1, <2>2, <3>1, Numbers DEF OneByOne, Launching
  <2>4. CASE ~(i + 1 < N)
    <3>1. once_pc'[Starter] = "launch"
        BY <1>1, <2>4
    <3> QED BY <1>1, <2>1, <2>2, <2>4, <3>1, Numbers DEF OneByOne, Starting
  <2> QED BY <2>3, <2>4
<1>6. Once!ArgLifecycle'
    BY <1>1, <1>2 DEF StartInv, Once!ArgLifecycle
<1> QED BY <1>3, <1>4, <1>5, <1>6 DEF StartInv

LEMMA LaunchStart ==
    ASSUME RaceInv, StartInv, Once!Launch PROVE StartInv'
<1> DEFINE to == IF i + 1 < N THEN "launch" ELSE "unlock"
<1>1. /\ once_pc[Starter] = "launch" /\ once_pc'[Starter] = to
      /\ \A u \in Racers : once_pc'[u] = once_pc[u]
    BY Moves, Numbers DEF Once!Launch, Everyone, RaceInv
<1>2. m_tstart = Starter /\ UNCHANGED <<m_tstart, cv_tstart, once_id>>
    BY DEF Once!Launch, Once!once
<1>3. \A k \in Racers : cv_run'[k] \subseteq cv_run[k]
    BY DEF Once!Launch, RaceInv, RaceTypes
<1>4. Owned'
    BY <1>1, <1>2, Numbers DEF StartInv, Owned, Holding, Everyone
<1>5. Asleep'
    BY <1>1, <1>2, <1>3 DEF StartInv, Asleep
<1>6. OneByOne'
    BY <1>1 DEF StartInv, OneByOne, Starting, Launching
<1>7. Once!ArgLifecycle'
    BY <1>1, <1>2 DEF StartInv, Once!ArgLifecycle
<1> QED BY <1>4, <1>5, <1>6, <1>7 DEF StartInv

LEMMA JoinStart ==
    ASSUME RaceInv, StartInv, Once!Join PROVE StartInv'
<1>1. /\ once_pc[Starter] = "join" /\ once_pc'[Starter] = "done"
      /\ \A u \in Racers : once_pc'[u] = once_pc[u]
    BY Moves, Numbers DEF Once!Join, Everyone, RaceInv
<1>2. UNCHANGED <<m_tstart, cv_tstart, cv_run, i, once_id>>
    BY DEF Once!Join, Once!start
<1>3. Owned'
    BY <1>1, <1>2, Numbers DEF StartInv, Owned, Holding, Everyone
<1>4. Asleep'
    BY <1>1, <1>2 DEF StartInv, Asleep
<1>5. OneByOne'
    BY <1>1 DEF StartInv, OneByOne, Starting, Launching
<1>6. Once!ArgLifecycle'
    BY <1>1, <1>2 DEF StartInv, Once!ArgLifecycle
<1> QED BY <1>3, <1>4, <1>5, <1>6 DEF StartInv

LEMMA StayStart ==
    ASSUME StartInv, UNCHANGED <<m_tstart, cv_tstart, i, once_id, once_pc>>,
           \A k \in Racers : cv_run'[k] \subseteq cv_run[k]
    PROVE  StartInv'
BY DEF StartInv, Owned, Asleep, OneByOne, Newest, Once!ArgLifecycle

LEMMA NextStart ==
    ASSUME Starter \notin SpuriousWaiters, RaceInv, RaceInv', StartInv, [Once!Next]_onceVars
    PROVE  StartInv'
<1>1. ASSUME NEW t \in Racers, Once!AThread(t) PROVE StartInv'
  <2>1. t \in Everyone
      BY DEF Everyone
  <2> QED
      BY <1>1, <2>1, ReadArgStart, LockStart, SignalStartStart, WaitForLaunchStart,
         LaunchedStart, UnlockStart, OnceStart, EndThreadStart
      DEF Once!AThread
<1>2. CASE Once!MainThread
  <2>1. Starter \in Everyone
      BY DEF Everyone
  <2> QED
      BY <1>2, <2>1, OnceStart, SoloStart, LockStart, CreateStart, WaitForStartStart,
         StartedStart, LaunchStart, UnlockStart, JoinStart
      DEF Once!MainThread
<1>3. ASSUME NEW t \in SpuriousWaiters, Once!Wakeup(t) PROVE StartInv'
  <2>1. t # Starter
      BY <1>3
  <2>2. cv_tstart' = cv_tstart
      BY <1>3, <2>1 DEF Once!Wakeup, RaceInv, RaceTypes
  <2>3. \A k \in Racers : cv_run'[k] \subseteq cv_run[k]
      BY <1>3 DEF Once!Wakeup
  <2> QED BY <1>3, <2>2, <2>3, StayStart DEF Once!Wakeup
<1>4. CASE UNCHANGED onceVars
    BY <1>4, StayStart DEF onceVars
<1> QED BY <1>1, <1>2, <1>3, <1>4 DEF Once!Next

\* The thread that main waits for has signalled, or sleeps already.
LEMMA StartSound == ASSUME RaceInv, StartInv PROVE Once!ArgLifecycle /\ Once!LaunchReachesAll
BY DEF StartInv, OneByOne, Launching, Started, Racing, Once!LaunchReachesAll
-----------------------------------------------------------------------------
(* Proofs: the pools                                                        *)

\* What comes at which place of Tests.
TestAt(s) ==
    CASE s \in 1..1 \cup 3..M + 2 -> "init"
      [] s \in 2..2 \cup M + 4..2 * M + 3 -> "destroy"
      [] s = M + 3 -> "init_fails"
      [] s \in 2 * M + 4..6 * M + 3 -> IF s % 2 = 0 THEN "init" ELSE "destroy"
      [] s \in 6 * M + 4..6 * M + 5 \cup {6 * M + 9, 6 * M + 11} -> "first_use"
      [] s = 6 * M + 6 -> "leave_threads"
      [] s = 6 * M + 7 -> "kthread"
      [] s = 6 * M + 8 -> "once"
      [] s = 6 * M + 10 -> "keys"

Calls == {"init", "destroy", "init_fails", "first_use", "leave_threads", "kthread", "once", "keys"}

LEMMA Joined ==
    ASSUME NEW a \in Seq(Calls), NEW b \in Seq(Calls)
    PROVE  /\ a \o b \in Seq(Calls)
           /\ Len(a) \in Nat /\ Len(b) \in Nat /\ Len(a \o b) = Len(a) + Len(b)
           /\ \A k \in 1..Len(a \o b) :
                 (a \o b)[k] = IF k <= Len(a) THEN a[k] ELSE b[k - Len(a)]
OBVIOUS

LEMMA PoolNumbers ==
    /\ M \in Nat /\ POSIX_THREAD_THREADS_MAX \in Nat
    /\ M >= 3 /\ POSIX_THREAD_THREADS_MAX >= 3
    /\ N = (IF POSIX_THREAD_THREADS_MAX < M THEN POSIX_THREAD_THREADS_MAX ELSE M) - 2
BY ImageAssumption
DEF M, N, Once!OnceAssumption, Once!MY_THREAD_COUNT, Once!MY_MIN

\* Each suite has its places.
LEMMA TestsInOrder ==
    /\ Tests \in Seq(Calls)
    /\ Len(Tests) = 6 * M + 11
    /\ \A s \in 1..6 * M + 11 : Tests[s] = TestAt(s)
<1> DEFINE taken == [n \in 1..M |-> "init"]
           given == [n \in 1..M |-> "destroy"]
           leak == [n \in 1..4 * M |-> IF n % 2 = 1 THEN "init" ELSE "destroy"]
           p1 == <<"init", "destroy">>
           p2 == p1 \o ((taken \o <<"init_fails">>) \o given)
           p3 == p2 \o leak
           p4 == p3 \o <<"first_use", "first_use", "leave_threads">>
           last == <<"kthread", "once", "first_use", "keys", "first_use">>
<1>1. M \in Nat /\ M >= 3
    BY PoolNumbers
<1>2. Tests = p4 \o last
    BY DEF Tests, InitExistingAttr, ResourceExhausted, ResourceLeak, M
<1>3. /\ taken \in Seq(Calls) /\ Len(taken) = M /\ \A k \in 1..M : taken[k] = "init"
      /\ given \in Seq(Calls) /\ Len(given) = M /\ \A k \in 1..M : given[k] = "destroy"
  <2>1. taken \in [1..M -> Calls] /\ given \in [1..M -> Calls]
      BY DEF Calls
  <2>2. taken \in Seq(Calls) /\ given \in Seq(Calls)
      BY <1>1, <2>1
  <2>3. Len(taken) = M /\ Len(given) = M
      BY <1>1
  <2> QED BY <2>2, <2>3
<1>4. /\ leak \in Seq(Calls) /\ Len(leak) = 4 * M
      /\ \A k \in 1..4 * M : leak[k] = IF k % 2 = 1 THEN "init" ELSE "destroy"
  <2>1. 4 * M \in Nat
      BY <1>1
  <2>2. leak \in [1..4 * M -> Calls]
      BY DEF Calls
  <2>3. leak \in Seq(Calls)
      BY <2>1, <2>2
  <2>4. Len(leak) = 4 * M
      BY <2>1
  <2> QED BY <2>3, <2>4
<1> HIDE DEF taken, given, leak
<1>5. /\ p2 \in Seq(Calls) /\ Len(p2) = 2 * M + 3
      /\ \A s \in 1..2 * M + 3 : p2[s] = TestAt(s)
  <2> DEFINE a == taken \o <<"init_fails">>
             b == a \o given
  <2>1. /\ a \in Seq(Calls) /\ Len(a) = M + 1
        /\ \A k \in 1..M + 1 : a[k] = IF k <= M THEN "init" ELSE "init_fails"
    <3>1. <<"init_fails">> \in Seq(Calls) /\ Len(<<"init_fails">>) = 1
        BY DEF Calls
    <3>2. /\ a \in Seq(Calls) /\ Len(a) = M + 1
          /\ \A k \in 1..M + 1 :
                a[k] = IF k <= M THEN taken[k] ELSE <<"init_fails">>[k - M]
        BY <1>1, <1>3, <3>1, Joined
    <3>3. \A k \in 1..M + 1 : k <= M \/ k - M = 1
        BY <1>1
    <3> QED BY <1>1, <1>3, <3>2, <3>3
  <2> HIDE DEF a
  <2>2. /\ b \in Seq(Calls) /\ Len(b) = 2 * M + 1
        /\ \A k \in 1..2 * M + 1 : b[k] = IF k <= M THEN "init"
                                       ELSE IF k = M + 1 THEN "init_fails" ELSE "destroy"
      BY <1>1, <1>3, <2>1
  <2> HIDE DEF b
  <2>3. /\ p1 \o b \in Seq(Calls) /\ Len(p1 \o b) = 2 * M + 3
        /\ \A s \in 1..2 * M + 3 : (p1 \o b)[s] = IF s = 1 THEN "init" ELSE IF s = 2 THEN "destroy"
                                                 ELSE b[s - 2]
      BY <1>1, <2>2
  <2>4. p1 \o b = p2
      BY DEF a, b
  <2>5. \A s \in 1..2 * M + 3 : TestAt(s) =
           IF s = 1 THEN "init" ELSE IF s = 2 THEN "destroy" ELSE b[s - 2]
    <3>1. TestAt(1) = "init" /\ TestAt(2) = "destroy"
        BY <1>1 DEF TestAt
    <3>2. ASSUME NEW s \in 3..2 * M + 3
          PROVE  /\ s \in 3..M + 2 => TestAt(s) = "init"
                 /\ s = M + 3 => TestAt(s) = "init_fails"
                 /\ s \in M + 4..2 * M + 3 => TestAt(s) = "destroy"
        BY <1>1 DEF TestAt
    <3>3. ASSUME NEW s \in 3..2 * M + 3
          PROVE  b[s - 2] = IF s <= M + 2 THEN "init" ELSE IF s = M + 3 THEN "init_fails" ELSE "destroy"
      <4>1. s - 2 \in 1..2 * M + 1
          BY <1>1
      <4> QED BY <1>1, <2>2, <4>1
    <3>4. \A s \in 1..2 * M + 3 :
             s = 1 \/ s = 2 \/ s \in 3..M + 2 \/ s = M + 3 \/ s \in M + 4..2 * M + 3
        BY <1>1
    <3> QED BY <1>1, <3>1, <3>2, <3>3, <3>4
  <2> QED BY <2>3, <2>4, <2>5
<1> HIDE DEF p2
<1>6. /\ p3 \in Seq(Calls) /\ Len(p3) = 6 * M + 3
      /\ \A s \in 1..6 * M + 3 : p3[s] = TestAt(s)
  <2>1. /\ p3 \in Seq(Calls) /\ Len(p3) = 6 * M + 3
        /\ \A s \in 1..6 * M + 3 : p3[s] = IF s <= 2 * M + 3 THEN p2[s] ELSE leak[s - (2 * M + 3)]
      BY <1>1, <1>4, <1>5
  <2>2. ASSUME NEW s \in 2 * M + 4..6 * M + 3
        PROVE  leak[s - (2 * M + 3)] = TestAt(s)
    <3>1. (s - (2 * M + 3)) % 2 = 1 <=> s % 2 = 0
        BY <1>1
    <3>2. s - (2 * M + 3) \in 1..4 * M
        BY <1>1
    <3>3. TestAt(s) = IF s % 2 = 0 THEN "init" ELSE "destroy"
        BY <1>1 DEF TestAt
    <3> QED BY <1>4, <3>1, <3>2, <3>3
  <2>3. ASSUME NEW s \in 1..6 * M + 3 PROVE p3[s] = TestAt(s)
    <3>1. CASE s <= 2 * M + 3
        BY <1>1, <1>5, <2>1, <3>1
    <3>2. CASE ~(s <= 2 * M + 3)
      <4>1. s \in 2 * M + 4..6 * M + 3
          BY <1>1, <3>2
      <4> QED BY <2>1, <2>2, <3>2, <4>1
    <3> QED BY <3>1, <3>2
  <2> QED BY <2>1, <2>3
<1> HIDE DEF p3
<1>7. /\ p4 \in Seq(Calls) /\ Len(p4) = 6 * M + 6
      /\ \A s \in 1..6 * M + 6 : p4[s] = TestAt(s)
  <2>1. /\ p4 \in Seq(Calls) /\ Len(p4) = 6 * M + 6
        /\ \A s \in 1..6 * M + 6 :
              p4[s] = IF s <= 6 * M + 3 THEN p3[s]
                      ELSE IF s <= 6 * M + 5 THEN "first_use" ELSE "leave_threads"
    <3> DEFINE three == <<"first_use", "first_use", "leave_threads">>
    <3>1. three \in Seq(Calls) /\ Len(three) = 3
        BY DEF Calls
    <3>2. /\ p4 \in Seq(Calls) /\ Len(p4) = 6 * M + 6
          /\ \A s \in 1..6 * M + 6 :
                p4[s] = IF s <= 6 * M + 3 THEN p3[s] ELSE three[s - (6 * M + 3)]
        BY <1>1, <1>6, <3>1, Joined
    <3>3. \A k \in 1..3 : three[k] = IF k <= 2 THEN "first_use" ELSE "leave_threads"
        OBVIOUS
    <3>4. \A s \in 1..6 * M + 6 : s <= 6 * M + 3 \/ s - (6 * M + 3) \in 1..3
        BY <1>1
    <3> HIDE DEF three
    <3> QED BY <1>1, <3>2, <3>3, <3>4
  <2>2. \A s \in 6 * M + 4..6 * M + 6 :
           TestAt(s) = IF s <= 6 * M + 5 THEN "first_use" ELSE "leave_threads"
      BY <1>1 DEF TestAt
  <2> QED BY <1>1, <1>6, <2>1, <2>2
<1> HIDE DEF p4
<1>8. /\ last \in Seq(Calls) /\ Len(last) = 5
      /\ \A s \in 6 * M + 7..6 * M + 11 : last[s - (6 * M + 6)] = TestAt(s)
  <2>1. last \in Seq(Calls) /\ Len(last) = 5
      BY DEF Calls
  <2>2. \A s \in 6 * M + 7..6 * M + 11 : last[s - (6 * M + 6)] = TestAt(s)
      BY <1>1 DEF TestAt
  <2> QED BY <2>1, <2>2
<1> HIDE DEF last
<1>9. /\ p4 \o last \in Seq(Calls) /\ Len(p4 \o last) = 6 * M + 11
      /\ \A s \in 1..6 * M + 11 :
            (p4 \o last)[s] = IF s <= 6 * M + 6 THEN p4[s] ELSE last[s - (6 * M + 6)]
  <2>1. Len(p4) = 6 * M + 6 /\ Len(p4) + Len(last) = 6 * M + 11
      BY <1>1, <1>7, <1>8
  <2>2. /\ p4 \o last \in Seq(Calls) /\ Len(p4 \o last) = Len(p4) + Len(last)
        /\ \A s \in 1..Len(p4 \o last) :
              (p4 \o last)[s] = IF s <= Len(p4) THEN p4[s] ELSE last[s - Len(p4)]
      BY <1>7, <1>8, Joined
  <2> QED BY <2>1, <2>2
<1>10. ASSUME NEW s \in 1..6 * M + 11 PROVE (p4 \o last)[s] = TestAt(s)
  <2>1. CASE s <= 6 * M + 6
      BY <1>1, <1>7, <1>9, <2>1
  <2>2. CASE ~(s <= 6 * M + 6)
    <3>1. s \in 6 * M + 7..6 * M + 11
        BY <1>1, <2>2
    <3> QED BY <1>8, <1>9, <2>2, <3>1
  <2> QED BY <2>1, <2>2
<1> QED BY <1>2, <1>9, <1>10

Places(op) == {s \in 1..6 * M + 11 : TestAt(s) = op}

LEMMA Position ==
    ASSUME PoolInv
    PROVE  /\ image = "tests" => step \in 1..6 * M + 12
           /\ \A op : image = "tests" => (At(op) <=> step \in Places(op))
           /\ \A op : image # "tests" /\ At(op) => op \in {"kthread", "keys"}
           /\ \A op : At(op) => step + 1 \in 1..Len(Steps) + 1
<1>1. CASE image = "tests"
  <2>1. Steps = Tests
      BY <1>1 DEF Steps
  <2>2. M \in Nat /\ DOMAIN Tests = 1..6 * M + 11
      BY TestsInOrder, PoolNumbers
  <2>3. step \in 1..6 * M + 12
      BY <2>1, <2>2, TestsInOrder DEF PoolInv
  <2>4. \A op : At(op) <=> step \in Places(op)
      BY <2>1, <2>2, TestsInOrder DEF At, Places
  <2>5. \A op : At(op) => step + 1 \in 1..6 * M + 12
      BY <2>1, <2>2 DEF At
  <2> QED BY <1>1, <2>1, <2>2, <2>3, <2>4, <2>5, TestsInOrder
<1>2. CASE image # "tests"
  <2>1. Len(Steps) = 1 /\ DOMAIN Steps = {1} /\ Steps[1] \in {"kthread", "keys"}
    <3>1. CASE image = "cpp_pthread_kthread"
      <4>1. Steps = <<"kthread">>
          BY <3>1 DEF Steps
      <4> QED BY <4>1
    <3>2. CASE image # "cpp_pthread_kthread"
      <4>1. Steps = <<"keys">>
          BY <1>2, <3>2 DEF Steps
      <4> QED BY <4>1
    <3> QED BY <3>1, <3>2
  <2> QED BY <1>2, <2>1 DEF At
<1> QED BY <1>1, <1>2

LEMMA FewPlaces ==
    /\ Places("init_fails") = {M + 3}
    /\ Places("leave_threads") = {6 * M + 6}
    /\ Places("kthread") = {6 * M + 7}
    /\ Places("once") = {OnceStepNo}
    /\ Places("keys") = {6 * M + 10}
    /\ Places("first_use") = {6 * M + 4, 6 * M + 5, 6 * M + 9, 6 * M + 11}
BY PoolNumbers DEF Places, TestAt, OnceStepNo

\* What a step of the image changes.
LEMMA OutChanges ==
    /\ \A s \in Places("init") \cup Places("first_use") : Out(s + 1) = Out(s) + 1
    /\ \A s \in Places("destroy") : Out(s + 1) = Out(s) - 1
    /\ \A s \in Places("init_fails") \cup Places("leave_threads") \cup Places("kthread")
               \cup Places("once") \cup Places("keys") : Out(s + 1) = Out(s)
<1>1. M \in Nat /\ M >= 3
    BY PoolNumbers
<1>2. \A s \in Places("init") : Out(s + 1) = Out(s) + 1
    BY <1>1 DEF Places, TestAt, Out
<1>3. \A s \in Places("first_use") : Out(s + 1) = Out(s) + 1
    BY <1>1, FewPlaces DEF Out
<1>4. \A s \in Places("destroy") : Out(s + 1) = Out(s) - 1
    BY <1>1 DEF Places, TestAt, Out
<1>5. \A s \in Places("init_fails") \cup Places("leave_threads") \cup Places("kthread")
               \cup Places("once") \cup Places("keys") : Out(s + 1) = Out(s)
    BY <1>1, FewPlaces DEF Out, OnceStepNo
<1> QED BY <1>2, <1>3, <1>4, <1>5

LEMMA OutBounds ==
    /\ \A s \in 1..6 * M + 12 : Out(s) \in Nat
    /\ \A s \in Places("init") : Out(s) < M
    /\ \A s \in Places("init_fails") : Out(s) = M
    /\ \A s \in {6 * M + 4, 6 * M + 5, 6 * M + 9} : Out(s) < 3
    /\ Out(6 * M + 11) = 3
    /\ Out(OnceStepNo) = 2
<1>1. M \in Nat /\ M >= 3
    BY PoolNumbers
<1>2. \A s \in 1..6 * M + 12 : Out(s) \in Nat
    BY <1>1 DEF Out
<1>3. \A s \in Places("init") : Out(s) < M
    BY <1>1 DEF Places, TestAt, Out
<1>4. \A s \in Places("init_fails") : Out(s) = M
    BY <1>1, FewPlaces DEF Out
<1>5. \A s \in {6 * M + 4, 6 * M + 5, 6 * M + 9} : Out(s) < 3
    BY <1>1 DEF Out
<1>6. Out(6 * M + 11) = 3 /\ Out(OnceStepNo) = 2
    BY <1>1 DEF Out, OnceStepNo
<1> QED BY <1>2, <1>3, <1>4, <1>5, <1>6

LEMMA RaceTakes ==
    ASSUME RaceInv
    PROVE  /\ OutForRace \in Int /\ -1 <= OutForRace /\ OutForRace <= M - 2
           /\ once_pc[Starter] \in Solo => OutForRace = 0
           /\ once_pc[Starter] = "done" => OutForRace <= 0 /\ (M = 3 => OutForRace = -1)
           /\ N \in Nat /\ N <= M - 2
BY Numbers, PoolNumbers DEF RaceInv, RaceTypes, OutForRace, Once!MY_MIN, Solo

\* The pool never gives out more than it has.
LEMMA TookBounds ==
    ASSUME RaceInv, PoolInv, image = "tests"
    PROVE  Out(step) + OutForRace \in 0..M
<1>1. M \in Nat /\ M >= 3 /\ step \in 1..6 * M + 12 /\ OnceStepNo = 6 * M + 8
    BY PoolNumbers, Position DEF OnceStepNo
<1>2. CASE step < OnceStepNo
  <2>1. OutForRace = 0
      BY <1>2, RaceTakes DEF PoolInv, Solo
  <2>2. Out(step) \in 0..M
      BY <1>1, <1>2 DEF Out
  <2> QED BY <1>1, <2>1, <2>2
<1>3. CASE step = OnceStepNo
    BY <1>1, <1>3, RaceTakes, OutBounds
<1>4. CASE ~(step < OnceStepNo) /\ step # OnceStepNo
  <2>1. step > OnceStepNo
      BY <1>1, <1>4
  <2>2. OutForRace \in {0, -1} /\ (M = 3 => OutForRace = -1)
      BY <2>1, RaceTakes DEF PoolInv
  <2>3. Out(step) \in 2..4
      BY <1>1, <2>1 DEF Out
  <2> QED BY <1>1, <2>2, <2>3
<1> QED BY <1>2, <1>3, <1>4

LEMMA InitPool == ImageInit => PoolInv
<1> SUFFICES ASSUME ImageInit PROVE PoolInv
    OBVIOUS
<1>1. step = 1 /\ detached = 0 /\ conds = 0 /\ image \in Images /\ once_pc[Starter] = "once"
    BY DEF ImageInit, Once!Init
<1>2. Len(Steps) \in Nat
  <2>1. CASE image = "tests"
      BY <2>1, TestsInOrder DEF Steps
  <2>2. CASE image = "cpp_pthread_kthread"
      BY <2>2 DEF Steps
  <2>3. CASE image \notin {"tests", "cpp_pthread_kthread"}
      BY <2>3 DEF Steps
  <2> QED BY <2>1, <2>2, <2>3
<1>3. Out(1) = 0 /\ OutForRace = 0 /\ ~(1 > OnceStepNo)
    BY <1>1, PoolNumbers DEF Out, OutForRace, Solo, OnceStepNo
<1>4. 1 \in 1..Len(Steps) + 1 /\ 0 \in 0..2
    BY <1>2
<1> QED BY <1>1, <1>3, <1>4 DEF PoolInv

\* A step of the image itself.
LEMMA GoOnPool ==
    ASSUME RaceInv, PoolInv, NEW op, At(op), GoOn, detached' \in 0..2,
           op # "once" \/ once_pc[Starter] = "done",
           \/ op \in {"init", "first_use"} /\ conds' = conds + 1
           \/ op = "destroy" /\ conds' = conds - 1
           \/ op \in {"init_fails", "leave_threads", "kthread", "once", "keys"} /\ conds' = conds
    PROVE  PoolInv'
<1>1. /\ step' = step + 1 /\ image' = image
      /\ once_pc' = once_pc /\ Steps' = Steps /\ OutForRace' = OutForRace
    BY DEF GoOn, onceVars, Steps, OutForRace
<1>2. step' \in 1..Len(Steps) + 1
    BY <1>1, Position
<1>3. CASE image = "tests"
  <2>1. step \in Places(op) /\ step \in 1..6 * M + 12
      BY <1>3, Position
  <2>2. conds = Out(step) + OutForRace /\ OutForRace \in Int /\ Out(step) \in Nat
      BY <1>3, <2>1, RaceTakes, OutBounds DEF PoolInv
  <2>3. conds' = Out(step + 1) + OutForRace
      BY <2>1, <2>2, OutChanges
  <2>4. step = OnceStepNo <=> op = "once"
    <3>1. OnceStepNo \in Places("once") /\ Places("once") = {OnceStepNo}
        BY FewPlaces
    <3> QED BY <2>1, <3>1 DEF Places
  <2>5. OnceStepNo \in Int /\ step \in Int
      BY <2>1, PoolNumbers DEF OnceStepNo
  <2>6. step + 1 < OnceStepNo => once_pc[Starter] = "once"
      BY <1>3, <2>5 DEF PoolInv
  <2>7. step + 1 > OnceStepNo => once_pc[Starter] = "done"
      BY <1>3, <2>4, <2>5 DEF PoolInv
  <2> QED BY <1>1, <1>2, <1>3, <2>3, <2>6, <2>7 DEF PoolInv
<1>4. CASE image # "tests"
  <2>1. op \in {"kthread", "keys"}
      BY <1>4, Position
  <2> QED BY <1>1, <1>2, <1>4, <2>1 DEF PoolInv
<1> QED BY <1>3, <1>4

LEMMA ImageStepPool == ASSUME RaceInv, PoolInv, ImageStep PROVE PoolInv'
<1>1. detached \in 0..2
    BY DEF PoolInv
<1>2. CASE InitCond
    BY <1>1, <1>2, GoOnPool DEF InitCond, NextStep
<1>3. CASE InitCondFails
    BY <1>1, <1>3, GoOnPool DEF InitCondFails, NextStep
<1>4. CASE DestroyCond
    BY <1>1, <1>4, GoOnPool DEF DestroyCond, NextStep
<1>5. CASE LeaveThreads
    BY <1>5, GoOnPool DEF LeaveThreads, NextStep
<1>6. CASE SuiteEnds
    BY <1>1, <1>6, GoOnPool DEF SuiteEnds, NextStep, Once!Done
<1>7. CASE KthreadEnds
    BY <1>1, <1>7, GoOnPool DEF KthreadEnds
<1> QED BY <1>2, <1>3, <1>4, <1>5, <1>6, <1>7 DEF ImageStep

\* A step of the race: what it takes from the pool, and what it gives back.
LEMMA RacePool ==
    ASSUME RaceInv, RaceInv', PoolInv, At("once"), Once!Next
    PROVE  conds' = 2 + OutForRace'
<1>1. conds = 2 + OutForRace
    BY Position, FewPlaces, OutBounds DEF PoolInv
<1>2. OutForRace \in Int
    BY RaceTakes
<1>3. ASSUME conds' = conds, once_pc'[Starter] = once_pc[Starter], i' = i
      PROVE  conds' = 2 + OutForRace'
    BY <1>1, <1>3 DEF OutForRace
<1>4. ASSUME NEW t \in Racers, Once!AThread(t) PROVE conds' = 2 + OutForRace'
  <2>1. /\ UNCHANGED <<conds, i>>
        /\ \E from, to : Once!Go(t, from, to)
      BY <1>4
      DEF Once!AThread, Once!ReadArg, Once!Lock, Once!SignalStart, Once!WaitForLaunch,
          Once!Launched, Once!Unlock, Once!Once, Once!Call, Once!InitFunc, Once!OnceDone,
          Once!EndThread, Once!start
  <2>2. once_pc'[Starter] = once_pc[Starter]
      BY <2>1, Moves, Numbers DEF RaceInv, Everyone
  <2> QED BY <1>3, <2>1, <2>2
<1>5. CASE Once!MainThread
  <2> DEFINE p == once_pc[Starter]
             q == once_pc'[Starter]
  <2>1. Starter \in Everyone
      BY DEF Everyone
  <2>2. CASE \/ Once!Once(Starter) \/ Once!InitFunc(Starter) \/ Once!OnceDone(Starter)
             \/ Once!CheckOnce
    <3>1. p \in Solo /\ q \in Solo /\ conds' = conds
        BY <2>1, <2>2, Moves
        DEF Once!Once, Once!Call, Once!InitFunc, Once!OnceDone, Once!CheckOnce, RaceInv, Solo
    <3> QED BY <1>1, <3>1 DEF OutForRace, Solo
  <2>3. CASE Once!BadValue
    <3>1. p = "bad_value" /\ q = "init_conds" /\ conds' = conds /\ i' = i
        BY <2>1, <2>3, Moves DEF Once!BadValue, Once!start, RaceInv
    <3>2. i = 0
        BY <3>1 DEF RaceInv, Loops
    <3> QED BY <1>1, <3>1, <3>2 DEF OutForRace, Solo
  <2>4. CASE Once!InitConds
    <3>1. /\ p = "init_conds" /\ q = (IF i < N THEN "init_conds" ELSE "lock")
          /\ i' = (IF i < N THEN i + 1 ELSE 0)
          /\ conds' = Once!MY_MIN(conds + 1, M)
        BY <2>1, <2>4, Moves DEF Once!InitConds, RaceInv, M
    <3>2. conds = 2 + i /\ i \in 0..N /\ N \in Nat /\ N <= M - 2 /\ M \in Nat
        BY <1>1, <3>1, RaceTakes, PoolNumbers DEF OutForRace, Solo, RaceInv, RaceTypes
    <3>3. CASE i < N
        BY <3>1, <3>2, <3>3 DEF OutForRace, Solo, Once!MY_MIN
    <3>4. CASE ~(i < N)
      <4>1. i = N /\ q = "lock"
          BY <3>1, <3>2, <3>4
      <4>2. conds' = 2 + Once!MY_MIN(N + 1, M - 2)
          BY <3>1, <3>2, <4>1 DEF Once!MY_MIN
      <4> QED BY <4>1, <4>2 DEF OutForRace, Solo
    <3> QED BY <3>3, <3>4
  <2>5. CASE \/ Once!Lock(Starter) \/ Once!Create \/ Once!WaitForStart \/ Once!Started
             \/ Once!Launch \/ Once!Unlock(Starter)
    <3>1. conds' = conds /\ p \notin Solo \cup {"init_conds", "done"}
        BY <2>1, <2>5, Moves
        DEF Once!Lock, Once!Create, Once!WaitForStart, Once!Started, Once!Launch, Once!Unlock,
            RaceInv, Solo
    <3>2. q \notin Solo \cup {"init_conds", "done"}
      <4>1. CASE Once!Create
          BY <4>1, Numbers DEF Once!Create, RaceInv, RaceTypes, PlaceTypes, Solo, Loops, Starting,
             Everyone
      <4>2. CASE ~Once!Create
          BY <2>1, <2>5, <4>2, Moves
          DEF Once!Lock, Once!WaitForStart, Once!Started, Once!Launch, Once!Unlock, RaceInv, Solo
      <4> QED BY <4>1, <4>2
    <3> QED BY <1>1, <3>1, <3>2 DEF OutForRace
  <2>6. CASE Once!Join
    <3>1. p = "join" /\ q = "done" /\ conds' = conds - (1 + N)
        BY <2>1, <2>6, Moves DEF Once!Join, RaceInv
    <3>2. /\ OutForRace = Once!MY_MIN(N + 1, M - 2)
          /\ OutForRace' = IF POSIX_THREAD_THREADS_MAX < M THEN 0 ELSE -1
        BY <3>1 DEF OutForRace, Solo
    <3>3. Once!MY_MIN(N + 1, M - 2) - (1 + N) = IF POSIX_THREAD_THREADS_MAX < M THEN 0 ELSE -1
        BY PoolNumbers DEF Once!MY_MIN
    <3>4. N \in Nat /\ Once!MY_MIN(N + 1, M - 2) \in Int
        BY RaceTakes, <1>2, <3>2
    <3> QED BY <1>1, <3>1, <3>2, <3>3, <3>4
  <2> QED BY <1>5, <2>2, <2>3, <2>4, <2>5, <2>6 DEF Once!MainThread
<1>6. ASSUME NEW t \in SpuriousWaiters, Once!Wakeup(t) PROVE conds' = 2 + OutForRace'
    BY <1>3, <1>6 DEF Once!Wakeup
<1> QED BY <1>4, <1>5, <1>6 DEF Once!Next
-----------------------------------------------------------------------------
(* Proofs: ThreadIdentity                                                   *)

LEMMA ThreeThreads ==
    /\ Identity!Threads = {"main", "pthread", "kthread"}
    /\ Identity!Main = "main" /\ Identity!P = "pthread" /\ Identity!K = "kthread"
    /\ Identity!None = "none" /\ "none" \notin Handles
BY ImageAssumption
DEF Identity!Threads, Identity!Main, Identity!P, Identity!K, Identity!None,
    Identity!IdentityAssumption

LEMMA InitIdentity == Identity!Init => IdentityInv
BY ThreeThreads DEF Identity!Init, IdentityInv, Identity!TypeOK

LEMMA MainSelfIdentity ==
    ASSUME IdentityInv, Identity!MainSelf PROVE IdentityInv'
BY ThreeThreads
DEF IdentityInv, Identity!MainSelf, Identity!Go, Identity!Self, Identity!Free, Identity!TypeOK

LEMMA PthreadSelfIdentity ==
    ASSUME IdentityInv, Identity!PthreadSelf PROVE IdentityInv'
BY ThreeThreads
DEF IdentityInv, Identity!PthreadSelf, Identity!Go, Identity!Self, Identity!Free, Identity!TypeOK

LEMMA KthreadSelfIdentity ==
    ASSUME IdentityInv, Identity!KthreadSelf PROVE IdentityInv'
BY ThreeThreads
DEF IdentityInv, Identity!KthreadSelf, Identity!Go, Identity!Self, Identity!Free, Identity!TypeOK

LEMMA CreatePIdentity ==
    ASSUME IdentityInv, Identity!CreateP PROVE IdentityInv'
BY ThreeThreads
DEF IdentityInv, Identity!CreateP, Identity!Go, Identity!Self, Identity!Free, Identity!TypeOK

LEMMA CreateKIdentity ==
    ASSUME IdentityInv, Identity!CreateK PROVE IdentityInv'
BY ThreeThreads
DEF IdentityInv, Identity!CreateK, Identity!Go, Identity!Self, Identity!Free, Identity!TypeOK

LEMMA JoinPIdentity ==
    ASSUME IdentityInv, Identity!JoinP PROVE IdentityInv'
BY ThreeThreads
DEF IdentityInv, Identity!JoinP, Identity!Go, Identity!Self, Identity!Free, Identity!TypeOK

LEMMA JoinKIdentity ==
    ASSUME IdentityInv, Identity!JoinK PROVE IdentityInv'
BY ThreeThreads
DEF IdentityInv, Identity!JoinK, Identity!Go, Identity!Self, Identity!Free, Identity!TypeOK

LEMMA CompareIdentity ==
    ASSUME IdentityInv, NEW t \in Identity!Threads, Identity!Compare(t) PROVE IdentityInv'
BY ThreeThreads DEF IdentityInv, Identity!Compare, Identity!Go, Identity!TypeOK

LEMMA NextIdentity ==
    ASSUME IdentityInv, Identity!Next PROVE IdentityInv'
BY ThreeThreads, MainSelfIdentity, PthreadSelfIdentity, KthreadSelfIdentity, CreatePIdentity,
   CreateKIdentity, JoinPIdentity, JoinKIdentity, CompareIdentity
DEF Identity!Next, Identity!MainThread, Identity!NewThreads

LEMMA IdentitiesSound == ASSUME IdentityInv PROVE Identity!TypeOK /\ Identity!IdentitiesHold
BY ThreeThreads
DEF IdentityInv, Identity!IdentitiesHold, Identity!Owners, Identity!Done

LEMMA StayIdentity ==
    ASSUME IdentityInv, UNCHANGED identityVars PROVE IdentityInv'
BY DEF IdentityInv, identityVars, Identity!TypeOK

\* The values are forgotten when nobody compares them any more.
LEMMA KthreadEndsIdentity ==
    ASSUME IdentityInv, KthreadEnds PROVE IdentityInv'
<1>1. /\ at["main"] = "done"
      /\ handle' = [t \in Identity!Threads |-> "none"]
      /\ pthread_thread' = "none" /\ pthread_thread2' = "none"
      /\ UNCHANGED <<at, kthread_thread2>>
    BY ThreeThreads DEF KthreadEnds, Identity!Done
<1> QED BY <1>1, ThreeThreads DEF IdentityInv, Identity!TypeOK

-----------------------------------------------------------------------------
(* Proofs: KeyStages, the lists of calls                                    *)

LEMMA MainCalls ==
    /\ Len(MainProgram) = 44
    /\ MainProgram[1] = Create("key")
    /\ MainProgram[2] = Get("key", Null)
    /\ MainProgram[3] = Set("key", "tagM")
    /\ MainProgram[4] = Get("key", "tagM")
    /\ MainProgram[5] = Delete("key")
    /\ MainProgram[6] = DeleteFails("key")
    /\ MainProgram[7] = Get("key", Null)
    /\ MainProgram[8] = Create("key")
    /\ MainProgram[9] = Get("key", Null)
    /\ MainProgram[10] = Set("key", "tagM")
    /\ MainProgram[11] = Get("key", "tagM")
    /\ MainProgram[12] = Create("key2")
    /\ MainProgram[13] = Get("key2", Null)
    /\ MainProgram[14] = Set("key2", "tagM2")
    /\ MainProgram[15] = Get("key2", "tagM2")
    /\ MainProgram[16] = Get("key", "tagM")
    /\ MainProgram[17] = Call("lock")
    /\ MainProgram[18] = Call("create_threads")
    /\ MainProgram[19] = IncrWait
    /\ MainProgram[20] = Get("key", "tagM")
    /\ MainProgram[21] = Get("key2", "tagM2")
    /\ MainProgram[22] = Delete("key2")
    /\ MainProgram[23] = DeleteFails("key2")
    /\ MainProgram[24] = Get("key2", Null)
    /\ MainProgram[25] = Get("key", "tagM")
    /\ MainProgram[26] = IncrWait
    /\ MainProgram[27] = IncrWait
    /\ MainProgram[28] = Get("key", Null)
    /\ MainProgram[29] = DeleteFails("key2")
    /\ MainProgram[30] = Get("key2", Null)
    /\ MainProgram[31] = Create("key")
    /\ MainProgram[32] = Get("key", Null)
    /\ MainProgram[33] = Delete("key")
    /\ MainProgram[34] = DeleteFails("key")
    /\ MainProgram[35] = IncrWait
    /\ MainProgram[36] = Get("key3", Null)
    /\ MainProgram[37] = Get("key4", Null)
    /\ MainProgram[38] = Delete("key3")
    /\ MainProgram[39] = DeleteFails("key3")
    /\ MainProgram[40] = Delete("key4")
    /\ MainProgram[41] = DeleteFails("key4")
    /\ MainProgram[42] = Call("incr")
    /\ MainProgram[43] = Call("unlock")
    /\ MainProgram[44] = Call("join")
BY DEF MainProgram, Start, End, Use

LEMMA Thread1Calls ==
    /\ Len(Thread1Program) = 29
    /\ Thread1Program[1] = Call("lock")
    /\ Thread1Program[2] = Call("stage_wait")
    /\ Thread1Program[3] = Get("key", Null)
    /\ Thread1Program[4] = Set("key", "tagP")
    /\ Thread1Program[5] = Get("key", "tagP")
    /\ Thread1Program[6] = Get("key2", Null)
    /\ Thread1Program[7] = Set("key2", "tagP2")
    /\ Thread1Program[8] = Get("key2", "tagP2")
    /\ Thread1Program[9] = Get("key", "tagP")
    /\ Thread1Program[10] = IncrWait
    /\ Thread1Program[11] = DeleteFails("key2")
    /\ Thread1Program[12] = Get("key2", Null)
    /\ Thread1Program[13] = Get("key", "tagP")
    /\ Thread1Program[14] = IncrWait
    /\ Thread1Program[15] = Delete("key")
    /\ Thread1Program[16] = DeleteFails("key")
    /\ Thread1Program[17] = Get("key", Null)
    /\ Thread1Program[18] = IncrWait
    /\ Thread1Program[19] = Create("key3")
    /\ Thread1Program[20] = Get("key3", Null)
    /\ Thread1Program[21] = Set("key3", "tagP")
    /\ Thread1Program[22] = Get("key3", "tagP")
    /\ Thread1Program[23] = IncrWait
    /\ Thread1Program[24] = DeleteFails("key3")
    /\ Thread1Program[25] = Get("key3", Null)
    /\ Thread1Program[26] = DeleteFails("key4")
    /\ Thread1Program[27] = Get("key4", Null)
    /\ Thread1Program[28] = Call("incr")
    /\ Thread1Program[29] = Call("unlock")
BY DEF Thread1Program, Start, End, Use

LEMMA Thread2Calls ==
    /\ Len(Thread2Program) = 28
    /\ Thread2Program[1] = Call("lock")
    /\ Thread2Program[2] = Call("stage_wait")
    /\ Thread2Program[3] = Get("key", Null)
    /\ Thread2Program[4] = Set("key", "tagK")
    /\ Thread2Program[5] = Get("key", "tagK")
    /\ Thread2Program[6] = Get("key2", Null)
    /\ Thread2Program[7] = Set("key2", "tagK2")
    /\ Thread2Program[8] = Get("key2", "tagK2")
    /\ Thread2Program[9] = Get("key", "tagK")
    /\ Thread2Program[10] = IncrWait
    /\ Thread2Program[11] = DeleteFails("key2")
    /\ Thread2Program[12] = Get("key2", Null)
    /\ Thread2Program[13] = Get("key", "tagK")
    /\ Thread2Program[14] = IncrWait
    /\ Thread2Program[15] = DeleteFails("key")
    /\ Thread2Program[16] = Get("key", Null)
    /\ Thread2Program[17] = Create("key4")
    /\ Thread2Program[18] = Get("key4", Null)
    /\ Thread2Program[19] = Set("key4", "tagK")
    /\ Thread2Program[20] = Get("key4", "tagK")
    /\ Thread2Program[21] = IncrWait
    /\ Thread2Program[22] = IncrWait
    /\ Thread2Program[23] = DeleteFails("key3")
    /\ Thread2Program[24] = Get("key3", Null)
    /\ Thread2Program[25] = DeleteFails("key4")
    /\ Thread2Program[26] = Get("key4", Null)
    /\ Thread2Program[27] = Call("incr")
    /\ Thread2Program[28] = Call("unlock")
BY DEF Thread2Program, Start, End, Use

LEMMA MainOps ==
    ASSUME NEW n \in 1..44
    PROVE
      /\ MainProgram[n].op = "lock" => n = 17
      /\ MainProgram[n].op = "stage_wait" => FALSE
      /\ MainProgram[n].op = "incr_wait" => n \in {19, 26, 27, 35}
      /\ MainProgram[n].op = "incr" => n = 42
      /\ MainProgram[n].op = "unlock" => n = 43
      /\ MainProgram[n].op = "create_threads" => n = 18
      /\ MainProgram[n].op = "join" => n = 44
      /\ MainProgram[n].op \in {"create", "delete", "set", "get"} =>
            n # 17 /\ n # 42 /\ n # 43 /\ n \notin {19, 26, 27, 35} /\ n # 18 /\ n # 44
<1>1. \/ n = 1 \/ n = 2 \/ n = 3 \/ n = 4 \/ n = 5 \/ n = 6 \/ n = 7 \/ n = 8 \/ n = 9 \/ n = 10 \/ n = 11 \/ n = 12
      \/ n = 13 \/ n = 14 \/ n = 15 \/ n = 16 \/ n = 17 \/ n = 18 \/ n = 19 \/ n = 20 \/ n = 21 \/ n = 22 \/ n = 23 \/ n = 24
      \/ n = 25 \/ n = 26 \/ n = 27 \/ n = 28 \/ n = 29 \/ n = 30 \/ n = 31 \/ n = 32 \/ n = 33 \/ n = 34 \/ n = 35 \/ n = 36
      \/ n = 37 \/ n = 38 \/ n = 39 \/ n = 40 \/ n = 41 \/ n = 42 \/ n = 43 \/ n = 44
  OBVIOUS
<1>. QED
  BY <1>1, MainCalls
  DEF Do, Create, Delete, DeleteFails, Set, Get, Call, IncrWait

LEMMA Thread1Ops ==
    ASSUME NEW n \in 1..29
    PROVE
      /\ Thread1Program[n].op = "lock" => n = 1
      /\ Thread1Program[n].op = "stage_wait" => n = 2
      /\ Thread1Program[n].op = "incr_wait" => n \in {10, 14, 18, 23}
      /\ Thread1Program[n].op = "incr" => n = 28
      /\ Thread1Program[n].op = "unlock" => n = 29
      /\ Thread1Program[n].op = "create_threads" => FALSE
      /\ Thread1Program[n].op = "join" => FALSE
      /\ Thread1Program[n].op \in {"create", "delete", "set", "get"} =>
            n # 1 /\ n # 28 /\ n # 29 /\ n \notin {10, 14, 18, 23} /\ n # 2
<1>1. \/ n = 1 \/ n = 2 \/ n = 3 \/ n = 4 \/ n = 5 \/ n = 6 \/ n = 7 \/ n = 8 \/ n = 9 \/ n = 10 \/ n = 11 \/ n = 12
      \/ n = 13 \/ n = 14 \/ n = 15 \/ n = 16 \/ n = 17 \/ n = 18 \/ n = 19 \/ n = 20 \/ n = 21 \/ n = 22 \/ n = 23 \/ n = 24
      \/ n = 25 \/ n = 26 \/ n = 27 \/ n = 28 \/ n = 29
  OBVIOUS
<1>. QED
  BY <1>1, Thread1Calls
  DEF Do, Create, Delete, DeleteFails, Set, Get, Call, IncrWait

LEMMA Thread2Ops ==
    ASSUME NEW n \in 1..28
    PROVE
      /\ Thread2Program[n].op = "lock" => n = 1
      /\ Thread2Program[n].op = "stage_wait" => n = 2
      /\ Thread2Program[n].op = "incr_wait" => n \in {10, 14, 21, 22}
      /\ Thread2Program[n].op = "incr" => n = 27
      /\ Thread2Program[n].op = "unlock" => n = 28
      /\ Thread2Program[n].op = "create_threads" => FALSE
      /\ Thread2Program[n].op = "join" => FALSE
      /\ Thread2Program[n].op \in {"create", "delete", "set", "get"} =>
            n # 1 /\ n # 27 /\ n # 28 /\ n \notin {10, 14, 21, 22} /\ n # 2
<1>1. \/ n = 1 \/ n = 2 \/ n = 3 \/ n = 4 \/ n = 5 \/ n = 6 \/ n = 7 \/ n = 8 \/ n = 9 \/ n = 10 \/ n = 11 \/ n = 12
      \/ n = 13 \/ n = 14 \/ n = 15 \/ n = 16 \/ n = 17 \/ n = 18 \/ n = 19 \/ n = 20 \/ n = 21 \/ n = 22 \/ n = 23 \/ n = 24
      \/ n = 25 \/ n = 26 \/ n = 27 \/ n = 28
  OBVIOUS
<1>. QED
  BY <1>1, Thread2Calls
  DEF Do, Create, Delete, DeleteFails, Set, Get, Call, IncrWait

-----------------------------------------------------------------------------
(* Proofs: KeyStages, the turns                                             *)

\* Where a thread makes a call on a key.
OnKeyPlace(t) ==
    /\ ip[t] \notin IncrWaits(t) \cup {LockAt(t), IncrAt(t), IncrAt(t) + 1}
    /\ IF t = Main THEN ip[t] \notin {18, 44} ELSE ip[t] # 2

LastAt(t) == IF t = Main THEN 44 ELSE IncrAt(t) + 1

LEMMA Lengths ==
    /\ DOMAIN MainProgram = 1..44
    /\ DOMAIN Thread1Program = 1..29
    /\ DOMAIN Thread2Program = 1..28
BY DEF MainProgram, Thread1Program, Thread2Program, Start, End, Use

\* The three threads are three.
LEMMA ThreeTurns ==
    /\ Threads = {Main, T1, T2}
    /\ Main # T1 /\ Main # T2 /\ T1 # T2
    /\ Nobody \notin Threads
BY ImageAssumption DEF Threads, Main, T1, T2, KeyAssumption

\* Which calls are where in the lists of the test.
LEMMA TestCalls ==
    ASSUME ~sample, NEW t \in Threads
    PROVE
      /\ DOMAIN Program(t) = 1..LastAt(t)
      /\ Runs(t, "lock") => ip[t] = LockAt(t)
      /\ Runs(t, "stage_wait") => t # Main /\ ip[t] = 2
      /\ Runs(t, "incr_wait") => ip[t] \in IncrWaits(t)
      /\ Runs(t, "incr") => ip[t] = IncrAt(t)
      /\ Runs(t, "unlock") => ip[t] = IncrAt(t) + 1
      /\ Runs(t, "create_threads") => t = Main /\ ip[t] = 18
      /\ Runs(t, "join") => t = Main /\ ip[t] = 44
      /\ \A op \in {"create", "delete", "set", "get"} :
            Runs(t, op) => OnKeyPlace(t) /\ ip[t] \in 1..LastAt(t) /\ mode[t] = "run"
<1>1. CASE t = Main
  <2>1. Program(t) = MainProgram
    BY <1>1, ThreeTurns DEF Program, TestPrograms
  <2>2. DOMAIN Program(t) = 1..44
    BY <2>1, Lengths
  <2>3. ASSUME ip[t] \in 1..44
        PROVE  /\ Instruction(t).op = "lock" => ip[t] = 17
               /\ Instruction(t).op # "stage_wait"
               /\ Instruction(t).op = "incr_wait" => ip[t] \in {19, 26, 27, 35}
               /\ Instruction(t).op = "incr" => ip[t] = 42
               /\ Instruction(t).op = "unlock" => ip[t] = 43
               /\ Instruction(t).op = "create_threads" => ip[t] = 18
               /\ Instruction(t).op = "join" => ip[t] = 44
               /\ Instruction(t).op \in {"create", "delete", "set", "get"} =>
                    ip[t] \notin {17, 18, 19, 26, 27, 35, 42, 43, 44}
    BY <2>1, <2>3, MainOps DEF Instruction
  <2> QED
    BY <1>1, <2>2, <2>3, ThreeTurns DEF Runs, LockAt, IncrWaits, IncrAt, LastAt, OnKeyPlace
<1>2. CASE t = T1
  <2>1. Program(t) = Thread1Program
    BY <1>2, ThreeTurns DEF Program, TestPrograms
  <2>2. DOMAIN Program(t) = 1..29
    BY <2>1, Lengths
  <2>3. ASSUME ip[t] \in 1..29
        PROVE  /\ Instruction(t).op = "lock" => ip[t] = 1
               /\ Instruction(t).op = "stage_wait" => ip[t] = 2
               /\ Instruction(t).op = "incr_wait" => ip[t] \in {10, 14, 18, 23}
               /\ Instruction(t).op = "incr" => ip[t] = 28
               /\ Instruction(t).op = "unlock" => ip[t] = 29
               /\ Instruction(t).op \notin {"create_threads", "join"}
               /\ Instruction(t).op \in {"create", "delete", "set", "get"} =>
                    ip[t] \notin {1, 2, 10, 14, 18, 23, 28, 29}
    BY <2>1, <2>3, Thread1Ops DEF Instruction
  <2> QED
    BY <1>2, <2>2, <2>3, ThreeTurns DEF Runs, LockAt, IncrWaits, IncrAt, LastAt, OnKeyPlace
<1>3. CASE t = T2
  <2>1. Program(t) = Thread2Program
    BY <1>3, ThreeTurns DEF Program, TestPrograms
  <2>2. DOMAIN Program(t) = 1..28
    BY <2>1, Lengths
  <2>3. ASSUME ip[t] \in 1..28
        PROVE  /\ Instruction(t).op = "lock" => ip[t] = 1
               /\ Instruction(t).op = "stage_wait" => ip[t] = 2
               /\ Instruction(t).op = "incr_wait" => ip[t] \in {10, 14, 21, 22}
               /\ Instruction(t).op = "incr" => ip[t] = 27
               /\ Instruction(t).op = "unlock" => ip[t] = 28
               /\ Instruction(t).op \notin {"create_threads", "join"}
               /\ Instruction(t).op \in {"create", "delete", "set", "get"} =>
                    ip[t] \notin {1, 2, 10, 14, 21, 22, 27, 28}
    BY <2>1, <2>3, Thread2Ops DEF Instruction
  <2> QED
    BY <1>3, <2>2, <2>3, ThreeTurns DEF Runs, LockAt, IncrWaits, IncrAt, LastAt, OnKeyPlace
<1> QED
  BY <1>1, <1>2, <1>3 DEF Threads

\* What the stages of a thread are: less than 15, three apart, and never those of
\* another thread.
LEMMA Stages ==
    ASSUME NEW t \in Threads, NEW p \in 0..45
    PROVE  /\ StageAt(t, p) \in 0..14
           /\ p \in IncrWaits(t) => StageAt(t, p) + 3 = StageAt(t, p + 1)
           /\ p \notin IncrWaits(t) => StageAt(t, p) = StageAt(t, p + 1)
BY ThreeTurns DEF StageAt, FirstStage, Rounds, IncrWaits

LEMMA StagesApart ==
    ASSUME NEW t \in Threads, NEW u \in Threads, t # u, NEW p \in 0..45, NEW q \in 0..45,
           NEW a \in {0, 3}, NEW b \in {0, 3}
    PROVE  StageAt(t, p) + a # StageAt(u, q) + b
<1>1. /\ Rounds(t, p) \in 0..4 /\ Rounds(u, q) \in 0..4
  BY ThreeTurns DEF Rounds
<1>2. FirstStage(t) \in 0..2 /\ FirstStage(u) \in 0..2 /\ FirstStage(t) # FirstStage(u)
  BY ThreeTurns DEF FirstStage
<1> QED
  BY <1>1, <1>2 DEF StageAt

\* One thread moves: what this may change for the others is who has the mutex,
\* and which stage it is.
Moved(t) ==
    /\ ip' = [ip EXCEPT ![t] = ip'[t]]
    /\ mode' = [mode EXCEPT ![t] = mode'[t]]
    /\ stage' = [stage EXCEPT ![t] = stage'[t]]
    /\ ip'[t] \in 1..LastAt(t) + 1
    /\ mode'[t] \in {"run", "test", "wait"}
    /\ stage'[t] \in Int
    /\ ip[t] >= 1
    /\ t = Main => (ip'[t] <= 18 <=> ip[t] <= 18)
    /\ m' \in Threads \cup {Nobody}
    /\ cv' \in SUBSET Threads
    /\ UNCHANGED sample

\* The mutex stays whose it is, or t takes it or gives it up; so do the stages.
\* A step of t that changes at most its own place, mode and stage.
LEMMA MovesOnly ==
    ASSUME TurnInv, NEW t \in Threads, NEW p \in 1..LastAt(t) + 1,
           NEW q \in {"run", "test", "wait"}, NEW r \in Int,
           ip' = [ip EXCEPT ![t] = p], mode' = [mode EXCEPT ![t] = q],
           stage' = [stage EXCEPT ![t] = r],
           ip[t] >= 1, t = Main => (p <= 18 <=> ip[t] <= 18),
           m' \in Threads \cup {Nobody}, cv' \in SUBSET Threads, UNCHANGED sample
    PROVE  Moved(t) /\ ip'[t] = p /\ mode'[t] = q /\ stage'[t] = r
<1>1. ip'[t] = p /\ mode'[t] = q /\ stage'[t] = r
  BY DEF TurnInv, KeyTypes
<1> QED
  BY <1>1 DEF Moved

LEMMA OthersTurn ==
    ASSUME TurnInv, ~sample, NEW t \in Threads, Moved(t), NEW u \in Threads, u # t,
           m' = m \/ (m' \in {t, Nobody} /\ m \in {t, Nobody}),
           \/ test_stage' = test_stage
           \/ test_stage' = test_stage + 1 /\ test_stage = stage[t] /\ m = t /\ ip[Main] >= 19
    PROVE  Turn(u)'
<1> USE DEF TurnInv, TestTurns, KeyTypes
<1>1. ip'[u] = ip[u] /\ mode'[u] = mode[u] /\ stage'[u] = stage[u]
  BY DEF Moved
<1>2. Turn(u) /\ Turn(t)
  OBVIOUS
<1>3. (m = u) <=> (m' = u)
  BY ThreeTurns
<1>4. InMutex(u)' <=> InMutex(u)
  BY <1>1 DEF InMutex
<1>5. HandingOver(u)' <=> HandingOver(u)
  BY <1>1 DEF HandingOver
<1>6. Working(u)' <=> Working(u)
  BY <1>1 DEF Working
<1>7. CASE test_stage' = test_stage
  BY <1>1, <1>2, <1>3, <1>4, <1>5, <1>6, <1>7 DEF Turn
<1>8. CASE /\ test_stage' = test_stage + 1 /\ test_stage = stage[t]
           /\ m = t /\ ip[Main] >= 19
  <2>1. ~InMutex(u)
    BY <1>8, <1>2 DEF Turn
  <2>2. ~Working(u)
    BY <2>1, <1>2, <1>8, ThreeTurns DEF InMutex, Working, LockAt, IncrAt
  <2>3. stage[u] # stage[t]
    <3>1. ip[t] \in 0..45 /\ ip[u] \in 0..45
      OBVIOUS
    <3>2. PICK a \in {0, 3} : stage[t] = StageAt(t, ip[t]) + a
      BY <1>2 DEF Turn
    <3>3. PICK b \in {0, 3} : stage[u] = StageAt(u, ip[u]) + b
      BY <1>2 DEF Turn
    <3>4. StageAt(t, ip[t]) + a # StageAt(u, ip[u]) + b
      <4> HIDE DEF TurnInv, TestTurns, KeyTypes
      <4> QED
        BY <3>1, StagesApart
    <3> QED
      BY <3>2, <3>3, <3>4
  <2>4. stage[u] \in Int /\ test_stage \in Int
    OBVIOUS
  <2>5. ip[u] <= IncrAt(u) => stage[u] \in test_stage'..test_stage' + 2
    BY <1>2, <1>8, <2>3, <2>4 DEF Turn
  <2>6. ip[u] > IncrAt(u) => test_stage' > stage[u]
    BY <1>2, <1>8, <2>4 DEF Turn
  <2> QED
    BY <1>1, <1>2, <1>3, <1>4, <1>5, <2>2, <1>6, <2>5, <2>6 DEF Turn
<1> QED
  BY <1>7, <1>8

LEMMA MovedTurns ==
    ASSUME TurnInv, ~sample, NEW t \in Threads, Moved(t), Turn(t)', test_stage' \in 0..15,
           m' = m \/ (m' \in {t, Nobody} /\ m \in {t, Nobody}),
           \/ test_stage' = test_stage
           \/ test_stage' = test_stage + 1 /\ test_stage = stage[t] /\ m = t /\ ip[Main] >= 19
    PROVE  TurnInv'
<1> USE DEF TurnInv, TestTurns, KeyTypes
<1>1. \A u \in Threads : Turn(u)'
  BY OthersTurn
<1>2. KeyTypes'
  <2>1. LastAt(t) + 1 \in 0..45
    BY ThreeTurns DEF LastAt, IncrAt
  <2> QED
    BY <2>1 DEF Moved
<1>3. /\ ip'[Main] \in 1..45 /\ ip'[T1] \in 0..30 /\ ip'[T2] \in 0..29
      /\ ip'[T1] = 0 <=> ip'[Main] <= 18
      /\ ip'[T2] = 0 <=> ip'[Main] <= 18
  BY ThreeTurns DEF Moved, LastAt, IncrAt
<1> QED
  BY <1>1, <1>2, <1>3 DEF Moved

\* A thread in its own stage is the one that has the mutex.
LEMMA WorkerHasMutex ==
    ASSUME TurnInv, ~sample, NEW t \in Threads, Working(t), ip[Main] >= 19
    PROVE  m = t /\ test_stage = stage[t]
<1>1. Turn(t) /\ ip \in [Threads -> 0..45]
  BY DEF TurnInv, TestTurns, KeyTypes
<1>2. InMutex(t)
  BY <1>1, ThreeTurns DEF Working, InMutex, LockAt, IncrAt
<1> QED
  BY <1>1, <1>2 DEF Turn

LEMMA OnKeysTurns ==
    ASSUME TurnInv, ~sample, NEW t \in Threads, OnKeys(t)
    PROVE  TurnInv'
<1> USE DEF TurnInv, TestTurns, KeyTypes
<1>1. OnKeyPlace(t) /\ ip[t] \in 1..LastAt(t) /\ mode[t] = "run" /\ Turn(t)
  <2>1. \E op \in {"create", "delete", "set", "get"} : Runs(t, op)
    BY DEF OnKeys, KeyCreate, KeyDelete, SetSpecific, GetSpecific
  <2> QED
    BY <2>1, TestCalls
<1>2. ip' = [ip EXCEPT ![t] = @ + 1] /\ UNCHANGED turns
  BY DEF OnKeys, KeyCreate, KeyDelete, SetSpecific, GetSpecific, Advance
<1>3. /\ ip'[t] = ip[t] + 1 /\ mode'[t] = mode[t] /\ stage'[t] = stage[t]
      /\ m' = m /\ test_stage' = test_stage /\ ip[t] \in 0..45
  BY <1>2 DEF turns
<1>4. LastAt(t) \in Int
  BY ThreeTurns DEF LastAt, IncrAt
<1>5. Moved(t)
  <2>1. /\ mode' = [mode EXCEPT ![t] = mode[t]] /\ stage' = [stage EXCEPT ![t] = stage[t]]
        /\ m' \in Threads \cup {Nobody} /\ cv' \in SUBSET Threads /\ UNCHANGED sample
    BY <1>2 DEF turns
  <2>2. ip[t] + 1 \in 1..LastAt(t) + 1 /\ mode[t] \in {"run", "test", "wait"} /\ stage[t] \in Int
    BY <1>1, <1>3, <1>4
  <2>3. t = Main => (ip[t] + 1 <= 18 <=> ip[t] <= 18)
    BY <1>1, <1>3, ThreeTurns DEF OnKeyPlace
  <2>4. ip[t] >= 1
    BY <1>1
  <2> HIDE DEF TurnInv, TestTurns, KeyTypes
  <2> QED
    BY <1>2, <2>1, <2>2, <2>3, <2>4, MovesOnly
<1>6. Turn(t)'
  <2>1. InMutex(t)' <=> InMutex(t)
    BY <1>1, <1>3, ThreeTurns DEF InMutex, OnKeyPlace, LockAt, IncrAt
  <2>2. ~HandingOver(t) /\ ~HandingOver(t)'
    BY <1>1, <1>3 DEF HandingOver
  <2>3. StageAt(t, ip'[t]) = StageAt(t, ip[t])
    BY <1>1, <1>3, Stages DEF OnKeyPlace
  <2>4. Working(t)' => Working(t)
    BY <1>1, <1>3, ThreeTurns DEF Working, OnKeyPlace, LockAt, IncrAt
  <2>5. /\ ip'[t] <= IncrAt(t) <=> ip[t] <= IncrAt(t)
        /\ ip'[t] > IncrAt(t) <=> ip[t] > IncrAt(t)
    BY <1>1, <1>3, ThreeTurns DEF OnKeyPlace, IncrAt
  <2> QED
    BY <1>1, <1>3, <2>1, <2>2, <2>3, <2>4, <2>5 DEF Turn
<1> QED
  BY <1>3, <1>5, <1>6, MovedTurns

LEMMA LockTurns ==
    ASSUME TurnInv, ~sample, NEW t \in Threads, Lock(t)
    PROVE  TurnInv'
<1> USE DEF TurnInv, TestTurns, KeyTypes
<1>1. ip[t] = LockAt(t) /\ mode[t] = "run" /\ Turn(t)
  BY TestCalls DEF Lock, Runs
<1>2. /\ ip' = [ip EXCEPT ![t] = ip[t] + 1] /\ m = Nobody /\ m' = t
      /\ UNCHANGED <<sample, cv, test_stage, stage, mode>>
  BY DEF Lock, MutexLock, Advance
<1>3. ip'[t] = ip[t] + 1 /\ ip[t] \in 0..45
  BY <1>2
<1>4. LockAt(t) \in {1, 17} /\ (t = Main <=> LockAt(t) = 17)
  BY ThreeTurns DEF LockAt
<1>5. Moved(t)
  <2>1. /\ mode' = [mode EXCEPT ![t] = mode[t]] /\ stage' = [stage EXCEPT ![t] = stage[t]]
        /\ m' \in Threads \cup {Nobody} /\ cv' \in SUBSET Threads /\ UNCHANGED sample
    BY <1>2
  <2>2. ip[t] + 1 \in 1..LastAt(t) + 1 /\ mode[t] \in {"run", "test", "wait"} /\ stage[t] \in Int
    BY <1>1, <1>3, <1>4, ThreeTurns DEF LastAt, IncrAt
  <2>3. ip[t] >= 1 /\ (t = Main => (ip[t] + 1 <= 18 <=> ip[t] <= 18))
    BY <1>1, <1>3, <1>4
  <2> HIDE DEF TurnInv, TestTurns, KeyTypes
  <2> QED
    BY <1>2, <2>1, <2>2, <2>3, MovesOnly
<1>6. Turn(t)'
  <2>1. InMutex(t)'
    BY <1>1, <1>2, <1>3, ThreeTurns DEF InMutex, LockAt, IncrAt
  <2>2. ~HandingOver(t) /\ ~HandingOver(t)'
    BY <1>1, <1>2 DEF HandingOver
  <2>3. StageAt(t, ip'[t]) = StageAt(t, ip[t])
    <3>1. ip[t] \notin IncrWaits(t)
      BY <1>1, ThreeTurns DEF LockAt, IncrWaits
    <3> QED
      BY <3>1, <1>3, Stages
  <2>4. Working(t)' => Working(t)
    BY <1>1, <1>2, <1>3, ThreeTurns DEF Working, LockAt, IncrAt
  <2>5. ip'[t] <= IncrAt(t) /\ ip[t] <= IncrAt(t)
    BY <1>1, <1>3, ThreeTurns DEF LockAt, IncrAt
  <2>6. ~(ip'[t] > IncrAt(t))
    BY <2>5, <1>1, <1>3, ThreeTurns DEF LockAt, IncrAt
  <2> QED
    BY <1>1, <1>2, <2>1, <2>2, <2>3, <2>4, <2>5, <2>6 DEF Turn
<1> QED
  BY <1>2, <1>5, <1>6, MovedTurns

LEMMA UnlockTurns ==
    ASSUME TurnInv, ~sample, NEW t \in Threads, Unlock(t)
    PROVE  TurnInv'
<1> USE DEF TurnInv, TestTurns, KeyTypes
<1>1. ip[t] = IncrAt(t) + 1 /\ mode[t] = "run" /\ Turn(t)
  BY TestCalls DEF Unlock, Runs
<1>2. /\ ip' = [ip EXCEPT ![t] = ip[t] + 1] /\ m = t /\ m' = Nobody
      /\ UNCHANGED <<sample, cv, test_stage, stage, mode>>
  BY DEF Unlock, MutexUnlock, Advance
<1>3. ip'[t] = ip[t] + 1 /\ ip[t] \in 0..45
  BY <1>2
<1>4. IncrAt(t) \in 27..42 /\ IncrAt(t) + 1 <= LastAt(t) /\ LastAt(t) \in Int
  BY ThreeTurns DEF IncrAt, LastAt
<1>5. Moved(t)
  <2>1. /\ mode' = [mode EXCEPT ![t] = mode[t]] /\ stage' = [stage EXCEPT ![t] = stage[t]]
        /\ m' \in Threads \cup {Nobody} /\ cv' \in SUBSET Threads /\ UNCHANGED sample
    BY <1>2
  <2>2. ip[t] + 1 \in 1..LastAt(t) + 1 /\ mode[t] \in {"run", "test", "wait"} /\ stage[t] \in Int
    BY <1>1, <1>3, <1>4, ThreeTurns DEF LastAt, IncrAt
  <2>3. ip[t] >= 1 /\ (t = Main => (ip[t] + 1 <= 18 <=> ip[t] <= 18))
    BY <1>1, <1>3, <1>4, ThreeTurns DEF IncrAt
  <2> HIDE DEF TurnInv, TestTurns, KeyTypes
  <2> QED
    BY <1>2, <2>1, <2>2, <2>3, MovesOnly
<1>6. Turn(t)'
  <2>1. ~InMutex(t)'
    BY <1>1, <1>3, <1>4 DEF InMutex
  <2>2. ~HandingOver(t) /\ ~HandingOver(t)'
    BY <1>1, <1>2 DEF HandingOver
  <2>3. StageAt(t, ip'[t]) = StageAt(t, ip[t])
    <3>1. ip[t] \notin IncrWaits(t)
      BY <1>1, ThreeTurns DEF IncrAt, IncrWaits
    <3> QED
      BY <3>1, <1>3, Stages
  <2>4. ip'[t] > IncrAt(t) /\ ip[t] > IncrAt(t) /\ ~(ip'[t] <= IncrAt(t))
    BY <1>1, <1>3, <1>4
  <2> QED
    BY <1>1, <1>2, <2>1, <2>2, <2>3, <2>4, ThreeTurns DEF Turn, Working
<1> QED
  BY <1>2, <1>5, <1>6, MovedTurns

LEMMA StageWaitTurns ==
    ASSUME TurnInv, ~sample, NEW t \in Threads, StageWait(t)
    PROVE  TurnInv'
<1> USE DEF TurnInv, TestTurns, KeyTypes
<1>1. t # Main /\ ip[t] = 2 /\ mode[t] = "run" /\ Turn(t)
  BY TestCalls DEF StageWait, Runs
<1>2. /\ mode' = [mode EXCEPT ![t] = "test"]
      /\ UNCHANGED <<sample, m, cv, test_stage, stage, ip>>
  BY DEF StageWait, Enter
<1>3. Moved(t) /\ ip'[t] = 2 /\ mode'[t] = "test" /\ stage'[t] = stage[t]
  <2>1. /\ ip' = [ip EXCEPT ![t] = ip[t]] /\ stage' = [stage EXCEPT ![t] = stage[t]]
        /\ m' \in Threads \cup {Nobody} /\ cv' \in SUBSET Threads /\ UNCHANGED sample
    BY <1>2
  <2>2. ip[t] \in 1..LastAt(t) + 1 /\ stage[t] \in Int
    BY <1>1, ThreeTurns DEF LastAt, IncrAt
  <2>3. ip[t] >= 1 /\ (t = Main => (ip[t] <= 18 <=> ip[t] <= 18))
    BY <1>1
  <2>4. Moved(t) /\ ip'[t] = ip[t] /\ mode'[t] = "test" /\ stage'[t] = stage[t]
    <3> HIDE DEF TurnInv, TestTurns, KeyTypes
    <3> QED
      BY <1>2, <2>1, <2>2, <2>3, MovesOnly
  <2> QED
    BY <1>1, <2>4
<1>4. Turn(t)'
  <2>1. InMutex(t)' <=> InMutex(t)
    BY <1>1, <1>3 DEF InMutex
  <2>2. ~HandingOver(t) /\ ~HandingOver(t)'
    BY <1>1, <1>3, ThreeTurns DEF HandingOver, IncrWaits
  <2>3. ~Working(t)'
    BY <1>3 DEF Working
  <2>4. ip'[t] = ip[t] /\ stage'[t] = stage[t] /\ m' = m /\ test_stage' = test_stage
    BY <1>1, <1>2, <1>3
  <2>5. stage'[t] = StageAt(t, ip'[t])
    <3>1. stage[t] = StageAt(t, ip[t]) + 0
      BY <1>1, <2>2 DEF Turn
    <3>2. StageAt(t, ip[t]) \in 0..14
      BY <1>1, Stages
    <3> QED
      BY <2>4, <3>1, <3>2
  <2>6. StageAt(t, ip'[t]) + 0 = StageAt(t, ip'[t])
    <3>1. ip'[t] \in 0..45
      BY <1>3
    <3>2. StageAt(t, ip'[t]) \in 0..14
      BY <3>1, Stages
    <3> QED
      BY <3>2
  <2> QED
    BY <1>1, <1>3, <2>1, <2>2, <2>3, <2>4, <2>5, <2>6 DEF Turn
<1> QED
  BY <1>2, <1>3, <1>4, MovedTurns

LEMMA StageIncrWaitTurns ==
    ASSUME TurnInv, ~sample, NEW t \in Threads, StageIncrWait(t)
    PROVE  TurnInv' /\ m = t /\ test_stage = stage[t] /\ test_stage' = test_stage + 1
<1> USE DEF TurnInv, TestTurns, KeyTypes
<1>1. ip[t] \in IncrWaits(t) /\ mode[t] = "run" /\ Turn(t)
  BY TestCalls DEF StageIncrWait, Runs
<1>2. /\ test_stage' = test_stage + 1 /\ cv' = {}
      /\ stage' = [stage EXCEPT ![t] = stage[t] + 3] /\ mode' = [mode EXCEPT ![t] = "test"]
      /\ UNCHANGED <<sample, m, ip>>
  BY DEF StageIncrWait, Enter, CondBroadcast
<1>3. ip[t] >= 3 /\ ip[t] < IncrAt(t) /\ ip[t] > LockAt(t) /\ ip[Main] >= 19
      /\ IncrAt(t) \in 27..42 /\ ip[t] \in 0..45
  BY <1>1, ThreeTurns DEF IncrWaits, IncrAt, LockAt
<1>4. m = t /\ test_stage = stage[t]
  <2>1. Working(t)
    BY <1>1, <1>3 DEF Working
  <2> QED
    BY <2>1, <1>3, WorkerHasMutex
<1>5. Moved(t) /\ ip'[t] = ip[t] /\ mode'[t] = "test" /\ stage'[t] = stage[t] + 3
  <2>1. /\ ip' = [ip EXCEPT ![t] = ip[t]]
        /\ m' \in Threads \cup {Nobody} /\ cv' \in SUBSET Threads /\ UNCHANGED sample
    BY <1>2
  <2>2. ip[t] \in 1..LastAt(t) + 1 /\ stage[t] + 3 \in Int
    BY <1>3, ThreeTurns DEF LastAt
  <2>3. ip[t] >= 1
    BY <1>3
  <2> HIDE DEF TurnInv, TestTurns, KeyTypes
  <2> QED
    BY <1>2, <2>1, <2>2, <2>3, MovesOnly
<1>6. ~HandingOver(t) /\ HandingOver(t)'
  BY <1>1, <1>5 DEF HandingOver
<1>7. stage[t] = StageAt(t, ip[t]) /\ stage[t] \in 0..14
  <2>1. StageAt(t, ip[t]) \in 0..14
    BY <1>3, Stages
  <2>2. stage[t] = StageAt(t, ip[t]) + 0
    BY <1>1, <1>6 DEF Turn
  <2> QED
    BY <2>1, <2>2
<1>8. Turn(t)'
  <2>1. InMutex(t)' <=> InMutex(t)
    BY <1>1, <1>5 DEF InMutex
  <2>2. ~Working(t)'
    BY <1>5 DEF Working
  <2>3. stage'[t] \in test_stage'..test_stage' + 2
    BY <1>2, <1>4, <1>5, <1>7
  <2>4. ~(ip'[t] > IncrAt(t))
    BY <1>3, <1>5
  <2> QED
    BY <1>1, <1>2, <1>5, <1>6, <1>7, <2>1, <2>2, <2>3, <2>4 DEF Turn
<1>9. test_stage' \in 0..15
  BY <1>2, <1>4, <1>7
<1>10. TurnInv'
  BY <1>2, <1>3, <1>4, <1>5, <1>8, <1>9, MovedTurns
<1> QED
  BY <1>2, <1>4, <1>10

LEMMA StageIncrTurns ==
    ASSUME TurnInv, ~sample, NEW t \in Threads, StageIncr(t)
    PROVE  TurnInv' /\ m = t /\ test_stage = stage[t] /\ test_stage' = test_stage + 1
<1> USE DEF TurnInv, TestTurns, KeyTypes
<1>1. ip[t] = IncrAt(t) /\ mode[t] = "run" /\ Turn(t)
  BY TestCalls DEF StageIncr, Runs
<1>2. /\ test_stage' = test_stage + 1 /\ cv' = {} /\ ip' = [ip EXCEPT ![t] = ip[t] + 1]
      /\ UNCHANGED <<sample, m, stage, mode>>
  BY DEF StageIncr, Advance, CondBroadcast
<1>3. ip[t] \in 27..42 /\ ip[t] > LockAt(t) /\ ip[Main] >= 19 /\ ip[t] + 1 <= LastAt(t)
      /\ LastAt(t) \in Int /\ LockAt(t) \in Int
  BY <1>1, ThreeTurns DEF IncrAt, LockAt, LastAt
<1>4. m = t /\ test_stage = stage[t]
  <2>1. Working(t)
    BY <1>1, <1>3 DEF Working
  <2> QED
    BY <2>1, <1>3, WorkerHasMutex
<1>5. Moved(t) /\ ip'[t] = ip[t] + 1 /\ mode'[t] = mode[t] /\ stage'[t] = stage[t]
  <2>1. /\ mode' = [mode EXCEPT ![t] = mode[t]] /\ stage' = [stage EXCEPT ![t] = stage[t]]
        /\ m' \in Threads \cup {Nobody} /\ cv' \in SUBSET Threads /\ UNCHANGED sample
    BY <1>2
  <2>2. ip[t] + 1 \in 1..LastAt(t) + 1 /\ stage[t] \in Int /\ mode[t] \in {"run", "test", "wait"}
    BY <1>3
  <2>3. ip[t] >= 1 /\ (ip[t] + 1 <= 18 <=> ip[t] <= 18)
    BY <1>3
  <2> HIDE DEF TurnInv, TestTurns, KeyTypes
  <2> QED
    BY <1>2, <2>1, <2>2, <2>3, MovesOnly
<1>6. ~HandingOver(t) /\ ~HandingOver(t)'
  BY <1>1, <1>5 DEF HandingOver
<1>7. ip[t] \notin IncrWaits(t)
  BY <1>1, ThreeTurns DEF IncrWaits, IncrAt
<1>8. stage[t] = StageAt(t, ip[t]) /\ stage[t] \in 0..14 /\ stage[t] = StageAt(t, ip[t] + 1)
  <2>1. StageAt(t, ip[t]) \in 0..14 /\ StageAt(t, ip[t]) = StageAt(t, ip[t] + 1)
    BY <1>3, <1>7, Stages
  <2>2. stage[t] = StageAt(t, ip[t]) + 0
    BY <1>1, <1>6 DEF Turn
  <2> QED
    BY <2>1, <2>2
<1>9. Turn(t)'
  <2>1. InMutex(t) /\ InMutex(t)'
    BY <1>1, <1>3, <1>5 DEF InMutex
  <2>2. ~Working(t)' /\ ip'[t] > IncrAt(t) /\ ~(ip'[t] <= IncrAt(t))
    BY <1>1, <1>3, <1>5 DEF Working
  <2>3. test_stage' > stage'[t]
    BY <1>2, <1>4, <1>5, <1>8
  <2> QED
    BY <1>1, <1>2, <1>4, <1>5, <1>6, <1>8, <2>1, <2>2, <2>3 DEF Turn
<1>10. test_stage' \in 0..15
  BY <1>2, <1>4, <1>8
<1>11. TurnInv'
  BY <1>2, <1>3, <1>4, <1>5, <1>9, <1>10, MovedTurns
<1> QED
  BY <1>2, <1>4, <1>11

LEMMA SleepTurns ==
    ASSUME TurnInv, ~sample, NEW t \in Threads, Sleep(t)
    PROVE  TurnInv'
<1> USE DEF TurnInv, TestTurns, KeyTypes
<1>1. mode[t] = "test" /\ Turn(t) /\ (ip[t] \in IncrWaits(t) \/ (t # Main /\ ip[t] = 2))
  BY DEF Sleep, Enter, Turn
<1>2. /\ mode' = [mode EXCEPT ![t] = "wait"] /\ m = t /\ m' = Nobody /\ cv' = cv \cup {t}
      /\ UNCHANGED <<sample, test_stage, stage, ip>>
  BY DEF Sleep, Enter, CondSleep, MutexUnlock
<1>3. Moved(t) /\ ip'[t] = ip[t] /\ mode'[t] = "wait" /\ stage'[t] = stage[t]
  <2>1. /\ ip' = [ip EXCEPT ![t] = ip[t]] /\ stage' = [stage EXCEPT ![t] = stage[t]]
        /\ m' \in Threads \cup {Nobody} /\ cv' \in SUBSET Threads /\ UNCHANGED sample
    BY <1>2
  <2>2. ip[t] \in 1..LastAt(t) + 1 /\ stage[t] \in Int
    BY <1>1, ThreeTurns DEF LastAt, IncrAt, IncrWaits
  <2>3. ip[t] >= 1
    BY <2>2, ThreeTurns DEF LastAt, IncrAt
  <2> HIDE DEF TurnInv, TestTurns, KeyTypes
  <2> QED
    BY <1>2, <2>1, <2>2, <2>3, MovesOnly
<1>4. Turn(t)'
  <2>1. ~InMutex(t)' /\ m' # t
    BY <1>2, <1>3, ThreeTurns DEF InMutex
  <2>2. HandingOver(t) <=> HandingOver(t)'
    BY <1>1, <1>3 DEF HandingOver
  <2>3. ~Working(t)'
    BY <1>3 DEF Working
  <2> QED
    BY <1>1, <1>2, <1>3, <2>1, <2>2, <2>3 DEF Turn
<1> QED
  BY <1>2, <1>3, <1>4, MovedTurns

LEMMA ResumeTurns ==
    ASSUME TurnInv, ~sample, NEW t \in Threads, Resume(t)
    PROVE  TurnInv'
<1> USE DEF TurnInv, TestTurns, KeyTypes
<1>1. mode[t] = "wait" /\ Turn(t) /\ (ip[t] \in IncrWaits(t) \/ (t # Main /\ ip[t] = 2))
  BY DEF Resume, Enter, Turn
<1>2. /\ mode' = [mode EXCEPT ![t] = "test"] /\ m = Nobody /\ m' = t
      /\ UNCHANGED <<sample, cv, test_stage, stage, ip>>
  BY DEF Resume, Enter, CondResume, MutexLock
<1>3. Moved(t) /\ ip'[t] = ip[t] /\ mode'[t] = "test" /\ stage'[t] = stage[t]
  <2>1. /\ ip' = [ip EXCEPT ![t] = ip[t]] /\ stage' = [stage EXCEPT ![t] = stage[t]]
        /\ m' \in Threads \cup {Nobody} /\ cv' \in SUBSET Threads /\ UNCHANGED sample
    BY <1>2
  <2>2. ip[t] \in 1..LastAt(t) + 1 /\ stage[t] \in Int
    BY <1>1, ThreeTurns DEF LastAt, IncrAt, IncrWaits
  <2>3. ip[t] >= 1
    BY <2>2, ThreeTurns DEF LastAt, IncrAt
  <2> HIDE DEF TurnInv, TestTurns, KeyTypes
  <2> QED
    BY <1>2, <2>1, <2>2, <2>3, MovesOnly
<1>4. Turn(t)'
  <2>1. InMutex(t)' /\ m' = t
    BY <1>1, <1>2, <1>3, ThreeTurns DEF InMutex, LockAt, IncrAt, IncrWaits
  <2>2. HandingOver(t) <=> HandingOver(t)'
    BY <1>1, <1>3 DEF HandingOver
  <2>3. ~Working(t)'
    BY <1>3 DEF Working
  <2> QED
    BY <1>1, <1>2, <1>3, <2>1, <2>2, <2>3 DEF Turn
<1> QED
  BY <1>2, <1>3, <1>4, MovedTurns

LEMMA ContinueTurns ==
    ASSUME TurnInv, ~sample, NEW t \in Threads, Continue(t)
    PROVE  TurnInv'
<1> USE DEF TurnInv, TestTurns, KeyTypes
<1>1. mode[t] = "test" /\ Turn(t) /\ (ip[t] \in IncrWaits(t) \/ (t # Main /\ ip[t] = 2))
  BY DEF Continue, Enter, Turn
<1>2. /\ mode' = [mode EXCEPT ![t] = "run"] /\ ip' = [ip EXCEPT ![t] = ip[t] + 1]
      /\ test_stage = stage[t]
      /\ UNCHANGED <<sample, m, cv, test_stage, stage>>
  BY DEF Continue, Enter, Advance
<1>3. /\ ip[t] \in 2..35 /\ ip[t] > LockAt(t) /\ ip[t] < IncrAt(t) /\ IncrAt(t) \in 27..42
      /\ LockAt(t) \in Int /\ IncrAt(t) <= LastAt(t) /\ LastAt(t) \in Int
      /\ t = Main => ip[t] >= 19
  BY <1>1, ThreeTurns DEF LastAt, IncrAt, IncrWaits, LockAt
<1>4. Moved(t) /\ ip'[t] = ip[t] + 1 /\ mode'[t] = "run" /\ stage'[t] = stage[t]
  <2>1. /\ stage' = [stage EXCEPT ![t] = stage[t]]
        /\ m' \in Threads \cup {Nobody} /\ cv' \in SUBSET Threads /\ UNCHANGED sample
    BY <1>2
  <2>2. ip[t] + 1 \in 1..LastAt(t) + 1 /\ stage[t] \in Int
    BY <1>3
  <2>3. ip[t] >= 1 /\ (t = Main => (ip[t] + 1 <= 18 <=> ip[t] <= 18))
    BY <1>3
  <2> HIDE DEF TurnInv, TestTurns, KeyTypes
  <2> QED
    BY <1>2, <2>1, <2>2, <2>3, MovesOnly
<1>5. stage[t] = StageAt(t, ip[t] + 1)
  <2>1. CASE ip[t] \in IncrWaits(t)
    BY <1>1, <1>3, <2>1, Stages DEF Turn, HandingOver
  <2>2. CASE ip[t] \notin IncrWaits(t)
    <3>1. stage[t] = StageAt(t, ip[t]) + 0
      BY <1>1, <2>2 DEF Turn, HandingOver
    <3>2. StageAt(t, ip[t]) = StageAt(t, ip[t] + 1) /\ StageAt(t, ip[t]) \in 0..14
      BY <1>3, <2>2, Stages
    <3> QED
      BY <3>1, <3>2
  <2> QED
    BY <2>1, <2>2
<1>6. Turn(t)'
  <2>1. InMutex(t) /\ InMutex(t)'
    BY <1>1, <1>3, <1>4 DEF InMutex
  <2>2. ~HandingOver(t)'
    BY <1>4 DEF HandingOver
  <2>3. StageAt(t, ip[t] + 1) \in 0..14
    BY <1>3, Stages
  <2>4. ~(ip'[t] > IncrAt(t)) /\ stage'[t] \in test_stage'..test_stage' + 2
    BY <1>2, <1>3, <1>4
  <2>5. stage'[t] = StageAt(t, ip'[t]) + 0
    BY <1>4, <1>5, <2>3
  <2>6. test_stage' = stage'[t] /\ m' = m /\ (m = t <=> InMutex(t))
    BY <1>1, <1>2, <1>4 DEF Turn
  <2> QED
    BY <1>4, <2>1, <2>2, <2>4, <2>5, <2>6 DEF Turn
<1> QED
  BY <1>2, <1>4, <1>6, MovedTurns

LEMMA WakeupTurns ==
    ASSUME TurnInv, ~sample, NEW t \in Threads, Wakeup(t)
    PROVE  TurnInv'
BY DEF TurnInv, TestTurns, KeyTypes, Wakeup, SpuriousWakeup, Turn, InMutex, HandingOver, Working

LEMMA CreateThreadsTurns ==
    ASSUME TurnInv, ~sample, CreateThreads
    PROVE  TurnInv'
<1> USE DEF TurnInv, TestTurns, KeyTypes
<1>1. ip[Main] = 18 /\ mode[Main] = "run" /\ ip[T1] = 0 /\ ip[T2] = 0
  <2>1. Main \in Threads /\ Runs(Main, "create_threads")
    BY ThreeTurns DEF CreateThreads
  <2> QED
    BY <2>1, TestCalls DEF Runs
<1>2. /\ ip' = [ip EXCEPT ![Main] = ip[Main] + 1, ![T1] = 1, ![T2] = 1]
      /\ UNCHANGED <<sample, m, cv, test_stage, stage, mode>>
  BY DEF CreateThreads, turns
<1>3. ip'[Main] = 19 /\ ip'[T1] = 1 /\ ip'[T2] = 1
  BY <1>1, <1>2, ThreeTurns
<1>4. mode[T1] = "run" /\ mode[T2] = "run"
  BY <1>1, ThreeTurns DEF Turn, IncrWaits
<1>5. ASSUME NEW t \in Threads
      PROVE  Turn(t)'
  <2>1. Turn(t)
    OBVIOUS
  <2>2. mode[t] = "run" /\ (InMutex(t)' <=> InMutex(t)) /\ ~HandingOver(t) /\ ~HandingOver(t)'
    BY <1>1, <1>2, <1>3, <1>4, ThreeTurns DEF InMutex, HandingOver, LockAt, IncrAt
  <2>3. StageAt(t, ip'[t]) = StageAt(t, ip[t])
    BY <1>1, <1>3, ThreeTurns DEF StageAt, Rounds
  <2>4. Working(t)' => Working(t)
    BY <1>1, <1>2, <1>3, ThreeTurns DEF Working, IncrAt
  <2>5. /\ ip'[t] <= IncrAt(t) /\ ip[t] <= IncrAt(t)
        /\ ~(ip'[t] > IncrAt(t)) /\ ~(ip[t] > IncrAt(t))
    BY <1>1, <1>3, ThreeTurns DEF IncrAt
  <2> QED
    BY <1>2, <2>1, <2>2, <2>3, <2>4, <2>5 DEF Turn
<1>6. KeyTypes'
  <2>1. ip' \in [Threads -> 0..45]
    <3>1. ip \in [Threads -> 0..45] /\ ip[Main] + 1 \in 0..45 /\ 1 \in 0..45
      BY <1>1
    <3> QED
      BY <3>1, <1>2
  <2> QED
    BY <1>2, <2>1
<1> QED
  BY <1>2, <1>3, <1>5, <1>6

LEMMA JoinTurns ==
    ASSUME TurnInv, ~sample, Join
    PROVE  TurnInv'
<1> USE DEF TurnInv, TestTurns, KeyTypes
<1>1. Main \in Threads /\ ip[Main] = 44 /\ mode[Main] = "run" /\ Turn(Main)
  BY ThreeTurns, TestCalls DEF Join, Runs
<1>2. /\ ip' = [ip EXCEPT ![Main] = ip[Main] + 1]
      /\ UNCHANGED <<sample, m, cv, test_stage, stage, mode>>
  BY DEF Join, Advance, turns
<1>3. Moved(Main) /\ ip'[Main] = 45 /\ mode'[Main] = mode[Main] /\ stage'[Main] = stage[Main]
  <2>1. /\ mode' = [mode EXCEPT ![Main] = mode[Main]] /\ stage' = [stage EXCEPT ![Main] = stage[Main]]
        /\ m' \in Threads \cup {Nobody} /\ cv' \in SUBSET Threads /\ UNCHANGED sample
    BY <1>2
  <2>2. 45 \in 1..LastAt(Main) + 1 /\ stage[Main] \in Int /\ mode[Main] \in {"run", "test", "wait"}
    BY <1>1 DEF LastAt
  <2>3. ip' = [ip EXCEPT ![Main] = 45] /\ ip[Main] >= 1 /\ (45 <= 18 <=> ip[Main] <= 18)
    BY <1>1, <1>2
  <2> QED
    BY <1>1, <2>1, <2>2, <2>3, MovesOnly
<1>4. Turn(Main)'
  <2>1. ~InMutex(Main) /\ ~InMutex(Main)' /\ ~Working(Main)'
    BY <1>1, <1>3 DEF InMutex, Working, IncrAt
  <2>2. ~HandingOver(Main) /\ ~HandingOver(Main)'
    BY <1>1, <1>3 DEF HandingOver
  <2>3. StageAt(Main, 45) = StageAt(Main, ip[Main])
    BY <1>1 DEF StageAt, Rounds
  <2>4. ip'[Main] > IncrAt(Main) /\ ip[Main] > IncrAt(Main) /\ ~(ip'[Main] <= IncrAt(Main))
    BY <1>1, <1>3 DEF IncrAt
  <2> QED
    BY <1>1, <1>2, <1>3, <2>1, <2>2, <2>3, <2>4 DEF Turn
<1> QED
  BY <1>1, <1>2, <1>3, <1>4, MovedTurns

\* The lists of the sample.
LEMMA SampleCalls ==
    /\ DOMAIN SampleMain = 1..6 /\ DOMAIN PthreadEntry = 1..3 /\ DOMAIN KthreadEntry = 1..3
    /\ SampleMain[1] = Create("key") /\ SampleMain[2] = Get("key", Null)
    /\ SampleMain[3] = Set("key", "tagM") /\ SampleMain[4] = Get("key", "tagM")
    /\ SampleMain[5] = Call("create_threads") /\ SampleMain[6] = Call("join")
    /\ PthreadEntry[1] = Get("key", Null) /\ PthreadEntry[2] = Set("key", "tagP")
    /\ PthreadEntry[3] = Get("key", "tagP")
    /\ KthreadEntry[1] = Get("key", Null) /\ KthreadEntry[2] = Set("key", "tagK")
    /\ KthreadEntry[3] = Get("key", "tagK")
BY DEF SampleMain, PthreadEntry, KthreadEntry, Use

SampleLast(t) == IF t = Main THEN 6 ELSE 3

LEMMA SamplePlaces ==
    ASSUME sample, NEW t \in Threads
    PROVE
      /\ DOMAIN Program(t) = 1..SampleLast(t)
      /\ \A op \in {"lock", "unlock", "stage_wait", "incr_wait", "incr"} : ~Runs(t, op)
      /\ Runs(t, "create_threads") => t = Main /\ ip[t] = 5
      /\ Runs(t, "join") => t = Main /\ ip[t] = 6
<1>1. CASE t = Main
  <2>1. Program(t) = SampleMain
    BY <1>1, ThreeTurns DEF Program, SamplePrograms
  <2>2. ip[t] \in 1..6 =>
            \/ ip[t] = 1 \/ ip[t] = 2 \/ ip[t] = 3 \/ ip[t] = 4 \/ ip[t] = 5 \/ ip[t] = 6
    OBVIOUS
  <2> QED
    BY <1>1, <2>1, <2>2, SampleCalls
    DEF Runs, Instruction, SampleLast, Do, Create, Set, Get, Call
<1>2. CASE t = T1
  <2>1. Program(t) = PthreadEntry
    BY <1>2, ThreeTurns DEF Program, SamplePrograms
  <2>2. ip[t] \in 1..3 => ip[t] = 1 \/ ip[t] = 2 \/ ip[t] = 3
    OBVIOUS
  <2> QED
    BY <1>2, <2>1, <2>2, SampleCalls, ThreeTurns
    DEF Runs, Instruction, SampleLast, Do, Set, Get
<1>3. CASE t = T2
  <2>1. Program(t) = KthreadEntry
    BY <1>3, ThreeTurns DEF Program, SamplePrograms
  <2>2. ip[t] \in 1..3 => ip[t] = 1 \/ ip[t] = 2 \/ ip[t] = 3
    OBVIOUS
  <2> QED
    BY <1>3, <2>1, <2>2, SampleCalls, ThreeTurns
    DEF Runs, Instruction, SampleLast, Do, Set, Get
<1> QED
  BY <1>1, <1>2, <1>3 DEF Threads

\* In the sample the only steps are those on the key and main's.
LEMMA SampleSteps ==
    ASSUME TurnInv, sample, Next
    PROVE  \/ \E t \in Threads : OnKeys(t) /\ ip[t] \in 1..SampleLast(t)
           \/ CreateThreads /\ ip[Main] = 5
           \/ Join /\ ip[Main] = 6
<1> USE DEF TurnInv, SampleTurns
<1>1. ASSUME NEW t \in Threads
      PROVE  ~OnStages(t) /\ ~Wakeup(t) /\ (OnKeys(t) => ip[t] \in 1..SampleLast(t))
  <2>1. \A op \in {"lock", "unlock", "stage_wait", "incr_wait", "incr"} : ~Runs(t, op)
    BY SamplePlaces
  <2>2. mode[t] = "run" /\ cv = {}
    OBVIOUS
  <2>3. ~OnStages(t)
    BY <2>1, <2>2 DEF OnStages, Lock, Unlock, StageWait, StageIncrWait, StageIncr, Sleep, Resume,
       Continue, Enter
  <2>4. ~Wakeup(t)
    BY <2>2 DEF Wakeup, SpuriousWakeup
  <2>5. OnKeys(t) => ip[t] \in 1..SampleLast(t)
    BY SamplePlaces DEF OnKeys, KeyCreate, KeyDelete, SetSpecific, GetSpecific, Runs
  <2> QED
    BY <2>3, <2>4, <2>5
<1>2. Main \in Threads
  BY ThreeTurns
<1> QED
  BY <1>1, <1>2, SamplePlaces DEF Next, CreateThreads, Join

LEMMA SampleNextTurns ==
    ASSUME TurnInv, sample, Next
    PROVE  TurnInv' /\ test_stage' = test_stage
<1> USE DEF TurnInv, SampleTurns, KeyTypes
<1>1. ASSUME NEW t \in Threads, OnKeys(t), ip[t] \in 1..SampleLast(t)
      PROVE  TurnInv' /\ test_stage' = test_stage
  <2>1. ip' = [ip EXCEPT ![t] = ip[t] + 1] /\ UNCHANGED turns
    BY <1>1 DEF OnKeys, KeyCreate, KeyDelete, SetSpecific, GetSpecific, Advance
  <2>2. ip[t] + 1 \in 0..45 /\ (IF t = Main THEN ip[t] + 1 \in 1..7 ELSE ip[t] + 1 \in 0..4)
    BY <1>1 DEF SampleLast
  <2> QED
    BY <2>1, <2>2, ThreeTurns DEF turns
<1>2. ASSUME CreateThreads, ip[Main] = 5
      PROVE  TurnInv' /\ test_stage' = test_stage
  <2>1. ip' = [ip EXCEPT ![Main] = 6, ![T1] = 1, ![T2] = 1] /\ UNCHANGED turns
    BY <1>2 DEF CreateThreads
  <2> QED
    BY <2>1, ThreeTurns DEF turns
<1>3. ASSUME Join, ip[Main] = 6
      PROVE  TurnInv' /\ test_stage' = test_stage
  <2>1. ip' = [ip EXCEPT ![Main] = 7] /\ UNCHANGED turns
    BY <1>3 DEF Join, Advance
  <2> QED
    BY <2>1, ThreeTurns DEF turns
<1> QED
  BY <1>1, <1>2, <1>3, SampleSteps

\* The stages pass from one thread to the next, and only its own thread ends one.
LEMMA NextTurns ==
    ASSUME TurnInv, Next
    PROVE  /\ TurnInv'
           /\ test_stage' # test_stage =>
                /\ test_stage' = test_stage + 1
                /\ \E t \in Threads : m = t /\ test_stage = stage[t] /\ ~sample
<1>1. CASE sample
  BY <1>1, SampleNextTurns
<1>2. CASE ~sample
  <2>1. ASSUME NEW t \in Threads, OnKeys(t)
        PROVE  TurnInv' /\ test_stage' = test_stage
    BY <1>2, <2>1, OnKeysTurns
    DEF OnKeys, KeyCreate, KeyDelete, SetSpecific, GetSpecific, turns
  <2>2. ASSUME NEW t \in Threads, Lock(t) \/ Unlock(t) \/ StageWait(t)
        PROVE  TurnInv' /\ test_stage' = test_stage
    BY <1>2, <2>2, LockTurns, UnlockTurns, StageWaitTurns DEF Lock, Unlock, StageWait
  <2>3. ASSUME NEW t \in Threads, StageIncrWait(t) \/ StageIncr(t)
        PROVE  TurnInv' /\ m = t /\ test_stage = stage[t] /\ test_stage' = test_stage + 1
    BY <1>2, <2>3, StageIncrWaitTurns, StageIncrTurns
  <2>4. ASSUME NEW t \in Threads, Sleep(t) \/ Resume(t) \/ Continue(t) \/ Wakeup(t)
        PROVE  TurnInv' /\ test_stage' = test_stage
    BY <1>2, <2>4, SleepTurns, ResumeTurns, ContinueTurns, WakeupTurns
    DEF Sleep, Resume, Continue, Wakeup
  <2>5. ASSUME CreateThreads \/ Join
        PROVE  TurnInv' /\ test_stage' = test_stage
    BY <1>2, <2>5, CreateThreadsTurns, JoinTurns DEF CreateThreads, Join, turns
  <2> QED
    BY <1>2, <2>1, <2>2, <2>3, <2>4, <2>5 DEF Next, OnStages
<1> QED
  BY <1>1, <1>2

LEMMA InitTurns == Init => TurnInv
<1> SUFFICES ASSUME Init PROVE TurnInv
  OBVIOUS
<1>1. /\ ip = [t \in Threads |-> IF t = Main THEN 1 ELSE 0]
      /\ mode = [t \in Threads |-> "run"] /\ m = Nobody /\ cv = {} /\ test_stage = 0
      /\ stage = [t \in Threads |-> FirstStage(t)] /\ sample \in BOOLEAN
  BY DEF Init, FirstStage
<1>2. ASSUME NEW t \in Threads
      PROVE  Turn(t)
  <2>1. mode[t] = "run" /\ ip[t] = (IF t = Main THEN 1 ELSE 0) /\ stage[t] = FirstStage(t)
    BY <1>1
  <2>2. ~InMutex(t) /\ m # t /\ ~HandingOver(t)
    BY <1>1, <2>1, ThreeTurns DEF InMutex, HandingOver, LockAt
  <2>3. StageAt(t, ip[t]) = FirstStage(t) /\ FirstStage(t) \in 0..2
    BY <2>1, ThreeTurns DEF StageAt, Rounds, FirstStage
  <2>4. Working(t) => t = Main
    BY <2>1 DEF Working
  <2>5. ip[t] <= IncrAt(t) /\ ~(ip[t] > IncrAt(t))
    BY <2>1 DEF IncrAt
  <2>6. stage[t] = StageAt(t, ip[t]) + 0 /\ stage[t] \in test_stage..test_stage + 2
    BY <1>1, <2>1, <2>3
  <2>7. Working(t) => test_stage = stage[t]
    <3>1. FirstStage(Main) = 0 /\ test_stage = 0
      BY <1>1, ThreeTurns DEF FirstStage
    <3> QED
      BY <2>1, <2>4, <3>1
  <2> QED
    BY <2>1, <2>2, <2>5, <2>6, <2>7 DEF Turn
<1>3. KeyTypes
  BY <1>1, ThreeTurns DEF KeyTypes, FirstStage
<1>4. ip[Main] = 1 /\ ip[T1] = 0 /\ ip[T2] = 0
  BY <1>1, ThreeTurns
<1>5. SampleTurns
  BY <1>1, <1>4 DEF SampleTurns
<1>6. TestTurns
  BY <1>2, <1>4 DEF TestTurns
<1> QED
  BY <1>1, <1>3, <1>5, <1>6 DEF TurnInv

LEMMA StayTurns == ASSUME TurnInv, UNCHANGED vars PROVE TurnInv'
BY DEF TurnInv, TestTurns, SampleTurns, KeyTypes, Turn, InMutex, HandingOver, Working, vars, turns

\* RoundRobin, for one step.
LEMMA WhoseTurn ==
    ASSUME TurnInv, ~sample, NEW t \in Threads, test_stage = stage[t]
    PROVE  t = CASE test_stage % 3 = 0 -> Main [] test_stage % 3 = 1 -> T1 [] OTHER -> T2
<1>1. ip[t] \in 0..45
  BY DEF TurnInv, KeyTypes
<1>2. PICK a \in {0, 3} : stage[t] = StageAt(t, ip[t]) + a
  BY DEF TurnInv, TestTurns, Turn
<1>3. PICK r \in 0..4 : StageAt(t, ip[t]) = FirstStage(t) + 3 * r
  BY <1>1, ThreeTurns DEF StageAt, Rounds
<1>4. FirstStage(t) \in 0..2
  BY DEF FirstStage
<1>5. test_stage % 3 = FirstStage(t)
  BY <1>2, <1>3, <1>4
<1> QED
  BY <1>5, ThreeTurns DEF FirstStage

LEMMA ImageTurns ==
    ASSUME TurnInv, [ImageNext]_imageVars
    PROVE  /\ TurnInv'
           /\ test_stage' # test_stage => test_stage' = test_stage + 1
                /\ \E t \in Threads : m = t /\ test_stage = stage[t] /\ ~sample
<1>1. CASE KeysStep
  BY <1>1, NextTurns DEF KeysStep
<1>2. CASE UNCHANGED vars
  BY <1>2, StayTurns DEF vars, turns
<1> QED
  BY <1>1, <1>2
  DEF ImageNext, ImageStep, InitCond, InitCondFails, DestroyCond, LeaveThreads, SuiteEnds,
      KthreadEnds, NextStep, GoOn, DetachedEnds, KthreadStep, OnceStep, Finished, imageVars

-----------------------------------------------------------------------------
(* Proofs: KeyStages, where the others are while one thread works           *)

\* A thread that is not in its turn waits for its next stage, or has ended.
LEMMA AnotherWaits ==
    ASSUME TurnInv, ~sample, NEW t \in Threads, Working(t), ip[Main] >= 19,
           NEW u \in Threads, u # t
    PROVE  /\ ip[u] <= IncrAt(u) =>
                \/ ip[u] \in IncrWaits(u) /\ stage[u] = StageAt(u, ip[u]) + 3
                \/ ip[u] \in {1, 2} /\ u # Main /\ stage[u] = FirstStage(u)
           /\ ip[u] <= IncrAt(u) => stage[u] = test_stage + 1 \/ stage[u] = test_stage + 2
           /\ ip[u] > IncrAt(u) => test_stage > StageAt(u, ip[u])
           /\ test_stage = StageAt(t, ip[t])
<1> USE DEF TurnInv, TestTurns, KeyTypes
<1>1. m = t /\ test_stage = stage[t]
  BY WorkerHasMutex
<1>2. Turn(t) /\ Turn(u)
  OBVIOUS
<1>3. mode[t] = "run" /\ ~HandingOver(t)
  BY DEF Working, HandingOver
<1>4. StageAt(t, ip[t]) \in 0..14 /\ StageAt(u, ip[u]) \in 0..14
  BY Stages
<1>5. test_stage = StageAt(t, ip[t])
  BY <1>1, <1>2, <1>3, <1>4 DEF Turn
<1>6. PICK b \in {0, 3} : stage[u] = StageAt(u, ip[u]) + b
  BY <1>2 DEF Turn
<1>7. stage[u] # test_stage
  <2>1. StageAt(t, ip[t]) + 0 # StageAt(u, ip[u]) + b
    BY <1>6, StagesApart
  <2> QED
    BY <2>1, <1>4, <1>5, <1>6
<1>8. ip[u] <= IncrAt(u) => stage[u] = test_stage + 1 \/ stage[u] = test_stage + 2
  BY <1>2, <1>7 DEF Turn
<1>9. ASSUME ip[u] <= IncrAt(u)
      PROVE  \/ ip[u] \in IncrWaits(u) /\ stage[u] = StageAt(u, ip[u]) + 3
             \/ ip[u] \in {1, 2} /\ u # Main /\ stage[u] = FirstStage(u)
  <2>1. ~InMutex(u)
    BY <1>1, <1>2 DEF Turn
  <2>2. ip[u] >= 1 /\ ip[u] \in Int
    BY ThreeTurns
  <2>3. CASE mode[u] = "run"
    <3>1. ip[u] <= LockAt(u)
      BY <1>9, <2>1, <2>2, <2>3, ThreeTurns DEF InMutex, LockAt, IncrAt
    <3>2. u # Main /\ ip[u] = 1
      BY <2>2, <3>1, ThreeTurns DEF LockAt
    <3>3. stage[u] = FirstStage(u)
      BY <1>2, <2>3, <3>2, ThreeTurns DEF Turn, StageAt, Rounds, HandingOver, FirstStage
    <3> QED
      BY <3>2, <3>3
  <2>4. CASE mode[u] # "run" /\ ip[u] \in IncrWaits(u)
    BY <1>2, <2>4 DEF Turn, HandingOver
  <2>5. CASE mode[u] # "run" /\ ip[u] \notin IncrWaits(u)
    <3>1. u # Main /\ ip[u] = 2
      BY <1>2, <2>5 DEF Turn
    <3>2. stage[u] = FirstStage(u)
      BY <1>2, <2>5, <3>1, ThreeTurns DEF Turn, StageAt, Rounds, HandingOver, FirstStage
    <3> QED
      BY <3>1, <3>2
  <2> QED
    BY <2>3, <2>4, <2>5
<1>10. ip[u] > IncrAt(u) => test_stage > StageAt(u, ip[u])
  <2>1. ASSUME ip[u] > IncrAt(u) PROVE ~HandingOver(u)
    BY <2>1, ThreeTurns DEF HandingOver, IncrWaits, IncrAt
  <2> QED
    BY <1>2, <1>4, <2>1 DEF Turn
<1> QED
  BY <1>5, <1>8, <1>9, <1>10

LEMMA WhileMainWorks ==
    ASSUME TurnInv, ~sample, Working(Main)
    PROVE  /\ ip[Main] <= 18 => ip[T1] = 0 /\ ip[T2] = 0
           /\ ip[Main] = 19 => ip[T1] \in 1..2 /\ ip[T2] \in 1..2
           /\ ip[Main] \in 20..26 => ip[T1] = 10 /\ ip[T2] = 10
           /\ ip[Main] = 27 => ip[T1] = 14 /\ ip[T2] = 14
           /\ ip[Main] \in 28..35 => ip[T1] = 18 /\ ip[T2] = 21
           /\ ip[Main] \in 36..42 => ip[T1] = 23 /\ ip[T2] = 22
<1> USE DEF TurnInv, TestTurns, KeyTypes
<1>1. CASE ip[Main] <= 18
  BY <1>1
<1>2. CASE ip[Main] >= 19
  <2>1. Main \in Threads /\ T1 \in Threads /\ T2 \in Threads /\ T1 # Main /\ T2 # Main
    BY ThreeTurns
  <2>2. /\ ip[T1] <= 28 =>
             \/ ip[T1] \in {10, 14, 18, 23} /\ stage[T1] = StageAt(T1, ip[T1]) + 3
             \/ ip[T1] \in {1, 2} /\ stage[T1] = 1
        /\ ip[T1] <= 28 => stage[T1] = test_stage + 1 \/ stage[T1] = test_stage + 2
        /\ ip[T1] > 28 => test_stage > StageAt(T1, ip[T1])
        /\ test_stage = StageAt(Main, ip[Main])
    BY <1>2, <2>1, ThreeTurns, AnotherWaits DEF IncrAt, IncrWaits, FirstStage
  <2>3. /\ ip[T2] <= 27 =>
             \/ ip[T2] \in {10, 14, 21, 22} /\ stage[T2] = StageAt(T2, ip[T2]) + 3
             \/ ip[T2] \in {1, 2} /\ stage[T2] = 2
        /\ ip[T2] <= 27 => stage[T2] = test_stage + 1 \/ stage[T2] = test_stage + 2
        /\ ip[T2] > 27 => test_stage > StageAt(T2, ip[T2])
    BY <1>2, <2>1, ThreeTurns, AnotherWaits DEF IncrAt, IncrWaits, FirstStage
  <2>4. ip[Main] <= 42 /\ ip[Main] \in Int /\ ip[T1] \in Int /\ ip[T2] \in Int
    BY <2>1 DEF Working, IncrAt
  <2> HIDE DEF TurnInv, TestTurns, KeyTypes
  <2> QED
    BY <1>2, <2>2, <2>3, <2>4, ThreeTurns DEF StageAt, Rounds, FirstStage
<1>3. ip[Main] \in Int
  OBVIOUS
<1> QED
  BY <1>1, <1>2, <1>3

LEMMA WhileThread1Works ==
    ASSUME TurnInv, ~sample, Working(T1)
    PROVE  /\ ip[T1] \in 3..10 => ip[Main] = 19 /\ ip[T2] \in 1..2
           /\ ip[T1] \in 11..14 => ip[Main] = 26 /\ ip[T2] = 10
           /\ ip[T1] \in 15..18 => ip[Main] = 27 /\ ip[T2] = 14
           /\ ip[T1] \in 19..23 => ip[Main] = 35 /\ ip[T2] = 21
           /\ ip[T1] \in 24..28 => ip[Main] >= 43 /\ ip[T2] = 22
<1> USE DEF TurnInv, TestTurns, KeyTypes
<1>1. Main \in Threads /\ T1 \in Threads /\ T2 \in Threads /\ T1 # Main /\ T1 # T2
  BY ThreeTurns
<1>2. ip[T1] \in 3..28 /\ ip[Main] \in 19..45 /\ ip[T2] \in Int
  BY <1>1 DEF Working, IncrAt
<1>3. /\ ip[Main] <= 42 =>
           ip[Main] \in {19, 26, 27, 35} /\ stage[Main] = StageAt(Main, ip[Main]) + 3
      /\ ip[Main] <= 42 => stage[Main] = test_stage + 1 \/ stage[Main] = test_stage + 2
      /\ ip[Main] > 42 => test_stage > StageAt(Main, ip[Main])
      /\ test_stage = StageAt(T1, ip[T1])
  <2>1. IncrAt(Main) = 42 /\ IncrWaits(Main) = {19, 26, 27, 35}
    BY ThreeTurns DEF IncrAt, IncrWaits
  <2> QED
    BY <1>1, <1>2, <2>1, AnotherWaits
<1>4. /\ ip[T2] <= 27 =>
           \/ ip[T2] \in {10, 14, 21, 22} /\ stage[T2] = StageAt(T2, ip[T2]) + 3
           \/ ip[T2] \in {1, 2} /\ stage[T2] = 2
      /\ ip[T2] <= 27 => stage[T2] = test_stage + 1 \/ stage[T2] = test_stage + 2
      /\ ip[T2] > 27 => test_stage > StageAt(T2, ip[T2])
  BY <1>1, <1>2, ThreeTurns, AnotherWaits DEF IncrAt, IncrWaits, FirstStage
<1> HIDE DEF TurnInv, TestTurns, KeyTypes
<1> QED
  BY <1>2, <1>3, <1>4, ThreeTurns DEF StageAt, Rounds, FirstStage

LEMMA WhileThread2Works ==
    ASSUME TurnInv, ~sample, Working(T2)
    PROVE  /\ ip[T2] \in 3..10 => ip[Main] = 19 /\ ip[T1] = 10
           /\ ip[T2] \in 11..14 => ip[Main] = 26 /\ ip[T1] = 14
           /\ ip[T2] \in 15..21 => ip[Main] = 27 /\ ip[T1] = 18
           /\ ip[T2] = 22 => ip[Main] = 35 /\ ip[T1] = 23
           /\ ip[T2] \in 23..27 => ip[Main] >= 43 /\ ip[T1] >= 29
<1> USE DEF TurnInv, TestTurns, KeyTypes
<1>1. Main \in Threads /\ T1 \in Threads /\ T2 \in Threads /\ T2 # Main /\ T2 # T1
  BY ThreeTurns
<1>2. ip[T2] \in 3..27 /\ ip[Main] \in 19..45 /\ ip[T1] \in Int
  BY <1>1 DEF Working, IncrAt
<1>3. /\ ip[Main] <= 42 =>
           ip[Main] \in {19, 26, 27, 35} /\ stage[Main] = StageAt(Main, ip[Main]) + 3
      /\ ip[Main] <= 42 => stage[Main] = test_stage + 1 \/ stage[Main] = test_stage + 2
      /\ ip[Main] > 42 => test_stage > StageAt(Main, ip[Main])
      /\ test_stage = StageAt(T2, ip[T2])
  <2>1. IncrAt(Main) = 42 /\ IncrWaits(Main) = {19, 26, 27, 35}
    BY ThreeTurns DEF IncrAt, IncrWaits
  <2> QED
    BY <1>1, <1>2, <2>1, AnotherWaits
<1>4. /\ ip[T1] <= 28 =>
           \/ ip[T1] \in {10, 14, 18, 23} /\ stage[T1] = StageAt(T1, ip[T1]) + 3
           \/ ip[T1] \in {1, 2} /\ stage[T1] = 1
      /\ ip[T1] <= 28 => stage[T1] = test_stage + 1 \/ stage[T1] = test_stage + 2
      /\ ip[T1] > 28 => test_stage > StageAt(T1, ip[T1])
  BY <1>1, <1>2, ThreeTurns, AnotherWaits DEF IncrAt, IncrWaits, FirstStage
<1> HIDE DEF TurnInv, TestTurns, KeyTypes
<1> QED
  BY <1>2, <1>3, <1>4, ThreeTurns DEF StageAt, Rounds, FirstStage

-----------------------------------------------------------------------------
(* Proofs: KeyStages, the effect of the calls on the keys                   *)

LEMMA Effects ==
    ASSUME NEW t \in Threads, OnKeys(t)
    PROVE  /\ ip' = [ip EXCEPT ![t] = ip[t] + 1] /\ UNCHANGED turns
           /\ \A k : Instruction(t) = Create(k) => \E j \in KeyIds :
                /\ FreshId(j) /\ id' = [id EXCEPT ![k] = j] /\ allocated' = allocated \cup {j}
                /\ specific' = [u \in Threads |-> [specific[u] EXCEPT ![j] = Null]]
           /\ \A k : Instruction(t) \in {Delete(k), DeleteFails(k)} =>
                allocated' = allocated \ {id[k]} /\ UNCHANGED <<id, specific>>
           /\ \A k, v : Instruction(t) = Set(k, v) =>
                /\ id[k] \in allocated /\ specific' = [specific EXCEPT ![t][id[k]] = v]
                /\ UNCHANGED <<id, allocated>>
           /\ \A k, v : Instruction(t) = Get(k, v) => UNCHANGED table
BY DEF OnKeys, KeyCreate, KeyDelete, SetSpecific, GetSpecific, Runs, Advance, Id, turns, table,
   Do, Create, Delete, DeleteFails, Set, Get

\* A new key gets the least id, or the one behind it.
LEMMA LowestId ==
    ASSUME NEW j \in KeyIds, FreshId(j)
    PROVE  /\ allocated = {} => j = 0
           /\ allocated = {0} => IsOther(j)
           /\ allocated \subseteq {0} => \A b \in KeyIds : IsOther(b) => j \in {0, b}
BY ImageAssumption DEF KeyAssumption, FreshId, IsOther

LEMMA OneOther ==
    ASSUME NEW a, NEW b, IsOther(a), IsOther(b)
    PROVE  a = b /\ a \in KeyIds /\ a # 0
BY ImageAssumption DEF KeyAssumption, IsOther

\* Whether a thread finds what it is checked for.
CheckHolds(t) ==
    /\ Runs(t, "get") => Specific(t) = Instruction(t).result
    /\ Runs(t, "set") => Id(t) \in allocated
    /\ Runs(t, "create") => KeyIds # allocated
    /\ Runs(t, "delete") => (Id(t) \in allocated <=> Instruction(t).result = "ok")

LEMMA Checks ==
    ASSUME NEW t
    PROVE  /\ \A k : Instruction(t) = Create(k) /\ KeyIds # allocated => CheckHolds(t)
           /\ \A k : Instruction(t) = Delete(k) /\ id[k] \in allocated => CheckHolds(t)
           /\ \A k : Instruction(t) = DeleteFails(k) /\ id[k] \notin allocated => CheckHolds(t)
           /\ \A k, v : Instruction(t) = Set(k, v) /\ id[k] \in allocated => CheckHolds(t)
           /\ \A k, v : Instruction(t) = Get(k, v) /\ id[k] \in allocated
                          /\ specific[t][id[k]] = v => CheckHolds(t)
           /\ \A k : Instruction(t) = Get(k, Null) /\ id[k] \notin allocated => CheckHolds(t)
           /\ \A op : Instruction(t) = Call(op) /\ op \notin {"create", "delete", "set", "get"}
                        => CheckHolds(t)
BY DEF CheckHolds, Runs, Id, Specific, Do, Create, Delete, DeleteFails, Set, Get, Call

-----------------------------------------------------------------------------
(* Proofs: KeyStages, every check holds                                     *)

LEMMA MainInstruction ==
    ASSUME ~sample, ip[Main] \in 1..44
    PROVE  Instruction(Main) = MainProgram[ip[Main]]
BY ThreeTurns DEF Instruction, Program, TestPrograms

LEMMA Thread1Instruction ==
    ASSUME ~sample, ip[T1] \in 1..29
    PROVE  Instruction(T1) = Thread1Program[ip[T1]]
BY ThreeTurns DEF Instruction, Program, TestPrograms

LEMMA Thread2Instruction ==
    ASSUME ~sample, ip[T2] \in 1..28
    PROVE  Instruction(T2) = Thread2Program[ip[T2]]
BY ThreeTurns DEF Instruction, Program, TestPrograms

LEMMA MainAlone ==
    ASSUME TestKeys, ~sample, ip[Main] \in 1..16, ip[T1] = 0, ip[T2] = 0,
           \E j \in KeyIds : j # 0
    PROVE  CheckHolds(Main)
<1>1. /\ id["key"] = 0 /\ (ip[Main] \in 2..5 \cup 9..16 => 0 \in allocated)
      /\ ip[Main] \in {1, 6, 7, 8} => allocated = {}
      /\ ip[Main] \in 4..8 \cup 11..16 => specific[Main][0] = "tagM"
      /\ ip[Main] \in {2, 3, 9, 10} => specific[Main][0] = Null
      /\ ip[Main] = 12 => allocated = {0}
  BY ThreeTurns DEF TestKeys, TestZero, TestOther, TestUnderZero
<1>2. ip[Main] >= 13 => id["key2"] \in allocated
                        /\ specific[Main][id["key2"]] = IF ip[Main] >= 15 THEN "tagM2" ELSE Null
  BY ThreeTurns DEF TestKeys, TestOther, TestUnderOther, Other
<1>3. KeyIds # {} /\ KeyIds # {0}
  OBVIOUS
<1>4. \/ ip[Main] = 1 \/ ip[Main] = 2 \/ ip[Main] = 3 \/ ip[Main] = 4 \/ ip[Main] = 5
      \/ ip[Main] = 6 \/ ip[Main] = 7 \/ ip[Main] = 8 \/ ip[Main] = 9 \/ ip[Main] = 10
      \/ ip[Main] = 11 \/ ip[Main] = 12 \/ ip[Main] = 13 \/ ip[Main] = 14 \/ ip[Main] = 15
      \/ ip[Main] = 16
  OBVIOUS
<1>5. Instruction(Main) = MainProgram[ip[Main]]
  BY MainInstruction
<1> QED
  BY <1>1, <1>2, <1>3, <1>4, <1>5, MainCalls, Checks

LEMMA MainSecondStage ==
    ASSUME TestKeys, ~sample, ip[Main] \in 20..25, ip[T1] = 10, ip[T2] = 10
    PROVE  CheckHolds(Main)
<1>1. /\ id["key"] = 0 /\ 0 \in allocated /\ specific[Main][0] = "tagM"
      /\ id["key2"] \in allocated <=> ip[Main] <= 22
      /\ specific[Main][id["key2"]] = "tagM2"
  <2>1. ip[Main] >= 13 /\ IsOther(Other) /\ Other # 0 /\ Other \in KeyIds
    BY OneOther DEF TestKeys
  <2> QED
    BY <2>1, ThreeTurns DEF TestKeys, TestZero, TestOther, TestUnderZero, TestUnderOther, Other
<1>2. \/ ip[Main] = 20 \/ ip[Main] = 21 \/ ip[Main] = 22 \/ ip[Main] = 23 \/ ip[Main] = 24
      \/ ip[Main] = 25
  OBVIOUS
<1>3. \/ ip[Main] = 20 /\ Instruction(Main) = Get("key", "tagM")
      \/ ip[Main] = 21 /\ Instruction(Main) = Get("key2", "tagM2")
      \/ ip[Main] = 22 /\ Instruction(Main) = Delete("key2")
      \/ ip[Main] = 23 /\ Instruction(Main) = DeleteFails("key2")
      \/ ip[Main] = 24 /\ Instruction(Main) = Get("key2", Null)
      \/ ip[Main] = 25 /\ Instruction(Main) = Get("key", "tagM")
  BY <1>2, MainInstruction, MainCalls
<1> QED
  BY <1>1, <1>3, Checks

LEMMA MainFourthStage ==
    ASSUME TestKeys, ~sample, ip[Main] \in 28..34, ip[T1] = 18, ip[T2] = 21, \E j \in KeyIds : j # 0
    PROVE  CheckHolds(Main)
<1>1. /\ id["key"] = (IF ip[Main] >= 32 THEN id["key2"] ELSE 0) /\ id["key2"] # 0
      /\ 0 \in allocated /\ specific[Main][0] = Null
      /\ id["key2"] \in allocated <=> ip[Main] \in 32..33
      /\ ip[Main] = 31 => allocated = {0}
      /\ ip[Main] >= 32 => specific[Main][id["key2"]] = Null
      /\ KeyIds # {0}
  <2>1. ip[Main] >= 13 /\ IsOther(Other) /\ Other # 0 /\ Other \in KeyIds
    BY OneOther DEF TestKeys
  <2> QED
    BY <2>1, ThreeTurns DEF TestKeys, TestZero, TestOther, TestUnderZero, TestUnderOther, Other
<1>2. \/ ip[Main] = 28 \/ ip[Main] = 29 \/ ip[Main] = 30 \/ ip[Main] = 31 \/ ip[Main] = 32
      \/ ip[Main] = 33 \/ ip[Main] = 34
  OBVIOUS
<1>3. \/ ip[Main] = 28 /\ Instruction(Main) = Get("key", Null)
      \/ ip[Main] = 29 /\ Instruction(Main) = DeleteFails("key2")
      \/ ip[Main] = 30 /\ Instruction(Main) = Get("key2", Null)
      \/ ip[Main] = 31 /\ Instruction(Main) = Create("key")
      \/ ip[Main] = 32 /\ Instruction(Main) = Get("key", Null)
      \/ ip[Main] = 33 /\ Instruction(Main) = Delete("key")
      \/ ip[Main] = 34 /\ Instruction(Main) = DeleteFails("key")
  BY <1>2, MainInstruction, MainCalls
<1> QED
  BY <1>1, <1>3, Checks

LEMMA MainLastStage ==
    ASSUME TestKeys, ~sample, ip[Main] \in 36..41, ip[T1] = 23, ip[T2] = 22
    PROVE  CheckHolds(Main)
<1>1. /\ id["key4"] = 0 /\ (0 \in allocated <=> ip[Main] <= 40) /\ specific[Main][0] = Null
      /\ id["key3"] \in allocated <=> ip[Main] <= 38
      /\ specific[Main][id["key3"]] = Null
  <2>1. ip[Main] >= 13 /\ IsOther(Other) /\ Other # 0 /\ Other \in KeyIds
    BY OneOther DEF TestKeys
  <2> QED
    BY <2>1, ThreeTurns DEF TestKeys, TestZero, TestOther, TestUnderZero, TestUnderOther, Other
<1>2. \/ ip[Main] = 36 \/ ip[Main] = 37 \/ ip[Main] = 38 \/ ip[Main] = 39 \/ ip[Main] = 40
      \/ ip[Main] = 41
  OBVIOUS
<1>3. \/ ip[Main] = 36 /\ Instruction(Main) = Get("key3", Null)
      \/ ip[Main] = 37 /\ Instruction(Main) = Get("key4", Null)
      \/ ip[Main] = 38 /\ Instruction(Main) = Delete("key3")
      \/ ip[Main] = 39 /\ Instruction(Main) = DeleteFails("key3")
      \/ ip[Main] = 40 /\ Instruction(Main) = Delete("key4")
      \/ ip[Main] = 41 /\ Instruction(Main) = DeleteFails("key4")
  BY <1>2, MainInstruction, MainCalls
<1> QED
  BY <1>1, <1>3, Checks

LEMMA Thread1FirstStage ==
    ASSUME TestKeys, ~sample, ip[T1] \in 3..9, ip[Main] = 19, ip[T2] \in 1..2
    PROVE  CheckHolds(T1)
<1>1. /\ id["key"] = 0 /\ 0 \in allocated /\ id["key2"] \in allocated
      /\ specific[T1][0] = IF ip[T1] >= 5 THEN "tagP" ELSE Null
      /\ specific[T1][id["key2"]] = IF ip[T1] >= 8 THEN "tagP2" ELSE Null
  <2>1. ip[Main] >= 13 /\ IsOther(Other) /\ Other # 0 /\ Other \in KeyIds
    BY OneOther DEF TestKeys
  <2> QED
    BY <2>1, ThreeTurns DEF TestKeys, TestZero, TestOther, TestUnderZero, TestUnderOther, Other
<1>2. \/ ip[T1] = 3 \/ ip[T1] = 4 \/ ip[T1] = 5 \/ ip[T1] = 6 \/ ip[T1] = 7
      \/ ip[T1] = 8 \/ ip[T1] = 9
  OBVIOUS
<1>3. \/ ip[T1] = 3 /\ Instruction(T1) = Get("key", Null)
      \/ ip[T1] = 4 /\ Instruction(T1) = Set("key", "tagP")
      \/ ip[T1] = 5 /\ Instruction(T1) = Get("key", "tagP")
      \/ ip[T1] = 6 /\ Instruction(T1) = Get("key2", Null)
      \/ ip[T1] = 7 /\ Instruction(T1) = Set("key2", "tagP2")
      \/ ip[T1] = 8 /\ Instruction(T1) = Get("key2", "tagP2")
      \/ ip[T1] = 9 /\ Instruction(T1) = Get("key", "tagP")
  BY <1>2, Thread1Instruction, Thread1Calls
<1> QED
  BY <1>1, <1>3, Checks

LEMMA Thread1SecondStage ==
    ASSUME TestKeys, ~sample, ip[T1] \in 11..13, ip[Main] = 26, ip[T2] = 10
    PROVE  CheckHolds(T1)
<1>1. /\ id["key"] = 0 /\ 0 \in allocated /\ id["key2"] \notin allocated
      /\ specific[T1][0] = "tagP"
  <2>1. ip[Main] >= 13 /\ IsOther(Other) /\ Other # 0 /\ Other \in KeyIds
    BY OneOther DEF TestKeys
  <2> QED
    BY <2>1, ThreeTurns DEF TestKeys, TestZero, TestOther, TestUnderZero, TestUnderOther, Other
<1>2. \/ ip[T1] = 11 \/ ip[T1] = 12 \/ ip[T1] = 13
  OBVIOUS
<1>3. \/ ip[T1] = 11 /\ Instruction(T1) = DeleteFails("key2")
      \/ ip[T1] = 12 /\ Instruction(T1) = Get("key2", Null)
      \/ ip[T1] = 13 /\ Instruction(T1) = Get("key", "tagP")
  BY <1>2, Thread1Instruction, Thread1Calls
<1> QED
  BY <1>1, <1>3, Checks

LEMMA Thread1ThirdStage ==
    ASSUME TestKeys, ~sample, ip[T1] \in 15..17, ip[Main] = 27, ip[T2] = 14
    PROVE  CheckHolds(T1)
<1>1. /\ id["key"] = 0 /\ (0 \in allocated <=> ip[T1] <= 15)
  <2>1. ip[Main] >= 13 /\ IsOther(Other) /\ Other # 0 /\ Other \in KeyIds
    BY OneOther DEF TestKeys
  <2> QED
    BY <2>1, ThreeTurns DEF TestKeys, TestZero, TestOther, TestUnderZero, TestUnderOther, Other
<1>2. \/ ip[T1] = 15 \/ ip[T1] = 16 \/ ip[T1] = 17
  OBVIOUS
<1>3. \/ ip[T1] = 15 /\ Instruction(T1) = Delete("key")
      \/ ip[T1] = 16 /\ Instruction(T1) = DeleteFails("key")
      \/ ip[T1] = 17 /\ Instruction(T1) = Get("key", Null)
  BY <1>2, Thread1Instruction, Thread1Calls
<1> QED
  BY <1>1, <1>3, Checks

LEMMA Thread1FourthStage ==
    ASSUME TestKeys, ~sample, ip[T1] \in 19..22, ip[Main] = 35, ip[T2] = 21, \E j \in KeyIds : j # 0
    PROVE  CheckHolds(T1)
<1>1. /\ ip[T1] = 19 => allocated = {0}
      /\ ip[T1] >= 20 => id["key3"] \in allocated
      /\ ip[T1] >= 20 => specific[T1][id["key3"]] = IF ip[T1] >= 22 THEN "tagP" ELSE Null
      /\ KeyIds # {0}
  <2>1. ip[Main] >= 13 /\ IsOther(Other) /\ Other # 0 /\ Other \in KeyIds
    BY OneOther DEF TestKeys
  <2> QED
    BY <2>1, ThreeTurns DEF TestKeys, TestZero, TestOther, TestUnderZero, TestUnderOther, Other
<1>2. \/ ip[T1] = 19 \/ ip[T1] = 20 \/ ip[T1] = 21 \/ ip[T1] = 22
  OBVIOUS
<1>3. \/ ip[T1] = 19 /\ Instruction(T1) = Create("key3")
      \/ ip[T1] = 20 /\ Instruction(T1) = Get("key3", Null)
      \/ ip[T1] = 21 /\ Instruction(T1) = Set("key3", "tagP")
      \/ ip[T1] = 22 /\ Instruction(T1) = Get("key3", "tagP")
  BY <1>2, Thread1Instruction, Thread1Calls
<1> QED
  BY <1>1, <1>3, Checks

LEMMA Thread1LastStage ==
    ASSUME TestKeys, ~sample, ip[T1] \in 24..27, ip[Main] \in 43..45, ip[T2] = 22
    PROVE  CheckHolds(T1)
<1>1. /\ id["key3"] \notin allocated /\ id["key4"] \notin allocated
  <2>1. ip[Main] >= 13 /\ IsOther(Other) /\ Other # 0 /\ Other \in KeyIds
    BY OneOther DEF TestKeys
  <2> QED
    BY <2>1, ThreeTurns DEF TestKeys, TestZero, TestOther, TestUnderZero, TestUnderOther, Other
<1>2. \/ ip[T1] = 24 \/ ip[T1] = 25 \/ ip[T1] = 26 \/ ip[T1] = 27
  OBVIOUS
<1>3. \/ ip[T1] = 24 /\ Instruction(T1) = DeleteFails("key3")
      \/ ip[T1] = 25 /\ Instruction(T1) = Get("key3", Null)
      \/ ip[T1] = 26 /\ Instruction(T1) = DeleteFails("key4")
      \/ ip[T1] = 27 /\ Instruction(T1) = Get("key4", Null)
  BY <1>2, Thread1Instruction, Thread1Calls
<1> QED
  BY <1>1, <1>3, Checks

LEMMA Thread2FirstStage ==
    ASSUME TestKeys, ~sample, ip[T2] \in 3..9, ip[Main] = 19, ip[T1] = 10
    PROVE  CheckHolds(T2)
<1>1. /\ id["key"] = 0 /\ 0 \in allocated /\ id["key2"] \in allocated
      /\ specific[T2][0] = IF ip[T2] >= 5 THEN "tagK" ELSE Null
      /\ specific[T2][id["key2"]] = IF ip[T2] >= 8 THEN "tagK2" ELSE Null
  <2>1. ip[Main] >= 13 /\ IsOther(Other) /\ Other # 0 /\ Other \in KeyIds
    BY OneOther DEF TestKeys
  <2> QED
    BY <2>1, ThreeTurns DEF TestKeys, TestZero, TestOther, TestUnderZero, TestUnderOther, Other
<1>2. \/ ip[T2] = 3 \/ ip[T2] = 4 \/ ip[T2] = 5 \/ ip[T2] = 6 \/ ip[T2] = 7
      \/ ip[T2] = 8 \/ ip[T2] = 9
  OBVIOUS
<1>3. \/ ip[T2] = 3 /\ Instruction(T2) = Get("key", Null)
      \/ ip[T2] = 4 /\ Instruction(T2) = Set("key", "tagK")
      \/ ip[T2] = 5 /\ Instruction(T2) = Get("key", "tagK")
      \/ ip[T2] = 6 /\ Instruction(T2) = Get("key2", Null)
      \/ ip[T2] = 7 /\ Instruction(T2) = Set("key2", "tagK2")
      \/ ip[T2] = 8 /\ Instruction(T2) = Get("key2", "tagK2")
      \/ ip[T2] = 9 /\ Instruction(T2) = Get("key", "tagK")
  BY <1>2, Thread2Instruction, Thread2Calls
<1> QED
  BY <1>1, <1>3, Checks

LEMMA Thread2SecondStage ==
    ASSUME TestKeys, ~sample, ip[T2] \in 11..13, ip[Main] = 26, ip[T1] = 14
    PROVE  CheckHolds(T2)
<1>1. /\ id["key"] = 0 /\ 0 \in allocated /\ id["key2"] \notin allocated
      /\ specific[T2][0] = "tagK"
  <2>1. ip[Main] >= 13 /\ IsOther(Other) /\ Other # 0 /\ Other \in KeyIds
    BY OneOther DEF TestKeys
  <2> QED
    BY <2>1, ThreeTurns DEF TestKeys, TestZero, TestOther, TestUnderZero, TestUnderOther, Other
<1>2. \/ ip[T2] = 11 \/ ip[T2] = 12 \/ ip[T2] = 13
  OBVIOUS
<1>3. \/ ip[T2] = 11 /\ Instruction(T2) = DeleteFails("key2")
      \/ ip[T2] = 12 /\ Instruction(T2) = Get("key2", Null)
      \/ ip[T2] = 13 /\ Instruction(T2) = Get("key", "tagK")
  BY <1>2, Thread2Instruction, Thread2Calls
<1> QED
  BY <1>1, <1>3, Checks

LEMMA Thread2ThirdStage ==
    ASSUME TestKeys, ~sample, ip[T2] \in 15..20, ip[Main] = 27, ip[T1] = 18
    PROVE  CheckHolds(T2)
<1>1. /\ id["key"] = 0 /\ id["key4"] = 0 /\ (0 \in allocated <=> ip[T2] >= 18)
      /\ ip[T2] = 17 => allocated = {}
      /\ ip[T2] >= 18 => specific[T2][0] = IF ip[T2] >= 20 THEN "tagK" ELSE Null
      /\ KeyIds # {}
  <2>1. ip[Main] >= 13 /\ IsOther(Other) /\ Other # 0 /\ Other \in KeyIds
    BY OneOther DEF TestKeys
  <2> QED
    BY <2>1, ThreeTurns DEF TestKeys, TestZero, TestOther, TestUnderZero, TestUnderOther, Other
<1>2. \/ ip[T2] = 15 \/ ip[T2] = 16 \/ ip[T2] = 17 \/ ip[T2] = 18 \/ ip[T2] = 19
      \/ ip[T2] = 20
  OBVIOUS
<1>3. \/ ip[T2] = 15 /\ Instruction(T2) = DeleteFails("key")
      \/ ip[T2] = 16 /\ Instruction(T2) = Get("key", Null)
      \/ ip[T2] = 17 /\ Instruction(T2) = Create("key4")
      \/ ip[T2] = 18 /\ Instruction(T2) = Get("key4", Null)
      \/ ip[T2] = 19 /\ Instruction(T2) = Set("key4", "tagK")
      \/ ip[T2] = 20 /\ Instruction(T2) = Get("key4", "tagK")
  BY <1>2, Thread2Instruction, Thread2Calls
<1> QED
  BY <1>1, <1>3, Checks

LEMMA Thread2LastStage ==
    ASSUME TestKeys, ~sample, ip[T2] \in 23..26, ip[Main] \in 43..45, ip[T1] \in 29..30
    PROVE  CheckHolds(T2)
<1>1. /\ id["key3"] \notin allocated /\ id["key4"] \notin allocated
  <2>1. ip[Main] >= 13 /\ IsOther(Other) /\ Other # 0 /\ Other \in KeyIds
    BY OneOther DEF TestKeys
  <2> QED
    BY <2>1, ThreeTurns DEF TestKeys, TestZero, TestOther, TestUnderZero, TestUnderOther, Other
<1>2. \/ ip[T2] = 23 \/ ip[T2] = 24 \/ ip[T2] = 25 \/ ip[T2] = 26
  OBVIOUS
<1>3. \/ ip[T2] = 23 /\ Instruction(T2) = DeleteFails("key3")
      \/ ip[T2] = 24 /\ Instruction(T2) = Get("key3", Null)
      \/ ip[T2] = 25 /\ Instruction(T2) = DeleteFails("key4")
      \/ ip[T2] = 26 /\ Instruction(T2) = Get("key4", Null)
  BY <1>2, Thread2Instruction, Thread2Calls
<1> QED
  BY <1>1, <1>3, Checks

LEMMA MainChecks ==
    ASSUME TurnInv, TestKeys, ~sample, \E j \in KeyIds : j # 0
    PROVE  CheckHolds(Main)
<1>0. ip[Main] \in 1..45 /\ Main \in Threads
  BY ThreeTurns DEF TurnInv, TestTurns
<1>1. CASE \E op \in {"create", "delete", "set", "get"} : Runs(Main, op)
  <2>1. OnKeyPlace(Main) /\ mode[Main] = "run" /\ ip[Main] \in 1..44
    BY <1>0, <1>1, TestCalls DEF LastAt
  <2>2. ip[Main] \in 1..16 \cup 20..25 \cup 28..34 \cup 36..41
    BY <2>1, ThreeTurns DEF OnKeyPlace, LockAt, IncrAt, IncrWaits
  <2>3. Working(Main)
    BY <2>1, <2>2, ThreeTurns DEF Working, IncrAt
  <2> QED
    BY <2>2, <2>3, WhileMainWorks, MainAlone, MainSecondStage, MainFourthStage, MainLastStage
<1>2. CASE \A op \in {"create", "delete", "set", "get"} : ~Runs(Main, op)
  BY <1>2 DEF CheckHolds
<1> QED
  BY <1>1, <1>2

LEMMA Thread1Checks ==
    ASSUME TurnInv, TestKeys, ~sample, \E j \in KeyIds : j # 0
    PROVE  CheckHolds(T1)
<1>0. ip[Main] \in 1..45 /\ T1 \in Threads /\ T1 # Main /\ (ip[T1] >= 1 => ip[Main] >= 19)
  BY ThreeTurns DEF TurnInv, TestTurns
<1>1. CASE \E op \in {"create", "delete", "set", "get"} : Runs(T1, op)
  <2>1. OnKeyPlace(T1) /\ mode[T1] = "run" /\ ip[T1] \in 1..29
    <3>1. LastAt(T1) = 29
      BY ThreeTurns DEF LastAt, IncrAt
    <3> QED
      BY <1>0, <1>1, <3>1, TestCalls
  <2>2. ip[T1] \in 3..9 \cup 11..13 \cup 15..17 \cup 19..22 \cup 24..27
    BY <2>1, ThreeTurns DEF OnKeyPlace, LockAt, IncrAt, IncrWaits
  <2>3. Working(T1)
    BY <2>1, <2>2, ThreeTurns DEF Working, IncrAt
  <2> QED
    BY <1>0, <2>2, <2>3, WhileThread1Works, Thread1FirstStage, Thread1SecondStage,
       Thread1ThirdStage, Thread1FourthStage, Thread1LastStage
<1>2. CASE \A op \in {"create", "delete", "set", "get"} : ~Runs(T1, op)
  BY <1>2 DEF CheckHolds
<1> QED
  BY <1>1, <1>2

LEMMA Thread2Checks ==
    ASSUME TurnInv, TestKeys, ~sample
    PROVE  CheckHolds(T2)
<1>0. /\ ip[Main] \in 1..45 /\ ip[T1] \in 0..30 /\ T2 \in Threads /\ T2 # Main
      /\ ip[T2] >= 1 => ip[Main] >= 19
  BY ThreeTurns DEF TurnInv, TestTurns
<1>1. CASE \E op \in {"create", "delete", "set", "get"} : Runs(T2, op)
  <2>1. OnKeyPlace(T2) /\ mode[T2] = "run" /\ ip[T2] \in 1..28
    <3>1. LastAt(T2) = 28
      BY ThreeTurns DEF LastAt, IncrAt
    <3> QED
      BY <1>0, <1>1, <3>1, TestCalls
  <2>2. ip[T2] \in 3..9 \cup 11..13 \cup 15..20 \cup 23..26
    BY <2>1, ThreeTurns DEF OnKeyPlace, LockAt, IncrAt, IncrWaits
  <2>3. Working(T2)
    BY <2>1, <2>2, ThreeTurns DEF Working, IncrAt
  <2> QED
    BY <1>0, <2>2, <2>3, WhileThread2Works, Thread2FirstStage, Thread2SecondStage,
       Thread2ThirdStage, Thread2LastStage
<1>2. CASE \A op \in {"create", "delete", "set", "get"} : ~Runs(T2, op)
  BY <1>2 DEF CheckHolds
<1> QED
  BY <1>1, <1>2

LEMMA SampleChecks ==
    ASSUME TurnInv, SampleKeys, sample, NEW t \in Threads
    PROVE  CheckHolds(t)
<1>0. /\ ip[Main] \in 1..7 /\ ip[T1] \in 0..4 /\ ip[T2] \in 0..4
      /\ KeyIds # {}
  BY ImageAssumption DEF TurnInv, SampleTurns, KeyAssumption
<1>1. CASE t = Main
  <2>1. Program(t) = SampleMain
    BY <1>1, ThreeTurns DEF Program, SamplePrograms
  <2>2. \/ ip[Main] = 1 \/ ip[Main] = 2 \/ ip[Main] = 3 \/ ip[Main] = 4 \/ ip[Main] = 5
        \/ ip[Main] = 6 \/ ip[Main] = 7
    BY <1>0
  <2>3. /\ id["key"] = 0 /\ allocated = (IF ip[Main] = 1 THEN {} ELSE {0})
        /\ specific[Main][0] = IF ip[Main] >= 4 THEN "tagM" ELSE Null
    BY DEF SampleKeys, Keys
  <2>4. ip[Main] \in 1..6 => Instruction(Main) = SampleMain[ip[Main]]
    BY <1>1, <2>1 DEF Instruction
  <2>5. ip[Main] = 7 => CheckHolds(Main)
    BY <1>1, <2>1, SampleCalls DEF CheckHolds, Runs
  <2>6. ASSUME ip[Main] \in 1..6
        PROVE  \/ ip[Main] = 1 /\ Instruction(Main) = Create("key")
               \/ ip[Main] = 2 /\ Instruction(Main) = Get("key", Null)
               \/ ip[Main] = 3 /\ Instruction(Main) = Set("key", "tagM")
               \/ ip[Main] = 4 /\ Instruction(Main) = Get("key", "tagM")
               \/ ip[Main] = 5 /\ Instruction(Main) = Call("create_threads")
               \/ ip[Main] = 6 /\ Instruction(Main) = Call("join")
    BY <2>2, <2>4, <2>6, SampleCalls
  <2>7. ip[Main] \in 1..6 => CheckHolds(Main)
    BY <1>0, <2>3, <2>6, Checks
  <2> QED
    BY <1>0, <1>1, <2>2, <2>5, <2>7
<1>2. CASE t = T1
  <2>1. Program(T1) = PthreadEntry
    BY ThreeTurns DEF Program, SamplePrograms
  <2>2. \/ ip[T1] = 0 \/ ip[T1] = 1 \/ ip[T1] = 2 \/ ip[T1] = 3 \/ ip[T1] = 4
    BY <1>0
  <2>3. ip[T1] \in 1..3 => /\ id["key"] = 0 /\ 0 \in allocated
                           /\ specific[T1][0] = IF ip[T1] >= 3 THEN "tagP" ELSE Null
    BY <1>0 DEF SampleKeys, Keys
  <2>4. ip[T1] \in 1..3 => Instruction(T1) = PthreadEntry[ip[T1]]
    BY <2>1 DEF Instruction
  <2>5. ip[T1] \notin 1..3 => CheckHolds(T1)
    BY <2>1, SampleCalls DEF CheckHolds, Runs
  <2>6. ip[T1] \in 1..3 => CheckHolds(T1)
    BY <2>2, <2>3, <2>4, SampleCalls, Checks
  <2> QED
    BY <1>2, <2>5, <2>6
<1>3. CASE t = T2
  <2>1. Program(T2) = KthreadEntry
    BY ThreeTurns DEF Program, SamplePrograms
  <2>2. \/ ip[T2] = 0 \/ ip[T2] = 1 \/ ip[T2] = 2 \/ ip[T2] = 3 \/ ip[T2] = 4
    BY <1>0
  <2>3. ip[T2] \in 1..3 => /\ id["key"] = 0 /\ 0 \in allocated
                           /\ specific[T2][0] = IF ip[T2] >= 3 THEN "tagK" ELSE Null
    BY <1>0 DEF SampleKeys, Keys
  <2>4. ip[T2] \in 1..3 => Instruction(T2) = KthreadEntry[ip[T2]]
    BY <2>1 DEF Instruction
  <2>5. ip[T2] \notin 1..3 => CheckHolds(T2)
    BY <2>1, SampleCalls DEF CheckHolds, Runs
  <2>6. ip[T2] \in 1..3 => CheckHolds(T2)
    BY <2>2, <2>3, <2>4, SampleCalls, Checks
  <2> QED
    BY <1>3, <2>5, <2>6
<1> QED
  BY <1>1, <1>2, <1>3 DEF Threads

-----------------------------------------------------------------------------
(* Proofs: KeyStages, the keys change as TestKeys says                      *)

\* The places of the calls behind which a key, or a value, is another.
Changing(t) ==
    CASE t = Main -> {1, 3, 5, 8, 10, 12, 14, 22, 31, 33, 38, 40}
      [] t = T1 -> {4, 7, 15, 19, 21}
      [] OTHER -> {4, 7, 17, 19}

\* Everywhere else a thread goes on and the keys stay as they are.
LEMMA QuietMain ==
    ASSUME TestKeys, ip[Main] \in 1..45, ip[T1] \in 0..30, ip[T2] \in 0..29, UNCHANGED table,
           ip[Main] \notin Changing(Main), ip'[Main] = ip[Main] + 1, ip'[T1] = ip[T1], ip'[T2] = ip[T2]
    PROVE  TestKeys'
<1>1. ip[Main] \notin {1, 3, 5, 8, 10, 12, 14, 22, 31, 33, 38, 40}
  BY ThreeTurns DEF Changing
<1>2. TestZero' <=> TestZero
  BY <1>1 DEF TestZero
<1>3. TestOther' <=> TestOther
  BY <1>1 DEF TestOther
<1>4. /\ TestUnderZero(Main)' = TestUnderZero(Main)
      /\ TestUnderZero(T1)' = TestUnderZero(T1)
      /\ TestUnderZero(T2)' = TestUnderZero(T2)
  BY <1>1, ThreeTurns DEF TestUnderZero
<1>5. /\ TestUnderOther(Main)' = TestUnderOther(Main)
      /\ TestUnderOther(T1)' = TestUnderOther(T1)
      /\ TestUnderOther(T2)' = TestUnderOther(T2)
  BY <1>1, ThreeTurns DEF TestUnderOther
<1>6. Other' = Other
  BY DEF Other, table
<1>7. /\ ip'[Main] <= 12 <=> ip[Main] <= 12
      /\ ip'[Main] >= 13 <=> ip[Main] >= 13
      /\ ip'[Main] >= 32 <=> ip[Main] >= 32
  BY <1>1
<1> QED
  BY <1>2, <1>3, <1>4, <1>5, <1>6, <1>7, ThreeTurns DEF TestKeys, table

LEMMA QuietThread1 ==
    ASSUME TestKeys, ip[Main] \in 1..45, ip[T1] \in 0..30, ip[T2] \in 0..29, UNCHANGED table,
           ip[T1] \notin Changing(T1), ip'[T1] = ip[T1] + 1, ip'[Main] = ip[Main], ip'[T2] = ip[T2]
    PROVE  TestKeys'
<1>1. ip[T1] \notin {4, 7, 15, 19, 21}
  BY ThreeTurns DEF Changing
<1>2. TestZero' <=> TestZero
  BY <1>1 DEF TestZero
<1>3. TestOther' <=> TestOther
  BY <1>1 DEF TestOther
<1>4. /\ TestUnderZero(Main)' = TestUnderZero(Main)
      /\ TestUnderZero(T1)' = TestUnderZero(T1)
      /\ TestUnderZero(T2)' = TestUnderZero(T2)
  BY <1>1, ThreeTurns DEF TestUnderZero
<1>5. /\ TestUnderOther(Main)' = TestUnderOther(Main)
      /\ TestUnderOther(T1)' = TestUnderOther(T1)
      /\ TestUnderOther(T2)' = TestUnderOther(T2)
  BY <1>1, ThreeTurns DEF TestUnderOther
<1>6. Other' = Other
  BY DEF Other, table
<1>7. ip'[T1] >= 20 <=> ip[T1] >= 20
  BY <1>1
<1> QED
  BY <1>2, <1>3, <1>4, <1>5, <1>6, <1>7, ThreeTurns DEF TestKeys, table

LEMMA QuietThread2 ==
    ASSUME TestKeys, ip[Main] \in 1..45, ip[T1] \in 0..30, ip[T2] \in 0..29, UNCHANGED table,
           ip[T2] \notin Changing(T2), ip'[T2] = ip[T2] + 1, ip'[Main] = ip[Main], ip'[T1] = ip[T1]
    PROVE  TestKeys'
<1>1. ip[T2] \notin {4, 7, 17, 19}
  BY ThreeTurns DEF Changing
<1>2. TestZero' <=> TestZero
  BY <1>1 DEF TestZero
<1>3. TestOther' <=> TestOther
  BY DEF TestOther
<1>4. /\ TestUnderZero(Main)' = TestUnderZero(Main)
      /\ TestUnderZero(T1)' = TestUnderZero(T1)
      /\ TestUnderZero(T2)' = TestUnderZero(T2)
  BY <1>1, ThreeTurns DEF TestUnderZero
<1>5. /\ TestUnderOther(Main)' = TestUnderOther(Main)
      /\ TestUnderOther(T1)' = TestUnderOther(T1)
      /\ TestUnderOther(T2)' = TestUnderOther(T2)
  BY <1>1, ThreeTurns DEF TestUnderOther
<1>6. Other' = Other
  BY DEF Other, table
<1> QED
  BY <1>2, <1>3, <1>4, <1>5, <1>6, ThreeTurns DEF TestKeys, table

LEMMA SamePlaces ==
    ASSUME TestKeys, UNCHANGED <<ip, table>>
    PROVE  TestKeys'
BY DEF TestKeys, TestZero, TestOther, TestUnderZero, TestUnderOther, Other, table

\* What there is to say of the keys when nothing has changed but one of them.
LEMMA MainFirstKey ==
    ASSUME TableTypes, TestKeys, ip[Main] \in {1, 8}, ip[T1] = 0, ip[T2] = 0,
           ip'[Main] = ip[Main] + 1, ip'[T1] = 0, ip'[T2] = 0,
           NEW j \in KeyIds, FreshId(j), id' = [id EXCEPT !["key"] = j],
           allocated' = allocated \cup {j},
           specific' = [u \in Threads |-> [specific[u] EXCEPT ![j] = Null]]
    PROVE  TestKeys'
<1>1. allocated = {} /\ j = 0
  BY ThreeTurns, LowestId DEF TestKeys, TestZero, TestOther
<1>2. id' = id /\ id["key"] = 0
  BY <1>1 DEF TestKeys, TableTypes
<1>3. 0 \in KeyIds
  BY <1>1
<1>4. \A t \in Threads : specific'[t][0] = Null
  BY <1>1, <1>3 DEF TableTypes
<1> QED
  BY <1>1, <1>2, <1>4, ThreeTurns DEF TestKeys, TestZero, TestOther, TestUnderZero

LEMMA MainDeletes ==
    ASSUME TestKeys, NEW k,
           \/ ip[Main] = 5 /\ ip[T1] = 0 /\ ip[T2] = 0 /\ k = "key"
           \/ ip[Main] = 22 /\ ip[T1] = 10 /\ ip[T2] = 10 /\ k = "key2"
           \/ ip[Main] = 33 /\ ip[T1] = 18 /\ ip[T2] = 21 /\ k = "key"
           \/ ip[Main] = 38 /\ ip[T1] = 23 /\ ip[T2] = 22 /\ k = "key3"
           \/ ip[Main] = 40 /\ ip[T1] = 23 /\ ip[T2] = 22 /\ k = "key4",
           ip'[Main] = ip[Main] + 1, ip'[T1] = ip[T1], ip'[T2] = ip[T2],
           allocated' = allocated \ {id[k]}, UNCHANGED <<id, specific>>
    PROVE  TestKeys'
<1>1. \A t \in Threads : TestUnderZero(t)' = TestUnderZero(t) /\ TestUnderOther(t)' = TestUnderOther(t)
  BY ThreeTurns DEF TestUnderZero, TestUnderOther
<1>2. ip[Main] >= 13 => Other # 0
  BY OneOther DEF TestKeys
<1>3. Other' = Other /\ (ip'[Main] <= 12 <=> ip[Main] <= 12)
      /\ (ip'[Main] >= 13 <=> ip[Main] >= 13) /\ (ip'[Main] >= 32 <=> ip[Main] >= 32)
  BY DEF Other
<1>4. allocated' = (IF TestZero' THEN {0} ELSE {}) \cup (IF TestOther' THEN {Other} ELSE {})
  <2>1. CASE ip[Main] = 5
    BY <2>1 DEF TestKeys, TestZero, TestOther
  <2>2. CASE ip[Main] = 22
    BY <1>2, <2>2 DEF TestKeys, TestZero, TestOther, Other
  <2>3. CASE ip[Main] = 33
    BY <1>2, <2>3 DEF TestKeys, TestZero, TestOther
  <2>4. CASE ip[Main] = 38
    BY <1>2, <2>4 DEF TestKeys, TestZero, TestOther
  <2>5. CASE ip[Main] = 40
    BY <1>2, <2>5 DEF TestKeys, TestZero, TestOther
  <2> QED
    BY <2>1, <2>2, <2>3, <2>4, <2>5
<1> QED
  BY <1>1, <1>3, <1>4, ThreeTurns DEF TestKeys

LEMMA Thread1Deletes ==
    ASSUME TestKeys, ip[Main] = 27, ip[T1] = 15, ip[T2] = 14,
           ip'[T1] = 16, ip'[Main] = ip[Main], ip'[T2] = ip[T2],
           allocated' = allocated \ {id["key"]}, UNCHANGED <<id, specific>>
    PROVE  TestKeys'
<1>1. \A t \in Threads : TestUnderZero(t)' = TestUnderZero(t) /\ TestUnderOther(t)' = TestUnderOther(t)
  BY ThreeTurns DEF TestUnderZero, TestUnderOther
<1>2. Other # 0 /\ Other' = Other
  BY OneOther DEF TestKeys, Other
<1>3. allocated' = {}
  BY <1>2 DEF TestKeys, TestZero, TestOther
<1>4. ~TestZero' /\ ~TestOther'
  BY DEF TestZero, TestOther
<1>5. /\ IsOther(Other)' /\ id["key"] = 0 /\ id["key3"] = 0 /\ id["key4"] = 0
      /\ \A t \in Threads : /\ specific[t][0] = TestUnderZero(t)
                           /\ specific[t][Other] = TestUnderOther(t)
  BY <1>2 DEF TestKeys, IsOther
<1> QED
  BY <1>1, <1>2, <1>3, <1>4, <1>5 DEF TestKeys

\* A thread sets a value: under the first id, or under the other one.
LEMMA SetsZero ==
    ASSUME TableTypes, TestKeys, 0 \in KeyIds, NEW t \in Threads, NEW v,
           specific' = [specific EXCEPT ![t][0] = v], UNCHANGED <<id, allocated>>,
           ip'[Main] <= 12 <=> ip[Main] <= 12, ip'[Main] >= 13 <=> ip[Main] >= 13,
           ip'[Main] >= 32 <=> ip[Main] >= 32, ip'[T1] >= 20 <=> ip[T1] >= 20,
           TestZero' <=> TestZero, TestOther' <=> TestOther,
           TestUnderZero(t)' = v,
           \A u \in Threads \ {t} : TestUnderZero(u)' = TestUnderZero(u),
           \A u \in Threads : TestUnderOther(u)' = TestUnderOther(u)
    PROVE  TestKeys'
<1>1. Other' = Other /\ (ip[Main] >= 13 => Other # 0)
  BY OneOther DEF Other, TestKeys
<1>2. \A u \in Threads : specific'[u][0] = IF u = t THEN v ELSE specific[u][0]
  BY DEF TableTypes
<1>3. ip[Main] >= 13 => \A u \in Threads : specific'[u][Other] = specific[u][Other]
  BY <1>1 DEF TableTypes
<1> QED
  BY <1>1, <1>2, <1>3 DEF TestKeys

LEMMA SetsOther ==
    ASSUME TableTypes, TestKeys, ip[Main] >= 13, 0 \in KeyIds, NEW t \in Threads, NEW v,
           specific' = [specific EXCEPT ![t][Other] = v], UNCHANGED <<id, allocated>>,
           ip'[Main] <= 12 <=> ip[Main] <= 12, ip'[Main] >= 13 <=> ip[Main] >= 13,
           ip'[Main] >= 32 <=> ip[Main] >= 32, ip'[T1] >= 20 <=> ip[T1] >= 20,
           TestZero' <=> TestZero, TestOther' <=> TestOther,
           TestUnderOther(t)' = v,
           \A u \in Threads \ {t} : TestUnderOther(u)' = TestUnderOther(u),
           \A u \in Threads : TestUnderZero(u)' = TestUnderZero(u)
    PROVE  TestKeys'
<1>1. Other' = Other /\ Other # 0 /\ Other \in KeyIds
  BY OneOther DEF Other, TestKeys
<1>2. \A u \in Threads : specific'[u][Other] = IF u = t THEN v ELSE specific[u][Other]
  BY <1>1 DEF TableTypes
<1>3. \A u \in Threads : specific'[u][0] = specific[u][0]
  BY <1>1 DEF TableTypes
<1> QED
  BY <1>1, <1>2, <1>3 DEF TestKeys

LEMMA MainSets ==
    ASSUME TableTypes, TestKeys, 0 \in KeyIds, NEW k, NEW v,
           \/ ip[Main] \in {3, 10} /\ k = "key" /\ v = "tagM"
           \/ ip[Main] = 14 /\ k = "key2" /\ v = "tagM2",
           ip[T1] = 0, ip[T2] = 0, ip'[Main] = ip[Main] + 1, ip'[T1] = 0, ip'[T2] = 0,
           specific' = [specific EXCEPT ![Main][id[k]] = v], UNCHANGED <<id, allocated>>
    PROVE  TestKeys'
<1>1. Main \in Threads /\ Threads \ {Main} = {T1, T2}
  BY ThreeTurns
<1>2. /\ ip'[Main] <= 12 <=> ip[Main] <= 12
      /\ ip'[Main] >= 13 <=> ip[Main] >= 13
      /\ ip'[Main] >= 32 <=> ip[Main] >= 32
      /\ ip'[T1] >= 20 <=> ip[T1] >= 20
  OBVIOUS
<1>3. (TestZero' <=> TestZero) /\ (TestOther' <=> TestOther)
  BY DEF TestZero, TestOther
<1>4. CASE ip[Main] \in {3, 10}
  <2>1. id[k] = 0
    BY <1>4 DEF TestKeys
  <2>2. TestUnderZero(Main)' = v
    BY <1>4, ThreeTurns DEF TestUnderZero
  <2>3. \A u \in Threads \ {Main} : TestUnderZero(u)' = TestUnderZero(u)
    BY <1>1, ThreeTurns DEF TestUnderZero
  <2>4. \A u \in Threads : TestUnderOther(u)' = TestUnderOther(u)
    BY <1>4, ThreeTurns DEF TestUnderOther
  <2> QED
    BY <1>1, <1>2, <1>3, <2>1, <2>2, <2>3, <2>4, SetsZero
<1>5. CASE ip[Main] = 14
  <2>1. id[k] = Other
    BY <1>5 DEF Other
  <2>2. TestUnderOther(Main)' = v
    BY <1>5, ThreeTurns DEF TestUnderOther
  <2>3. \A u \in Threads \ {Main} : TestUnderOther(u)' = TestUnderOther(u)
    BY <1>1, <1>5, ThreeTurns DEF TestUnderOther
  <2>4. \A u \in Threads : TestUnderZero(u)' = TestUnderZero(u)
    BY <1>5, ThreeTurns DEF TestUnderZero
  <2>5. ip[Main] >= 13 /\ specific' = [specific EXCEPT ![Main][Other] = v]
    BY <1>5, <2>1
  <2> QED
    BY <1>1, <1>2, <1>3, <2>2, <2>3, <2>4, <2>5, SetsOther
<1> QED
  BY <1>4, <1>5

LEMMA Thread1Sets ==
    ASSUME TableTypes, TestKeys, 0 \in KeyIds, NEW k, NEW v,
           \/ ip[T1] = 4 /\ k = "key" /\ v = "tagP" /\ ip[Main] = 19 /\ ip[T2] \in 1..2
           \/ ip[T1] = 7 /\ k = "key2" /\ v = "tagP2" /\ ip[Main] = 19 /\ ip[T2] \in 1..2
           \/ ip[T1] = 21 /\ k = "key3" /\ v = "tagP" /\ ip[Main] = 35 /\ ip[T2] = 21,
           ip'[T1] = ip[T1] + 1, ip'[Main] = ip[Main], ip'[T2] = ip[T2],
           specific' = [specific EXCEPT ![T1][id[k]] = v], UNCHANGED <<id, allocated>>
    PROVE  TestKeys'
<1>1. T1 \in Threads /\ Threads \ {T1} = {Main, T2} /\ ip[Main] >= 13
  BY ThreeTurns
<1>2. /\ ip'[Main] <= 12 <=> ip[Main] <= 12
      /\ ip'[Main] >= 13 <=> ip[Main] >= 13
      /\ ip'[Main] >= 32 <=> ip[Main] >= 32
      /\ ip'[T1] >= 20 <=> ip[T1] >= 20
  OBVIOUS
<1>3. (TestZero' <=> TestZero) /\ (TestOther' <=> TestOther)
  BY DEF TestZero, TestOther
<1>4. CASE ip[T1] = 4
  <2>1. id[k] = 0
    BY <1>4 DEF TestKeys
  <2>2. TestUnderZero(T1)' = v
    BY <1>4, ThreeTurns DEF TestUnderZero
  <2>3. \A u \in Threads \ {T1} : TestUnderZero(u)' = TestUnderZero(u)
    BY <1>1, <1>4, ThreeTurns DEF TestUnderZero
  <2>4. \A u \in Threads : TestUnderOther(u)' = TestUnderOther(u)
    BY <1>4, ThreeTurns DEF TestUnderOther
  <2> QED
    BY <1>1, <1>2, <1>3, <2>1, <2>2, <2>3, <2>4, SetsZero
<1>5. CASE ip[T1] \in {7, 21}
  <2>1. id[k] = Other
    BY <1>5 DEF TestKeys, Other
  <2>2. TestUnderOther(T1)' = v
    BY <1>5, ThreeTurns DEF TestUnderOther
  <2>3. \A u \in Threads \ {T1} : TestUnderOther(u)' = TestUnderOther(u)
    BY <1>1, <1>5, ThreeTurns DEF TestUnderOther
  <2>4. \A u \in Threads : TestUnderZero(u)' = TestUnderZero(u)
    BY <1>5, ThreeTurns DEF TestUnderZero
  <2> QED
    BY <1>1, <1>2, <1>3, <2>1, <2>2, <2>3, <2>4, SetsOther
<1> QED
  BY <1>4, <1>5

LEMMA Thread2Sets ==
    ASSUME TableTypes, TestKeys, 0 \in KeyIds, NEW k, NEW v,
           \/ ip[T2] = 4 /\ k = "key" /\ v = "tagK" /\ ip[Main] = 19 /\ ip[T1] = 10
           \/ ip[T2] = 7 /\ k = "key2" /\ v = "tagK2" /\ ip[Main] = 19 /\ ip[T1] = 10
           \/ ip[T2] = 19 /\ k = "key4" /\ v = "tagK" /\ ip[Main] = 27 /\ ip[T1] = 18,
           ip'[T2] = ip[T2] + 1, ip'[Main] = ip[Main], ip'[T1] = ip[T1],
           specific' = [specific EXCEPT ![T2][id[k]] = v], UNCHANGED <<id, allocated>>
    PROVE  TestKeys'
<1>1. T2 \in Threads /\ Threads \ {T2} = {Main, T1} /\ ip[Main] >= 13
  BY ThreeTurns
<1>2. /\ ip'[Main] <= 12 <=> ip[Main] <= 12
      /\ ip'[Main] >= 13 <=> ip[Main] >= 13
      /\ ip'[Main] >= 32 <=> ip[Main] >= 32
      /\ ip'[T1] >= 20 <=> ip[T1] >= 20
  OBVIOUS
<1>3. (TestZero' <=> TestZero) /\ (TestOther' <=> TestOther)
  BY DEF TestZero, TestOther
<1>4. CASE ip[T2] \in {4, 19}
  <2>1. id[k] = 0
    BY <1>4 DEF TestKeys
  <2>2. TestUnderZero(T2)' = v
    BY <1>4, ThreeTurns DEF TestUnderZero
  <2>3. \A u \in Threads \ {T2} : TestUnderZero(u)' = TestUnderZero(u)
    BY <1>1, <1>4, ThreeTurns DEF TestUnderZero
  <2>4. \A u \in Threads : TestUnderOther(u)' = TestUnderOther(u)
    BY <1>4, ThreeTurns DEF TestUnderOther
  <2> QED
    BY <1>1, <1>2, <1>3, <2>1, <2>2, <2>3, <2>4, SetsZero
<1>5. CASE ip[T2] = 7
  <2>1. id[k] = Other
    BY <1>5 DEF TestKeys, Other
  <2>2. TestUnderOther(T2)' = v
    BY <1>5, ThreeTurns DEF TestUnderOther
  <2>3. \A u \in Threads \ {T2} : TestUnderOther(u)' = TestUnderOther(u)
    BY <1>1, <1>5, ThreeTurns DEF TestUnderOther
  <2>4. \A u \in Threads : TestUnderZero(u)' = TestUnderZero(u)
    BY <1>5, ThreeTurns DEF TestUnderZero
  <2> QED
    BY <1>1, <1>2, <1>3, <2>1, <2>2, <2>3, <2>4, SetsOther
<1> QED
  BY <1>4, <1>5

\* A key is created: the first id stands for a key again, or the other one does.
LEMMA SecondKey ==
    ASSUME TableTypes, TestKeys, 0 \in KeyIds, ip[Main] = 12, ip[T1] = 0, ip[T2] = 0,
           ip'[Main] = 13, ip'[T1] = 0, ip'[T2] = 0,
           NEW j \in KeyIds, FreshId(j), id' = [id EXCEPT !["key2"] = j],
           allocated' = allocated \cup {j},
           specific' = [u \in Threads |-> [specific[u] EXCEPT ![j] = Null]]
    PROVE  TestKeys'
<1>1. allocated = {0} /\ TestZero' /\ TestOther'
  BY DEF TestKeys, TestZero, TestOther
<1>2. IsOther(j) /\ j # 0
  BY <1>1, LowestId, OneOther
<1>3. Other' = j /\ IsOther(Other)'
  BY <1>2 DEF Other, TableTypes, Keys, IsOther
<1>4. id'["key"] = 0 /\ id'["key3"] = 0 /\ id'["key4"] = 0
  BY DEF TestKeys, TableTypes, Keys
<1>5. \A t \in Threads : specific'[t][0] = specific[t][0] /\ specific'[t][j] = Null
  BY <1>2 DEF TableTypes
<1>6. \A t \in Threads : specific'[t][0] = TestUnderZero(t)' /\ specific'[t][j] = TestUnderOther(t)'
  BY <1>5, ThreeTurns DEF TestKeys, TestUnderZero, TestUnderOther
<1>7. allocated' = {0} \cup {Other'}
  BY <1>1, <1>3
<1>8. ~(ip'[Main] <= 12) /\ ~(ip'[Main] >= 32) /\ ~(ip'[T1] >= 20)
  OBVIOUS
<1> QED
  BY <1>1, <1>3, <1>4, <1>6, <1>7, <1>8 DEF TestKeys

LEMMA OtherAgain ==
    ASSUME TableTypes, TestKeys, 0 \in KeyIds, NEW k,
           \/ /\ ip[Main] = 31 /\ ip[T1] = 18 /\ ip[T2] = 21 /\ k = "key"
              /\ ip'[Main] = 32 /\ ip'[T1] = 18 /\ ip'[T2] = 21
           \/ /\ ip[T1] = 19 /\ ip[Main] = 35 /\ ip[T2] = 21 /\ k = "key3"
              /\ ip'[T1] = 20 /\ ip'[Main] = 35 /\ ip'[T2] = 21,
           NEW j \in KeyIds, FreshId(j), id' = [id EXCEPT ![k] = j],
           allocated' = allocated \cup {j},
           specific' = [u \in Threads |-> [specific[u] EXCEPT ![j] = Null]]
    PROVE  TestKeys'
<1>1. allocated = {0} /\ TestZero' /\ TestOther' /\ IsOther(Other)
  BY DEF TestKeys, TestZero, TestOther
<1>2. j = Other /\ j # 0
  BY <1>1, LowestId, OneOther
<1>3. Other' = Other /\ IsOther(Other)'
  BY <1>1 DEF Other, TableTypes, Keys, IsOther
<1>4. /\ id'["key"] = IF ip'[Main] >= 32 THEN Other ELSE 0
      /\ id'["key3"] = IF ip'[T1] >= 20 THEN Other ELSE 0
      /\ id'["key4"] = 0
  BY <1>2 DEF TestKeys, TableTypes, Keys
<1>5. \A t \in Threads : specific'[t][0] = specific[t][0] /\ specific'[t][j] = Null
  BY <1>2 DEF TableTypes
<1>6. \A t \in Threads : specific'[t][0] = TestUnderZero(t)' /\ specific'[t][j] = TestUnderOther(t)'
  BY <1>5, ThreeTurns DEF TestKeys, TestUnderZero, TestUnderOther
<1>7. allocated' = {0} \cup {Other'}
  BY <1>1, <1>2, <1>3
<1>8. ~(ip'[Main] <= 12)
  OBVIOUS
<1> QED
  BY <1>1, <1>2, <1>3, <1>4, <1>6, <1>7, <1>8 DEF TestKeys

LEMMA ZeroAgain ==
    ASSUME TableTypes, TestKeys, 0 \in KeyIds, ip[T2] = 17, ip[Main] = 27, ip[T1] = 18,
           ip'[T2] = 18, ip'[Main] = 27, ip'[T1] = 18,
           NEW j \in KeyIds, FreshId(j), id' = [id EXCEPT !["key4"] = j],
           allocated' = allocated \cup {j},
           specific' = [u \in Threads |-> [specific[u] EXCEPT ![j] = Null]]
    PROVE  TestKeys'
<1>1. allocated = {} /\ TestZero' /\ ~TestOther' /\ IsOther(Other)
  BY DEF TestKeys, TestZero, TestOther
<1>2. j = 0 /\ Other # 0 /\ Other \in KeyIds
  BY <1>1, LowestId, OneOther
<1>3. id' = id /\ Other' = Other /\ IsOther(Other)'
  BY <1>1, <1>2 DEF Other, TableTypes, TestKeys, Keys, IsOther
<1>4. \A t \in Threads : specific'[t][Other] = specific[t][Other] /\ specific'[t][0] = Null
  BY <1>2 DEF TableTypes
<1>5. \A t \in Threads : specific'[t][0] = TestUnderZero(t)' /\ specific'[t][Other] = TestUnderOther(t)'
  BY <1>4, ThreeTurns DEF TestKeys, TestUnderZero, TestUnderOther
<1> QED
  BY <1>1, <1>2, <1>3, <1>5 DEF TestKeys

LEMMA LooksOnly ==
    ASSUME NEW t \in Threads, OnKeys(t), CheckHolds(t), NEW k,
           Instruction(t) = DeleteFails(k) \/ \E v : Instruction(t) = Get(k, v)
    PROVE  UNCHANGED table
<1>1. CASE Instruction(t) = DeleteFails(k)
  <2>1. Runs(t, "delete")
    BY <1>1 DEF OnKeys, KeyCreate, KeyDelete, SetSpecific, GetSpecific, Runs, DeleteFails, Do
  <2>2. id[k] \notin allocated
    BY <1>1, <2>1 DEF CheckHolds, Id, DeleteFails, Do
  <2>3. allocated' = allocated \ {id[k]} /\ UNCHANGED <<id, specific>>
    BY <1>1, Effects
  <2> QED
    BY <2>2, <2>3 DEF table
<1>2. CASE \E v : Instruction(t) = Get(k, v)
  BY <1>2, Effects
<1> QED
  BY <1>1, <1>2

LEMMA MainChanges ==
    ASSUME ~sample, OnKeys(Main), ip[Main] \in 1..44
    PROVE  \/ ip[Main] \in {1, 8} /\ Instruction(Main) = Create("key")
           \/ ip[Main] = 12 /\ Instruction(Main) = Create("key2")
           \/ ip[Main] = 31 /\ Instruction(Main) = Create("key")
           \/ ip[Main] \in {3, 10} /\ Instruction(Main) = Set("key", "tagM")
           \/ ip[Main] = 14 /\ Instruction(Main) = Set("key2", "tagM2")
           \/ ip[Main] = 5 /\ Instruction(Main) = Delete("key")
           \/ ip[Main] = 22 /\ Instruction(Main) = Delete("key2")
           \/ ip[Main] = 33 /\ Instruction(Main) = Delete("key")
           \/ ip[Main] = 38 /\ Instruction(Main) = Delete("key3")
           \/ ip[Main] = 40 /\ Instruction(Main) = Delete("key4")
           \/ /\ ip[Main] \notin Changing(Main)
              /\ \E k : \/ Instruction(Main) = DeleteFails(k)
                        \/ \E v : Instruction(Main) = Get(k, v)
<1>1. \/ ip[Main] = 1 \/ ip[Main] = 2 \/ ip[Main] = 3 \/ ip[Main] = 4 \/ ip[Main] = 5
      \/ ip[Main] = 6 \/ ip[Main] = 7 \/ ip[Main] = 8 \/ ip[Main] = 9 \/ ip[Main] = 10
      \/ ip[Main] = 11 \/ ip[Main] = 12 \/ ip[Main] = 13 \/ ip[Main] = 14 \/ ip[Main] = 15
      \/ ip[Main] = 16 \/ ip[Main] = 17 \/ ip[Main] = 18 \/ ip[Main] = 19 \/ ip[Main] = 20
      \/ ip[Main] = 21 \/ ip[Main] = 22 \/ ip[Main] = 23 \/ ip[Main] = 24 \/ ip[Main] = 25
      \/ ip[Main] = 26 \/ ip[Main] = 27 \/ ip[Main] = 28 \/ ip[Main] = 29 \/ ip[Main] = 30
      \/ ip[Main] = 31 \/ ip[Main] = 32 \/ ip[Main] = 33 \/ ip[Main] = 34 \/ ip[Main] = 35
      \/ ip[Main] = 36 \/ ip[Main] = 37 \/ ip[Main] = 38 \/ ip[Main] = 39 \/ ip[Main] = 40
      \/ ip[Main] = 41 \/ ip[Main] = 42 \/ ip[Main] = 43 \/ ip[Main] = 44
  OBVIOUS
<1>2. Instruction(Main).op \in {"create", "delete", "set", "get"}
  BY DEF OnKeys, KeyCreate, KeyDelete, SetSpecific, GetSpecific, Runs
<1>3. \A op : Instruction(Main) = Call(op) => op \in {"create", "delete", "set", "get"}
  BY <1>2 DEF Call, Do
<1>4. Changing(Main) = {1, 3, 5, 8, 10, 12, 14, 22, 31, 33, 38, 40}
  BY ThreeTurns DEF Changing
<1> QED
  BY <1>1, <1>3, <1>4, MainInstruction, MainCalls DEF IncrWait

LEMMA Thread1Changes ==
    ASSUME ~sample, OnKeys(T1), ip[T1] \in 1..29
    PROVE  \/ ip[T1] = 4 /\ Instruction(T1) = Set("key", "tagP")
           \/ ip[T1] = 7 /\ Instruction(T1) = Set("key2", "tagP2")
           \/ ip[T1] = 15 /\ Instruction(T1) = Delete("key")
           \/ ip[T1] = 19 /\ Instruction(T1) = Create("key3")
           \/ ip[T1] = 21 /\ Instruction(T1) = Set("key3", "tagP")
           \/ /\ ip[T1] \notin Changing(T1)
              /\ \E k : \/ Instruction(T1) = DeleteFails(k)
                        \/ \E v : Instruction(T1) = Get(k, v)
<1>1. \/ ip[T1] = 1 \/ ip[T1] = 2 \/ ip[T1] = 3 \/ ip[T1] = 4 \/ ip[T1] = 5
      \/ ip[T1] = 6 \/ ip[T1] = 7 \/ ip[T1] = 8 \/ ip[T1] = 9 \/ ip[T1] = 10
      \/ ip[T1] = 11 \/ ip[T1] = 12 \/ ip[T1] = 13 \/ ip[T1] = 14 \/ ip[T1] = 15
      \/ ip[T1] = 16 \/ ip[T1] = 17 \/ ip[T1] = 18 \/ ip[T1] = 19 \/ ip[T1] = 20
      \/ ip[T1] = 21 \/ ip[T1] = 22 \/ ip[T1] = 23 \/ ip[T1] = 24 \/ ip[T1] = 25
      \/ ip[T1] = 26 \/ ip[T1] = 27 \/ ip[T1] = 28 \/ ip[T1] = 29
  OBVIOUS
<1>2. Instruction(T1).op \in {"create", "delete", "set", "get"}
  BY DEF OnKeys, KeyCreate, KeyDelete, SetSpecific, GetSpecific, Runs
<1>3. \A op : Instruction(T1) = Call(op) => op \in {"create", "delete", "set", "get"}
  BY <1>2 DEF Call, Do
<1>4. Changing(T1) = {4, 7, 15, 19, 21}
  BY ThreeTurns DEF Changing
<1> QED
  BY <1>1, <1>3, <1>4, Thread1Instruction, Thread1Calls DEF IncrWait

LEMMA Thread2Changes ==
    ASSUME ~sample, OnKeys(T2), ip[T2] \in 1..28
    PROVE  \/ ip[T2] = 4 /\ Instruction(T2) = Set("key", "tagK")
           \/ ip[T2] = 7 /\ Instruction(T2) = Set("key2", "tagK2")
           \/ ip[T2] = 17 /\ Instruction(T2) = Create("key4")
           \/ ip[T2] = 19 /\ Instruction(T2) = Set("key4", "tagK")
           \/ /\ ip[T2] \notin Changing(T2)
              /\ \E k : \/ Instruction(T2) = DeleteFails(k)
                        \/ \E v : Instruction(T2) = Get(k, v)
<1>1. \/ ip[T2] = 1 \/ ip[T2] = 2 \/ ip[T2] = 3 \/ ip[T2] = 4 \/ ip[T2] = 5
      \/ ip[T2] = 6 \/ ip[T2] = 7 \/ ip[T2] = 8 \/ ip[T2] = 9 \/ ip[T2] = 10
      \/ ip[T2] = 11 \/ ip[T2] = 12 \/ ip[T2] = 13 \/ ip[T2] = 14 \/ ip[T2] = 15
      \/ ip[T2] = 16 \/ ip[T2] = 17 \/ ip[T2] = 18 \/ ip[T2] = 19 \/ ip[T2] = 20
      \/ ip[T2] = 21 \/ ip[T2] = 22 \/ ip[T2] = 23 \/ ip[T2] = 24 \/ ip[T2] = 25
      \/ ip[T2] = 26 \/ ip[T2] = 27 \/ ip[T2] = 28
  OBVIOUS
<1>2. Instruction(T2).op \in {"create", "delete", "set", "get"}
  BY DEF OnKeys, KeyCreate, KeyDelete, SetSpecific, GetSpecific, Runs
<1>3. \A op : Instruction(T2) = Call(op) => op \in {"create", "delete", "set", "get"}
  BY <1>2 DEF Call, Do
<1>4. Changing(T2) = {4, 7, 17, 19}
  BY ThreeTurns DEF Changing
<1> QED
  BY <1>1, <1>3, <1>4, Thread2Instruction, Thread2Calls DEF IncrWait

LEMMA MainKeys ==
    ASSUME TurnInv, ~sample, TableTypes, TestKeys, OnKeys(Main), \E j \in KeyIds : j # 0
    PROVE  TestKeys'
<1>1. /\ ip[Main] \in 1..45 /\ ip[T1] \in 0..30 /\ ip[T2] \in 0..29 /\ 0 \in KeyIds
      /\ ip \in [Threads -> 0..45] /\ Main \in Threads
  BY ImageAssumption, ThreeTurns DEF KeyAssumption, TurnInv, TestTurns, KeyTypes
<1>2. OnKeyPlace(Main) /\ mode[Main] = "run" /\ ip[Main] \in 1..44
  <2>1. \E op \in {"create", "delete", "set", "get"} : Runs(Main, op)
    BY DEF OnKeys, KeyCreate, KeyDelete, SetSpecific, GetSpecific
  <2>2. LastAt(Main) = 44
    BY ThreeTurns DEF LastAt, IncrAt
  <2> QED
    BY <1>1, <2>1, <2>2, TestCalls
<1>3. Working(Main)
  BY <1>2, ThreeTurns DEF Working, OnKeyPlace, LockAt, IncrAt
<1>4. /\ ip'[Main] = ip[Main] + 1
      /\ \A u \in Threads : u # Main => ip'[u] = ip[u]
  BY <1>1, Effects
<1>5. ip'[T1] = ip[T1] /\ ip'[T2] = ip[T2]
  BY <1>4, ThreeTurns
<1>6. CASE ip[Main] \in {1, 8} /\ Instruction(Main) = Create("key")
  <2>1. ip[T1] = 0 /\ ip[T2] = 0
    BY <1>1, <1>2, <1>3, <1>6, WhileMainWorks
  <2>2. PICK j \in KeyIds :
            /\ FreshId(j) /\ id' = [id EXCEPT !["key"] = j] /\ allocated' = allocated \cup {j}
            /\ specific' = [u \in Threads |-> [specific[u] EXCEPT ![j] = Null]]
    BY <1>1, <1>6, Effects
  <2> QED
    BY <1>1, <1>4, <1>5, <1>6, <2>1, <2>2, MainFirstKey
<1>7. CASE ip[Main] = 12 /\ Instruction(Main) = Create("key2")
  <2>1. ip[T1] = 0 /\ ip[T2] = 0
    BY <1>1, <1>2, <1>3, <1>7, WhileMainWorks
  <2>2. PICK j \in KeyIds :
            /\ FreshId(j) /\ id' = [id EXCEPT !["key2"] = j] /\ allocated' = allocated \cup {j}
            /\ specific' = [u \in Threads |-> [specific[u] EXCEPT ![j] = Null]]
    BY <1>1, <1>7, Effects
  <2>3. ip'[Main] = 13 /\ ip'[T1] = 0 /\ ip'[T2] = 0
    BY <1>4, <1>5, <1>7, <2>1
  <2> QED
    BY <1>1, <1>7, <2>1, <2>2, <2>3, SecondKey
<1>8. CASE ip[Main] = 31 /\ Instruction(Main) = Create("key")
  <2>1. ip[T1] = 18 /\ ip[T2] = 21
    BY <1>1, <1>2, <1>3, <1>8, WhileMainWorks
  <2>2. PICK j \in KeyIds :
            /\ FreshId(j) /\ id' = [id EXCEPT !["key"] = j] /\ allocated' = allocated \cup {j}
            /\ specific' = [u \in Threads |-> [specific[u] EXCEPT ![j] = Null]]
    BY <1>1, <1>8, Effects
  <2>3. ip'[Main] = 32 /\ ip'[T1] = 18 /\ ip'[T2] = 21
    BY <1>4, <1>5, <1>8, <2>1
  <2> QED
    BY <1>1, <1>8, <2>1, <2>2, <2>3, OtherAgain
<1>9. CASE ip[Main] \in {3, 10} /\ Instruction(Main) = Set("key", "tagM")
  <2>1. ip[T1] = 0 /\ ip[T2] = 0
    BY <1>1, <1>2, <1>3, <1>9, WhileMainWorks
  <2>2. specific' = [specific EXCEPT ![Main][id["key"]] = "tagM"] /\ UNCHANGED <<id, allocated>>
    BY <1>1, <1>9, Effects
  <2> QED
    BY <1>1, <1>4, <1>5, <1>9, <2>1, <2>2, MainSets
<1>10. CASE ip[Main] = 14 /\ Instruction(Main) = Set("key2", "tagM2")
  <2>1. ip[T1] = 0 /\ ip[T2] = 0
    BY <1>1, <1>2, <1>3, <1>10, WhileMainWorks
  <2>2. specific' = [specific EXCEPT ![Main][id["key2"]] = "tagM2"] /\ UNCHANGED <<id, allocated>>
    BY <1>1, <1>10, Effects
  <2> QED
    BY <1>1, <1>4, <1>5, <1>10, <2>1, <2>2, MainSets
<1>11. CASE ip[Main] = 5 /\ Instruction(Main) = Delete("key")
  <2>1. ip[T1] = 0 /\ ip[T2] = 0
    BY <1>1, <1>2, <1>3, <1>11, WhileMainWorks
  <2>2. allocated' = allocated \ {id["key"]} /\ UNCHANGED <<id, specific>>
    BY <1>1, <1>11, Effects
  <2> QED
    BY <1>1, <1>4, <1>5, <1>11, <2>1, <2>2, MainDeletes
<1>12. CASE ip[Main] = 22 /\ Instruction(Main) = Delete("key2")
  <2>1. ip[T1] = 10 /\ ip[T2] = 10
    BY <1>1, <1>2, <1>3, <1>12, WhileMainWorks
  <2>2. allocated' = allocated \ {id["key2"]} /\ UNCHANGED <<id, specific>>
    BY <1>1, <1>12, Effects
  <2> QED
    BY <1>1, <1>4, <1>5, <1>12, <2>1, <2>2, MainDeletes
<1>13. CASE ip[Main] = 33 /\ Instruction(Main) = Delete("key")
  <2>1. ip[T1] = 18 /\ ip[T2] = 21
    BY <1>1, <1>2, <1>3, <1>13, WhileMainWorks
  <2>2. allocated' = allocated \ {id["key"]} /\ UNCHANGED <<id, specific>>
    BY <1>1, <1>13, Effects
  <2> QED
    BY <1>1, <1>4, <1>5, <1>13, <2>1, <2>2, MainDeletes
<1>14. CASE ip[Main] = 38 /\ Instruction(Main) = Delete("key3")
  <2>1. ip[T1] = 23 /\ ip[T2] = 22
    BY <1>1, <1>2, <1>3, <1>14, WhileMainWorks
  <2>2. allocated' = allocated \ {id["key3"]} /\ UNCHANGED <<id, specific>>
    BY <1>1, <1>14, Effects
  <2> QED
    BY <1>1, <1>4, <1>5, <1>14, <2>1, <2>2, MainDeletes
<1>15. CASE ip[Main] = 40 /\ Instruction(Main) = Delete("key4")
  <2>1. ip[T1] = 23 /\ ip[T2] = 22
    BY <1>1, <1>2, <1>3, <1>15, WhileMainWorks
  <2>2. allocated' = allocated \ {id["key4"]} /\ UNCHANGED <<id, specific>>
    BY <1>1, <1>15, Effects
  <2> QED
    BY <1>1, <1>4, <1>5, <1>15, <2>1, <2>2, MainDeletes
<1>16. CASE /\ ip[Main] \notin Changing(Main)
             /\ \E k : Instruction(Main) = DeleteFails(k) \/ \E v : Instruction(Main) = Get(k, v)
  <2>1. UNCHANGED table
    BY <1>1, <1>16, MainChecks, LooksOnly
  <2> QED
    BY <1>1, <1>4, <1>5, <1>16, <2>1, QuietMain
<1> QED
  BY <1>2, <1>6, <1>7, <1>8, <1>9, <1>10, <1>11, <1>12, <1>13, <1>14, <1>15, <1>16,
     MainChanges

LEMMA Thread1Keys ==
    ASSUME TurnInv, ~sample, TableTypes, TestKeys, OnKeys(T1), \E j \in KeyIds : j # 0
    PROVE  TestKeys'
<1>1. /\ ip[Main] \in 1..45 /\ ip[T1] \in 0..30 /\ ip[T2] \in 0..29 /\ 0 \in KeyIds
      /\ ip \in [Threads -> 0..45] /\ T1 \in Threads
  BY ImageAssumption, ThreeTurns DEF KeyAssumption, TurnInv, TestTurns, KeyTypes
<1>2. OnKeyPlace(T1) /\ mode[T1] = "run" /\ ip[T1] \in 1..29
  <2>1. \E op \in {"create", "delete", "set", "get"} : Runs(T1, op)
    BY DEF OnKeys, KeyCreate, KeyDelete, SetSpecific, GetSpecific
  <2>2. LastAt(T1) = 29
    BY ThreeTurns DEF LastAt, IncrAt
  <2> QED
    BY <1>1, <2>1, <2>2, TestCalls
<1>3. Working(T1)
  BY <1>2, ThreeTurns DEF Working, OnKeyPlace, LockAt, IncrAt
<1>4. /\ ip'[T1] = ip[T1] + 1
      /\ \A u \in Threads : u # T1 => ip'[u] = ip[u]
  BY <1>1, Effects
<1>5. ip'[Main] = ip[Main] /\ ip'[T2] = ip[T2]
  BY <1>4, ThreeTurns
<1>6. CASE ip[T1] = 4 /\ Instruction(T1) = Set("key", "tagP")
  <2>1. ip[Main] = 19 /\ ip[T2] \in 1..2
    BY <1>1, <1>2, <1>3, <1>6, WhileThread1Works
  <2>2. specific' = [specific EXCEPT ![T1][id["key"]] = "tagP"] /\ UNCHANGED <<id, allocated>>
    BY <1>1, <1>6, Effects
  <2> QED
    BY <1>1, <1>4, <1>5, <1>6, <2>1, <2>2, Thread1Sets
<1>7. CASE ip[T1] = 7 /\ Instruction(T1) = Set("key2", "tagP2")
  <2>1. ip[Main] = 19 /\ ip[T2] \in 1..2
    BY <1>1, <1>2, <1>3, <1>7, WhileThread1Works
  <2>2. specific' = [specific EXCEPT ![T1][id["key2"]] = "tagP2"] /\ UNCHANGED <<id, allocated>>
    BY <1>1, <1>7, Effects
  <2> QED
    BY <1>1, <1>4, <1>5, <1>7, <2>1, <2>2, Thread1Sets
<1>8. CASE ip[T1] = 15 /\ Instruction(T1) = Delete("key")
  <2>1. ip[Main] = 27 /\ ip[T2] = 14
    BY <1>1, <1>2, <1>3, <1>8, WhileThread1Works
  <2>2. allocated' = allocated \ {id["key"]} /\ UNCHANGED <<id, specific>>
    BY <1>1, <1>8, Effects
  <2> QED
    BY <1>1, <1>4, <1>5, <1>8, <2>1, <2>2, Thread1Deletes
<1>9. CASE ip[T1] = 19 /\ Instruction(T1) = Create("key3")
  <2>1. ip[Main] = 35 /\ ip[T2] = 21
    BY <1>1, <1>2, <1>3, <1>9, WhileThread1Works
  <2>2. PICK j \in KeyIds :
            /\ FreshId(j) /\ id' = [id EXCEPT !["key3"] = j] /\ allocated' = allocated \cup {j}
            /\ specific' = [u \in Threads |-> [specific[u] EXCEPT ![j] = Null]]
    BY <1>1, <1>9, Effects
  <2>3. ip'[T1] = 20 /\ ip'[Main] = 35 /\ ip'[T2] = 21
    BY <1>4, <1>5, <1>9, <2>1
  <2> QED
    BY <1>1, <1>9, <2>1, <2>2, <2>3, OtherAgain
<1>10. CASE ip[T1] = 21 /\ Instruction(T1) = Set("key3", "tagP")
  <2>1. ip[Main] = 35 /\ ip[T2] = 21
    BY <1>1, <1>2, <1>3, <1>10, WhileThread1Works
  <2>2. specific' = [specific EXCEPT ![T1][id["key3"]] = "tagP"] /\ UNCHANGED <<id, allocated>>
    BY <1>1, <1>10, Effects
  <2> QED
    BY <1>1, <1>4, <1>5, <1>10, <2>1, <2>2, Thread1Sets
<1>11. CASE /\ ip[T1] \notin Changing(T1)
             /\ \E k : Instruction(T1) = DeleteFails(k) \/ \E v : Instruction(T1) = Get(k, v)
  <2>1. UNCHANGED table
    BY <1>1, <1>11, Thread1Checks, LooksOnly
  <2> QED
    BY <1>1, <1>4, <1>5, <1>11, <2>1, QuietThread1
<1> QED
  BY <1>2, <1>6, <1>7, <1>8, <1>9, <1>10, <1>11, Thread1Changes

LEMMA Thread2Keys ==
    ASSUME TurnInv, ~sample, TableTypes, TestKeys, OnKeys(T2), \E j \in KeyIds : j # 0
    PROVE  TestKeys'
<1>1. /\ ip[Main] \in 1..45 /\ ip[T1] \in 0..30 /\ ip[T2] \in 0..29 /\ 0 \in KeyIds
      /\ ip \in [Threads -> 0..45] /\ T2 \in Threads
  BY ImageAssumption, ThreeTurns DEF KeyAssumption, TurnInv, TestTurns, KeyTypes
<1>2. OnKeyPlace(T2) /\ mode[T2] = "run" /\ ip[T2] \in 1..28
  <2>1. \E op \in {"create", "delete", "set", "get"} : Runs(T2, op)
    BY DEF OnKeys, KeyCreate, KeyDelete, SetSpecific, GetSpecific
  <2>2. LastAt(T2) = 28
    BY ThreeTurns DEF LastAt, IncrAt
  <2> QED
    BY <1>1, <2>1, <2>2, TestCalls
<1>3. Working(T2)
  BY <1>2, ThreeTurns DEF Working, OnKeyPlace, LockAt, IncrAt
<1>4. /\ ip'[T2] = ip[T2] + 1
      /\ \A u \in Threads : u # T2 => ip'[u] = ip[u]
  BY <1>1, Effects
<1>5. ip'[Main] = ip[Main] /\ ip'[T1] = ip[T1]
  BY <1>4, ThreeTurns
<1>6. CASE ip[T2] = 4 /\ Instruction(T2) = Set("key", "tagK")
  <2>1. ip[Main] = 19 /\ ip[T1] = 10
    BY <1>1, <1>2, <1>3, <1>6, WhileThread2Works
  <2>2. specific' = [specific EXCEPT ![T2][id["key"]] = "tagK"] /\ UNCHANGED <<id, allocated>>
    BY <1>1, <1>6, Effects
  <2> QED
    BY <1>1, <1>4, <1>5, <1>6, <2>1, <2>2, Thread2Sets
<1>7. CASE ip[T2] = 7 /\ Instruction(T2) = Set("key2", "tagK2")
  <2>1. ip[Main] = 19 /\ ip[T1] = 10
    BY <1>1, <1>2, <1>3, <1>7, WhileThread2Works
  <2>2. specific' = [specific EXCEPT ![T2][id["key2"]] = "tagK2"] /\ UNCHANGED <<id, allocated>>
    BY <1>1, <1>7, Effects
  <2> QED
    BY <1>1, <1>4, <1>5, <1>7, <2>1, <2>2, Thread2Sets
<1>8. CASE ip[T2] = 17 /\ Instruction(T2) = Create("key4")
  <2>1. ip[Main] = 27 /\ ip[T1] = 18
    BY <1>1, <1>2, <1>3, <1>8, WhileThread2Works
  <2>2. PICK j \in KeyIds :
            /\ FreshId(j) /\ id' = [id EXCEPT !["key4"] = j] /\ allocated' = allocated \cup {j}
            /\ specific' = [u \in Threads |-> [specific[u] EXCEPT ![j] = Null]]
    BY <1>1, <1>8, Effects
  <2>3. ip'[T2] = 18 /\ ip'[Main] = 27 /\ ip'[T1] = 18
    BY <1>4, <1>5, <1>8, <2>1
  <2> QED
    BY <1>1, <1>8, <2>1, <2>2, <2>3, ZeroAgain
<1>9. CASE ip[T2] = 19 /\ Instruction(T2) = Set("key4", "tagK")
  <2>1. ip[Main] = 27 /\ ip[T1] = 18
    BY <1>1, <1>2, <1>3, <1>9, WhileThread2Works
  <2>2. specific' = [specific EXCEPT ![T2][id["key4"]] = "tagK"] /\ UNCHANGED <<id, allocated>>
    BY <1>1, <1>9, Effects
  <2> QED
    BY <1>1, <1>4, <1>5, <1>9, <2>1, <2>2, Thread2Sets
<1>10. CASE /\ ip[T2] \notin Changing(T2)
             /\ \E k : Instruction(T2) = DeleteFails(k) \/ \E v : Instruction(T2) = Get(k, v)
  <2>1. UNCHANGED table
    BY <1>1, <1>10, Thread2Checks, LooksOnly
  <2> QED
    BY <1>1, <1>4, <1>5, <1>10, <2>1, QuietThread2
<1> QED
  BY <1>2, <1>6, <1>7, <1>8, <1>9, <1>10, Thread2Changes

LEMMA QuietStep ==
    ASSUME TurnInv, ~sample, TestKeys, NEW t \in Threads, Advance(t), UNCHANGED table,
           ip[t] \notin Changing(t)
    PROVE  TestKeys'
<1>1. /\ ip[Main] \in 1..45 /\ ip[T1] \in 0..30 /\ ip[T2] \in 0..29
      /\ ip \in [Threads -> 0..45]
  BY DEF TurnInv, TestTurns, KeyTypes
<1>2. ip'[t] = ip[t] + 1 /\ \A u \in Threads : u # t => ip'[u] = ip[u]
  BY <1>1 DEF Advance
<1>3. CASE t = Main
  BY <1>1, <1>2, <1>3, ThreeTurns, QuietMain
<1>4. CASE t = T1
  BY <1>1, <1>2, <1>4, ThreeTurns, QuietThread1
<1>5. CASE t = T2
  BY <1>1, <1>2, <1>5, ThreeTurns, QuietThread2
<1> QED
  BY <1>3, <1>4, <1>5 DEF Threads

LEMMA OnStagesKeys ==
    ASSUME TurnInv, ~sample, TestKeys, NEW t \in Threads, OnStages(t)
    PROVE  TestKeys'
<1>1. CASE Lock(t) \/ Unlock(t) \/ StageIncr(t) \/ Continue(t)
  <2>1. Advance(t) /\ UNCHANGED table
    BY <1>1 DEF Lock, Unlock, StageIncr, Continue
  <2>2. ip[t] \in IncrWaits(t) \cup {LockAt(t), IncrAt(t), IncrAt(t) + 1} \/ (t # Main /\ ip[t] = 2)
    BY <1>1, TestCalls DEF Lock, Unlock, StageIncr, Continue, Enter, TurnInv, TestTurns, Turn
  <2>3. ip[t] \notin Changing(t)
    BY <2>2, ThreeTurns DEF IncrWaits, LockAt, IncrAt, Changing
  <2> QED
    BY <2>1, <2>3, QuietStep
<1>2. CASE StageWait(t) \/ StageIncrWait(t) \/ Sleep(t) \/ Resume(t)
  BY <1>2, SamePlaces DEF StageWait, StageIncrWait, Sleep, Resume
<1> QED
  BY <1>1, <1>2 DEF OnStages

LEMMA CreateThreadsKeys ==
    ASSUME TurnInv, ~sample, TestKeys, CreateThreads
    PROVE  TestKeys'
<1>1. Main \in Threads /\ ip[Main] = 18 /\ ip[T1] = 0 /\ ip[T2] = 0 /\ ip \in [Threads -> 0..45]
  BY ThreeTurns, TestCalls DEF CreateThreads, TurnInv, TestTurns, KeyTypes
<1>2. ip'[Main] = 19 /\ ip'[T1] = 1 /\ ip'[T2] = 1 /\ UNCHANGED table
  BY <1>1, ThreeTurns DEF CreateThreads
<1>3. (TestZero' <=> TestZero) /\ (TestOther' <=> TestOther)
  BY <1>1, <1>2 DEF TestZero, TestOther
<1>4. \A t \in Threads : TestUnderZero(t)' = TestUnderZero(t) /\ TestUnderOther(t)' = TestUnderOther(t)
  BY <1>1, <1>2, ThreeTurns DEF TestUnderZero, TestUnderOther
<1>5. Other' = Other
  BY <1>2 DEF Other, table
<1> QED
  BY <1>1, <1>2, <1>3, <1>4, <1>5 DEF TestKeys, table

\* The values that are set are values.
SetsValue(t) == Instruction(t).op = "set" => Instruction(t).result \in Values

LEMMA TypesKept ==
    ASSUME TableTypes, NEW t \in Threads, OnKeys(t), SetsValue(t)
    PROVE  TableTypes'
<1>1. CASE KeyCreate(t)
  <2>1. PICK k \in KeyIds :
            /\ id' = [id EXCEPT ![Instruction(t).key] = k]
            /\ specific' = [u \in Threads |-> [specific[u] EXCEPT ![k] = Null]]
    BY <1>1 DEF KeyCreate
  <2>2. id' \in [Keys -> KeyIds]
    BY <2>1 DEF TableTypes
  <2>3. \A u \in Threads : [specific[u] EXCEPT ![k] = Null] \in [KeyIds -> Values \cup {Null}]
    BY DEF TableTypes
  <2> QED
    BY <2>1, <2>2, <2>3 DEF TableTypes
<1>2. CASE KeyDelete(t) \/ GetSpecific(t)
  BY <1>2 DEF KeyDelete, GetSpecific, TableTypes, table
<1>3. CASE SetSpecific(t)
  BY <1>3 DEF SetSpecific, Runs, SetsValue, TableTypes
<1> QED
  BY <1>1, <1>2, <1>3 DEF OnKeys

LEMMA TestTypes ==
    ASSUME TurnInv, ~sample, TableTypes, NEW t \in Threads, OnKeys(t)
    PROVE  TableTypes'
<1>1. ip[t] \in 1..LastAt(t)
  <2>1. \E op \in {"create", "delete", "set", "get"} : Runs(t, op)
    BY DEF OnKeys, KeyCreate, KeyDelete, SetSpecific, GetSpecific
  <2> QED
    BY <2>1, TestCalls
<1>2. /\ \A k, v : Set(k, v).result = v /\ Get(k, v).op # "set"
      /\ \A k : Create(k).op # "set" /\ Delete(k).op # "set" /\ DeleteFails(k).op # "set"
  BY DEF Set, Create, Delete, DeleteFails, Get, Do
<1>3. {"tagM", "tagM2", "tagP", "tagP2", "tagK", "tagK2"} = Values
  BY DEF Values
<1>4. CASE t = Main
  <2>1. ip[Main] \in 1..44
    BY <1>1, <1>4 DEF LastAt
  <2> QED
    BY <1>2, <1>3, <1>4, <2>1, MainChanges, TypesKept DEF SetsValue
<1>5. CASE t = T1
  <2>1. ip[T1] \in 1..29
    BY <1>1, <1>5, ThreeTurns DEF LastAt, IncrAt
  <2> QED
    BY <1>2, <1>3, <1>5, <2>1, Thread1Changes, TypesKept DEF SetsValue
<1>6. CASE t = T2
  <2>1. ip[T2] \in 1..28
    BY <1>1, <1>6, ThreeTurns DEF LastAt, IncrAt
  <2> QED
    BY <1>2, <1>3, <1>6, <2>1, Thread2Changes, TypesKept DEF SetsValue
<1> QED
  BY <1>4, <1>5, <1>6 DEF Threads

-----------------------------------------------------------------------------
(* Proofs: KeyStages, the one key of the sample                             *)

LEMMA SampleInstructions ==
    ASSUME sample, NEW t \in Threads, OnKeys(t), ip[t] \in 1..SampleLast(t)
    PROVE  \/ t = Main /\ ip[t] = 1 /\ Instruction(t) = Create("key")
           \/ t = Main /\ ip[t] = 3 /\ Instruction(t) = Set("key", "tagM")
           \/ t = T1 /\ ip[t] = 2 /\ Instruction(t) = Set("key", "tagP")
           \/ t = T2 /\ ip[t] = 2 /\ Instruction(t) = Set("key", "tagK")
           \/ /\ IF t = Main THEN ip[t] \in {2, 4} ELSE ip[t] \in {1, 3}
              /\ \E v : Instruction(t) = Get("key", v)
<1>1. Instruction(t).op \in {"create", "delete", "set", "get"}
  BY DEF OnKeys, KeyCreate, KeyDelete, SetSpecific, GetSpecific, Runs
<1>2. \A op : Instruction(t) = Call(op) => op \in {"create", "delete", "set", "get"}
  BY <1>1 DEF Call, Do
<1>3. CASE t = Main
  <2>1. \/ ip[t] = 1 \/ ip[t] = 2 \/ ip[t] = 3 \/ ip[t] = 4 \/ ip[t] = 5 \/ ip[t] = 6
    BY <1>3 DEF SampleLast
  <2>2. Instruction(t) = SampleMain[ip[t]]
    BY <1>3, ThreeTurns DEF Instruction, Program, SamplePrograms
  <2> QED
    BY <1>2, <1>3, <2>1, <2>2, SampleCalls
<1>4. CASE t = T1
  <2>1. \/ ip[t] = 1 \/ ip[t] = 2 \/ ip[t] = 3
    BY <1>4, ThreeTurns DEF SampleLast
  <2>2. Instruction(t) = PthreadEntry[ip[t]]
    BY <1>4, ThreeTurns DEF Instruction, Program, SamplePrograms
  <2> QED
    BY <1>4, <2>1, <2>2, SampleCalls, ThreeTurns
<1>5. CASE t = T2
  <2>1. \/ ip[t] = 1 \/ ip[t] = 2 \/ ip[t] = 3
    BY <1>5, ThreeTurns DEF SampleLast
  <2>2. Instruction(t) = KthreadEntry[ip[t]]
    BY <1>5, ThreeTurns DEF Instruction, Program, SamplePrograms
  <2> QED
    BY <1>5, <2>1, <2>2, SampleCalls, ThreeTurns
<1> QED
  BY <1>3, <1>4, <1>5 DEF Threads

LEMMA SampleOnKeys ==
    ASSUME TurnInv, sample, TableTypes, SampleKeys, NEW t \in Threads, OnKeys(t),
           ip[t] \in 1..SampleLast(t)
    PROVE  SampleKeys' /\ TableTypes'
<1>1. /\ ip[Main] \in 1..7 /\ ip[T1] \in 0..4 /\ ip[T2] \in 0..4 /\ 0 \in KeyIds
      /\ ip \in [Threads -> 0..45]
  BY ImageAssumption DEF KeyAssumption, TurnInv, SampleTurns, KeyTypes
<1>2. ip'[t] = ip[t] + 1 /\ \A u \in Threads : u # t => ip'[u] = ip[u]
  BY <1>1, Effects
<1>3. TableTypes'
  <2>1. /\ \A k, v : Set(k, v).result = v /\ Get(k, v).op # "set"
        /\ \A k : Create(k).op # "set"
    BY DEF Set, Create, Get, Do
  <2>2. {"tagM", "tagP", "tagK"} \subseteq Values
    BY DEF Values
  <2>3. SetsValue(t)
    BY <2>1, <2>2, SampleInstructions DEF SetsValue
  <2> QED
    BY <2>3, TypesKept
<1>4. id["key"] = 0
  BY DEF SampleKeys, Keys
<1>5. CASE t = Main /\ ip[t] = 1 /\ Instruction(t) = Create("key")
  <2>1. PICK j \in KeyIds :
            /\ FreshId(j) /\ id' = [id EXCEPT !["key"] = j] /\ allocated' = allocated \cup {j}
            /\ specific' = [u \in Threads |-> [specific[u] EXCEPT ![j] = Null]]
    BY <1>5, Effects
  <2>2. allocated = {} /\ j = 0
    BY <1>5, <2>1, LowestId DEF SampleKeys
  <2>3. id' = id
    BY <1>4, <2>1, <2>2 DEF TableTypes
  <2>4. \A u \in Threads : specific'[u][0] = Null
    BY <1>1, <2>1, <2>2 DEF TableTypes
  <2> QED
    BY <1>2, <1>3, <1>5, <2>1, <2>2, <2>3, <2>4, ThreeTurns DEF SampleKeys
<1>6. ASSUME NEW v, Instruction(t) = Set("key", v),
             \/ t = Main /\ ip[t] = 3 /\ v = "tagM"
             \/ t = T1 /\ ip[t] = 2 /\ v = "tagP"
             \/ t = T2 /\ ip[t] = 2 /\ v = "tagK"
      PROVE  SampleKeys'
  <2>1. specific' = [specific EXCEPT ![t][0] = v] /\ UNCHANGED <<id, allocated>>
    BY <1>4, <1>6, Effects
  <2>2. \A u \in Threads : specific'[u][0] = IF u = t THEN v ELSE specific[u][0]
    BY <1>1, <2>1 DEF TableTypes
  <2> QED
    BY <1>1, <1>2, <1>6, <2>1, <2>2, ThreeTurns DEF SampleKeys
<1>7. CASE /\ IF t = Main THEN ip[t] \in {2, 4} ELSE ip[t] \in {1, 3}
           /\ \E v : Instruction(t) = Get("key", v)
  <2>1. UNCHANGED table
    BY <1>7, Effects
  <2> QED
    BY <1>1, <1>2, <1>3, <1>7, <2>1, ThreeTurns DEF SampleKeys, table
<1> QED
  BY <1>3, <1>5, <1>6, <1>7, SampleInstructions

-----------------------------------------------------------------------------
(* Proofs: KeyStages, always                                                *)

LEMMA SampleNextKeys ==
    ASSUME TurnInv, KeyInv, sample, Next
    PROVE  KeyInv'
<1>1. TableTypes /\ SampleKeys
  BY DEF KeyInv
<1>2. /\ ip[Main] \in 1..7 /\ ip[T1] \in 0..4 /\ ip[T2] \in 0..4 /\ ip \in [Threads -> 0..45]
  BY DEF TurnInv, SampleTurns, KeyTypes
<1>3. ASSUME NEW t \in Threads, OnKeys(t), ip[t] \in 1..SampleLast(t)
      PROVE  KeyInv'
  <2>1. sample' = sample
    BY <1>3, Effects DEF turns
  <2> QED
    BY <1>1, <1>3, <2>1, SampleOnKeys DEF KeyInv
<1>4. ASSUME CreateThreads, ip[Main] = 5
      PROVE  KeyInv'
  <2>1. ip'[Main] = 6 /\ ip'[T1] = 1 /\ ip'[T2] = 1 /\ UNCHANGED <<sample, id, allocated, specific>>
    BY <1>2, <1>4, ThreeTurns DEF CreateThreads, turns, table
  <2> QED
    BY <1>1, <1>2, <1>4, <2>1 DEF KeyInv, TableTypes, SampleKeys
<1>5. ASSUME Join, ip[Main] = 6
      PROVE  KeyInv'
  <2>1. /\ ip'[Main] = 7 /\ ip'[T1] = ip[T1] /\ ip'[T2] = ip[T2]
        /\ UNCHANGED <<sample, id, allocated, specific>>
    BY <1>2, <1>5, ThreeTurns DEF Join, Advance, turns, table
  <2> QED
    BY <1>1, <1>2, <1>5, <2>1 DEF KeyInv, TableTypes, SampleKeys
<1> QED
  BY <1>3, <1>4, <1>5, SampleSteps

LEMMA TestNextKeys ==
    ASSUME TurnInv, KeyInv, ~sample, Next, \E j \in KeyIds : j # 0
    PROVE  KeyInv'
<1>1. TableTypes /\ TestKeys
  BY DEF KeyInv
<1>2. ASSUME NEW t \in Threads, OnKeys(t)
      PROVE  KeyInv'
  <2>1. sample' = sample
    BY <1>2, Effects DEF turns
  <2>2. TestKeys'
    BY <1>1, <1>2, MainKeys, Thread1Keys, Thread2Keys DEF Threads
  <2>3. TableTypes'
    BY <1>1, <1>2, TestTypes
  <2> QED
    BY <2>1, <2>2, <2>3 DEF KeyInv
<1>3. ASSUME NEW t \in Threads, OnStages(t)
      PROVE  KeyInv'
  <2>1. UNCHANGED <<sample, table>>
    BY <1>3 DEF OnStages, Lock, Unlock, StageWait, StageIncrWait, StageIncr, Sleep, Resume, Continue
  <2>2. TestKeys'
    BY <1>1, <1>3, OnStagesKeys
  <2> QED
    BY <1>1, <2>1, <2>2 DEF KeyInv, TableTypes, table
<1>4. ASSUME NEW t \in Threads, Wakeup(t)
      PROVE  KeyInv'
  BY <1>1, <1>4, SamePlaces DEF Wakeup, KeyInv, TableTypes, table
<1>5. ASSUME CreateThreads
      PROVE  KeyInv'
  <2>1. UNCHANGED <<sample, table>>
    BY <1>5 DEF CreateThreads, turns
  <2>2. TestKeys'
    BY <1>1, <1>5, CreateThreadsKeys
  <2> QED
    BY <1>1, <2>1, <2>2 DEF KeyInv, TableTypes, table
<1>6. ASSUME Join
      PROVE  KeyInv'
  <2>1. UNCHANGED <<sample, table>> /\ Advance(Main) /\ Main \in Threads
    BY <1>6, ThreeTurns DEF Join, turns
  <2>2. ip[Main] \notin Changing(Main)
    BY <1>6, <2>1, TestCalls, ThreeTurns DEF Join, Changing
  <2>3. TestKeys'
    BY <1>1, <2>1, <2>2, QuietStep
  <2> QED
    BY <1>1, <2>1, <2>3 DEF KeyInv, TableTypes, table
<1> QED
  BY <1>2, <1>3, <1>4, <1>5, <1>6 DEF Next

LEMMA InitKeys == Init => KeyInv
<1> SUFFICES ASSUME Init PROVE KeyInv
  OBVIOUS
<1>1. 0 \in KeyIds
  BY ImageAssumption DEF KeyAssumption
<1>2. /\ id = [key \in Keys |-> 0] /\ allocated = {}
      /\ specific = [t \in Threads |-> [k \in KeyIds |-> Null]]
      /\ ip = [t \in Threads |-> IF t = Main THEN 1 ELSE 0] /\ sample \in BOOLEAN
  BY DEF Init
<1>3. ip[Main] = 1 /\ ip[T1] = 0 /\ ip[T2] = 0
  BY <1>2, ThreeTurns
<1>4. \A t \in Threads : specific[t][0] = Null
  BY <1>1, <1>2
<1>5. TableTypes
  BY <1>1, <1>2 DEF TableTypes
<1>6. \A key \in Keys : id[key] = 0
  BY <1>2
<1>7. SampleKeys
  BY <1>2, <1>3, <1>4, <1>6, ThreeTurns DEF SampleKeys
<1>8. TestKeys
  BY <1>2, <1>3, <1>4, <1>6, ThreeTurns DEF TestKeys, TestZero, TestOther, TestUnderZero, Keys
<1> QED
  BY <1>5, <1>7, <1>8 DEF KeyInv

LEMMA StayKeys == ASSUME KeyInv, UNCHANGED vars PROVE KeyInv'
<1>1. UNCHANGED <<ip, table, sample>>
  BY DEF vars, turns
<1> QED
  BY <1>1, SamePlaces DEF KeyInv, TableTypes, SampleKeys, table

LEMMA ImageKeys ==
    ASSUME \E j \in KeyIds : j # 0
    PROVE  TurnInv /\ KeyInv /\ [ImageNext]_imageVars => KeyInv'
<1> SUFFICES ASSUME TurnInv, KeyInv, [ImageNext]_imageVars
             PROVE  KeyInv'
  OBVIOUS
<1>1. CASE KeysStep
  BY <1>1, SampleNextKeys, TestNextKeys DEF KeysStep
<1>2. CASE UNCHANGED vars
  BY <1>2, StayKeys
<1> QED
  BY <1>1, <1>2
  DEF ImageNext, ImageStep, InitCond, InitCondFails, DestroyCond, LeaveThreads, SuiteEnds,
      KthreadEnds, NextStep, GoOn, DetachedEnds, KthreadStep, OnceStep, Finished, imageVars

LEMMA KeysSound ==
    ASSUME TurnInv, KeyInv, \E j \in KeyIds : j # 0
    PROVE  TypeOK /\ ChecksHold
<1>1. ASSUME NEW t \in Threads
      PROVE  CheckHolds(t)
  <2>1. CASE sample
    BY <2>1, SampleChecks DEF KeyInv
  <2>2. CASE ~sample
    BY <2>2, MainChecks, Thread1Checks, Thread2Checks DEF KeyInv, Threads
  <2> QED
    BY <2>1, <2>2
<1>2. ChecksHold
  BY <1>1 DEF ChecksHold, CheckHolds
<1>3. ASSUME NEW t \in Threads
      PROVE  stage[t] \in 0..14
  <2>1. CASE sample
    BY <2>1 DEF TurnInv, SampleTurns, FirstStage
  <2>2. CASE ~sample
    <3>1. ip[t] \in 0..45 /\ stage[t] = StageAt(t, ip[t]) + (IF HandingOver(t) THEN 3 ELSE 0)
      BY <2>2 DEF TurnInv, TestTurns, Turn, KeyTypes
    <3>2. CASE HandingOver(t)
      <4>1. ip[t] \in IncrWaits(t) /\ ip[t] + 1 \in 0..45
        BY <3>1, <3>2, ThreeTurns DEF HandingOver, IncrWaits
      <4> QED
        BY <3>1, <3>2, <4>1, Stages
    <3>3. CASE ~HandingOver(t)
      <4>1. StageAt(t, ip[t]) \in 0..14
        BY <3>1, Stages
      <4> QED
        BY <3>1, <3>3, <4>1
    <3> QED
      BY <3>2, <3>3
  <2> QED
    BY <2>1, <2>2
<1>4. stage \in [Threads -> 0..14]
  BY <1>3 DEF TurnInv, KeyTypes
<1>5. allocated \in SUBSET KeyIds
  <2>1. 0 \in KeyIds
    BY ImageAssumption DEF KeyAssumption
  <2> QED
    BY <2>1 DEF KeyInv, SampleKeys, TestKeys, TestOther, TableTypes, Other, Keys
<1> QED
  BY <1>2, <1>4, <1>5 DEF TypeOK, TurnInv, KeyTypes, KeyInv, TableTypes

-----------------------------------------------------------------------------
(* The image                                                                *)

SuitesInv == RaceInv /\ PoolInv /\ IdentityInv

LEMMA StayPool ==
    ASSUME PoolInv, UNCHANGED <<image, step, conds, onceVars>>, detached' \in 0..2
    PROVE  PoolInv'
BY DEF PoolInv, Steps, OutForRace, onceVars

LEMMA InitSuites == ImageInit => SuitesInv
BY InitRace, InitPool, InitIdentity DEF ImageInit, SuitesInv

LEMMA NextSuites == SuitesInv /\ [ImageNext]_imageVars => SuitesInv'
<1> SUFFICES ASSUME SuitesInv, [ImageNext]_imageVars PROVE SuitesInv'
    OBVIOUS
<1>1. RaceInv /\ PoolInv /\ IdentityInv /\ detached \in 0..2
    BY DEF SuitesInv, PoolInv
<1>2. CASE ImageStep
  <2>1. UNCHANGED onceVars
      BY <1>2
      DEF ImageStep, InitCond, InitCondFails, DestroyCond, LeaveThreads, SuiteEnds, KthreadEnds,
          NextStep, GoOn
  <2>2. UNCHANGED identityVars \/ KthreadEnds
      BY <1>2
      DEF ImageStep, InitCond, InitCondFails, DestroyCond, LeaveThreads, SuiteEnds, NextStep
  <2> QED BY <1>1, <1>2, <2>1, <2>2, NextRace, ImageStepPool, StayIdentity, KthreadEndsIdentity
          DEF SuitesInv
<1>3. CASE DetachedEnds
  <2>1. UNCHANGED <<image, step, conds, onceVars, identityVars>> /\ detached' \in 0..2
      BY <1>1, <1>3 DEF DetachedEnds
  <2> QED BY <1>1, <2>1, NextRace, StayPool, StayIdentity DEF SuitesInv
<1>4. CASE KthreadStep
  <2>1. UNCHANGED <<image, step, detached, conds, onceVars>> /\ Identity!Next
      BY <1>4 DEF KthreadStep
  <2> QED BY <1>1, <2>1, NextRace, StayPool, NextIdentity DEF SuitesInv
<1>5. CASE OnceStep
  <2>1. UNCHANGED <<image, step, detached, identityVars>> /\ Once!Next /\ At("once")
      BY <1>5 DEF OnceStep
  <2>2. RaceInv'
      BY <1>1, <2>1, NextRace
  <2>3. image = "tests" /\ step = OnceStepNo /\ OnceStepNo \in Nat
      BY <1>1, <2>1, Position, FewPlaces, PoolNumbers DEF OnceStepNo
  <2>4. conds' = Out(step) + OutForRace'
      BY <1>1, <2>1, <2>2, <2>3, RacePool, OutBounds
  <2>5. PoolInv'
      BY <1>1, <2>1, <2>3, <2>4 DEF PoolInv, Steps
  <2> QED BY <1>1, <2>1, <2>2, <2>5, StayIdentity DEF SuitesInv
<1>6. CASE KeysStep
  <2>1. UNCHANGED <<image, step, detached, conds, onceVars, identityVars>>
      BY <1>6 DEF KeysStep
  <2> QED BY <1>1, <2>1, NextRace, StayPool, StayIdentity DEF SuitesInv
<1>7. CASE UNCHANGED imageVars
  <2>1. UNCHANGED <<image, step, detached, conds, onceVars, identityVars>>
      BY <1>7 DEF imageVars
  <2> QED BY <1>1, <2>1, NextRace, StayPool, StayIdentity DEF SuitesInv
<1> QED BY <1>2, <1>3, <1>4, <1>5, <1>6, <1>7 DEF ImageNext, Finished

\* Once more for what needs main's wait to be signalled.
LEMMA NextStartInv ==
    ASSUME Starter \notin SpuriousWaiters
    PROVE  SuitesInv /\ StartInv /\ [ImageNext]_imageVars => StartInv'
<1> SUFFICES ASSUME SuitesInv, StartInv, [ImageNext]_imageVars PROVE StartInv'
    OBVIOUS
<1>1. RaceInv /\ RaceInv'
    BY NextSuites DEF SuitesInv
<1>2. [Once!Next]_onceVars
    BY DEF ImageNext, ImageStep, InitCond, InitCondFails, DestroyCond, LeaveThreads, SuiteEnds,
       KthreadEnds, NextStep, GoOn, DetachedEnds, KthreadStep, OnceStep, KeysStep, Finished,
       imageVars
<1> QED BY <1>1, <1>2, NextStart

\* The inductive invariant: the race, the pools and the identities.
THEOREM AlwaysSuitesInv == ImageSpec => []SuitesInv
<1> QED BY InitSuites, NextSuites, PTL DEF ImageSpec

\* The pools suffice, whatever their sizes, as long as there are more condition
\* variables than threads (prj.conf has 7 and 6): pthread_cond_init fails where
\* it is meant to and nowhere else, and there is a thread for each that
\* test_2_parallel creates (pthread_once.c:126 to 140).
THEOREM PoolsSufficeHolds ==
    ASSUME POSIX_THREAD_THREADS_MAX < MAX_PTHREAD_COND_COUNT PROVE ImageSpec => []PoolsSuffice
<1>1. SuitesInv => PoolsSuffice
  <2> SUFFICES ASSUME SuitesInv PROVE PoolsSuffice
      OBVIOUS
  <2>1. RaceInv /\ PoolInv
      BY DEF SuitesInv
  <2>2. /\ M \in Nat /\ M >= 4 /\ POSIX_THREAD_THREADS_MAX \in Nat
        /\ N = POSIX_THREAD_THREADS_MAX - 2 /\ POSIX_THREAD_THREADS_MAX < M
      BY PoolNumbers DEF M
  <2>3. ASSUME NEW op, At(op), op \in {"init", "first_use", "init_fails", "once"}
        PROVE  /\ image = "tests" /\ step \in Places(op) /\ step \in 1..6 * M + 12
               /\ conds = Out(step) + OutForRace
               /\ Out(step) \in Nat /\ OutForRace \in Int
    <3>1. image = "tests"
        BY <2>1, <2>3, Position
    <3>2. step \in Places(op) /\ step \in 1..6 * M + 12
        BY <2>1, <2>3, <3>1, Position
    <3>3. conds = Out(step) + OutForRace
        BY <2>1, <3>1 DEF PoolInv
    <3> QED BY <2>1, <3>1, <3>2, <3>3, RaceTakes, OutBounds
  <2>4. ASSUME NEW op, At(op), op \in {"init", "first_use", "init_fails"}
        PROVE  OutForRace <= 0 /\ (step < OnceStepNo => OutForRace = 0)
    <3>1. image = "tests" /\ step \in Places(op) /\ step \in Int /\ OnceStepNo \in Int
        BY <2>2, <2>3, <2>4 DEF OnceStepNo
    <3>2. step # OnceStepNo
      <4>1. OnceStepNo \in Places("once")
          BY FewPlaces
      <4> QED BY <2>4, <3>1, <4>1 DEF Places
    <3>3. CASE step < OnceStepNo
      <4>1. once_pc[Starter] = "once"
          BY <2>1, <3>3 DEF PoolInv
      <4> QED BY <2>1, <4>1, RaceTakes DEF Solo
    <3>4. CASE ~(step < OnceStepNo)
      <4>1. step > OnceStepNo
          BY <3>1, <3>2, <3>4
      <4>2. once_pc[Starter] = "done"
          BY <2>1, <3>1, <4>1 DEF PoolInv
      <4> QED BY <2>1, <3>4, <4>2, RaceTakes
    <3> QED BY <3>3, <3>4
  <2>5. At("init") => conds < M
      BY <2>2, <2>3, <2>4, OutBounds
  <2>6. At("first_use") => conds < M
    <3> SUFFICES ASSUME At("first_use") PROVE conds < M
        OBVIOUS
    <3>1. Out(step) <= 3
        BY <2>2, <2>3, FewPlaces, OutBounds
    <3> QED BY <2>2, <2>3, <2>4, <3>1
  <2>7. At("init_fails") => conds = M
    <3> SUFFICES ASSUME At("init_fails") PROVE conds = M
        OBVIOUS
    <3>1. step = M + 3 /\ step < OnceStepNo /\ Out(step) = M
        BY <2>2, <2>3, FewPlaces, OutBounds DEF OnceStepNo
    <3> QED BY <2>2, <2>3, <2>4, <3>1
  <2>8. At("once") => Out(step) = 2
      BY <2>3, FewPlaces, OutBounds
  <2>9. At("once") /\ once_pc[Starter] = "init_conds" => conds < M
    <3> SUFFICES ASSUME At("once"), once_pc[Starter] = "init_conds" PROVE conds < M
        OBVIOUS
    <3>1. OutForRace = i
        BY DEF OutForRace, Solo
    <3>2. conds = 2 + i /\ i \in 0..N
        BY <2>1, <2>3, <2>8, <3>1 DEF RaceInv, RaceTypes
    <3> QED BY <2>2, <3>2
  <2>10. At("once") /\ once_pc[Starter] = "create" => i + detached < POSIX_THREAD_THREADS_MAX
    <3> SUFFICES ASSUME At("once"), once_pc[Starter] = "create"
                 PROVE  i + detached < POSIX_THREAD_THREADS_MAX
        OBVIOUS
    <3>1. i \in 0..N /\ i < N /\ detached \in 0..2
        BY <2>1 DEF RaceInv, RaceTypes, Loops, Starting, PoolInv
    <3> QED BY <2>2, <3>1
  <2> QED BY <2>5, <2>6, <2>7, <2>9, <2>10 DEF PoolsSuffice, M
<1> QED BY <1>1, AlwaysSuitesInv, PTL

\* Whoever comes back from pthread_once, in test_0_single and in the race, finds
\* the function run, once, and to its end (pthread_once.c:68, 72, 117 and 157),
\* spurious wake-ups or not.
THEOREM OnceRunsOnce == ImageSpec => []Once!InitRanOnce
<1>1. SuitesInv => Once!InitRanOnce
    BY DEF SuitesInv, RaceInv
<1> QED BY <1>1, AlwaysSuitesInv, PTL

\* The start of the race, with any number of threads: each reads its own number
\* from main's loop variable, and none is still on its way to its wait when main
\* launches it (pthread_once.c:95 to 152).  Main's own wait at line 140 must be
\* signalled for that, those of the other threads need not be.
THEOREM RaceSound ==
    ASSUME Starter \notin SpuriousWaiters PROVE ImageSpec => []Once!Inv
<1>1. ImageInit => StartInv
    BY InitStart DEF ImageInit
<1>2. SuitesInv => conds \in 0..M
  <2> SUFFICES ASSUME SuitesInv PROVE conds \in 0..M
      OBVIOUS
  <2>1. RaceInv /\ PoolInv
      BY DEF SuitesInv
  <2>2. CASE image # "tests"
      BY <2>1, <2>2, PoolNumbers DEF PoolInv
  <2>3. CASE image = "tests"
      BY <2>1, <2>3, TookBounds, Position DEF PoolInv
  <2> QED BY <2>2, <2>3
<1>3. SuitesInv /\ StartInv => Once!Inv
  <2> SUFFICES ASSUME SuitesInv, StartInv PROVE Once!Inv
      OBVIOUS
  <2>1. RaceInv /\ RaceTypes
      BY DEF SuitesInv, RaceInv
  <2>2. Once!TypeOK
      BY <1>2, <2>1 DEF Once!TypeOK, RaceTypes, Everyone, M
  <2> QED BY <2>1, <2>2, StartSound DEF Once!Inv, RaceInv
<1> QED BY <1>1, <1>3, InitSuites, NextSuites, NextStartInv, PTL DEF ImageSpec

\* Every comparison of pthread_kthread.c and of the sample finds what it should
\* (pthread_kthread.c:37 to 91), whatever values a pthread_t has, and although a
\* thread that has been joined leaves its own to others.
THEOREM IdentitiesAlwaysHold == ImageSpec => [](Identity!TypeOK /\ Identity!IdentitiesHold)
<1>1. SuitesInv => Identity!TypeOK /\ Identity!IdentitiesHold
    BY IdentitiesSound DEF SuitesInv
<1> QED BY <1>1, AlwaysSuitesInv, PTL

\* The invariant of the turns, of the test and of the sample (pthread_specific.c:130
\* to 171).
THEOREM AlwaysTurnInv == ImageSpec => []TurnInv
<1>1. ImageInit => TurnInv
  BY InitTurns DEF ImageInit
<1>2. TurnInv /\ [ImageNext]_imageVars => TurnInv'
  BY ImageTurns
<1> QED
  BY <1>1, <1>2, PTL DEF ImageSpec

\* The stages go round, as in the table: each is ended by the thread whose turn it
\* is, with the mutex, and no stage is left out.
THEOREM StagesGoRound == ImageSpec => RoundRobin
<1>1. TurnInv /\ [ImageNext]_imageVars =>
        [test_stage' # test_stage =>
            /\ test_stage' = test_stage + 1
            /\ m = CASE test_stage % 3 = 0 -> Main [] test_stage % 3 = 1 -> T1 [] OTHER -> T2]_vars
  <2> SUFFICES ASSUME TurnInv, [ImageNext]_imageVars, test_stage' # test_stage
               PROVE  /\ test_stage' = test_stage + 1
                      /\ m = CASE test_stage % 3 = 0 -> Main [] test_stage % 3 = 1 -> T1 [] OTHER -> T2
    OBVIOUS
  <2>1. PICK t \in Threads : m = t /\ test_stage = stage[t] /\ ~sample
    BY ImageTurns
  <2> QED
    BY <2>1, ImageTurns, WhoseTurn
<1> QED
  BY <1>1, AlwaysTurnInv, PTL DEF ImageSpec, RoundRobin

\* In the test one thread at a time works, and it holds the mutex.
THEOREM OneThreadAtATime == ImageSpec => []OneAtATime
<1>1. TurnInv => OneAtATime
  <2> SUFFICES ASSUME TurnInv, ~sample, ip[T1] > 0, NEW t \in Threads,
                      NEW op \in {"create", "delete", "set", "get", "incr_wait", "incr"}, Runs(t, op)
               PROVE  m = t /\ test_stage = stage[t]
    BY DEF OneAtATime
  <2>1. ip[Main] >= 19
    BY ThreeTurns DEF TurnInv, TestTurns, KeyTypes
  <2>2. Working(t)
    <3>1. mode[t] = "run" /\ ip[t] \in 0..45
      BY DEF Runs, TurnInv, KeyTypes
    <3>2. CASE op \in {"create", "delete", "set", "get"}
      <4>1. OnKeyPlace(t) /\ ip[t] \in 1..LastAt(t)
        BY <3>2, TestCalls
      <4> QED
        BY <3>1, <4>1, ThreeTurns DEF Working, OnKeyPlace, LastAt, LockAt, IncrAt
    <3>3. CASE op \in {"incr_wait", "incr"}
      <4>1. ip[t] \in IncrWaits(t) \cup {IncrAt(t)}
        BY <3>3, TestCalls
      <4> QED
        BY <3>1, <4>1, ThreeTurns DEF Working, IncrWaits, IncrAt
    <3> QED
      BY <3>2, <3>3
  <2> QED
    BY <2>1, <2>2, WorkerHasMutex
<1> QED
  BY <1>1, AlwaysTurnInv, PTL

\* The invariant of the key table: what there is under which id while the three
\* threads go through their lists (pthread_specific.c:173 to 519).  The second key
\* needs a second id.
THEOREM AlwaysKeyInv ==
    ASSUME \E j \in KeyIds : j # 0
    PROVE  ImageSpec => [](TurnInv /\ KeyInv)
<1>1. ImageInit => TurnInv /\ KeyInv
  BY InitTurns, InitKeys DEF ImageInit
<1>2. TurnInv /\ KeyInv /\ [ImageNext]_imageVars => TurnInv' /\ KeyInv'
  BY ImageTurns, ImageKeys
<1> QED
  BY <1>1, <1>2, PTL DEF ImageSpec

\* Whatever a thread finds under a key is its own value, or nothing where the key is
\* new or deleted, and only a key that is there can be deleted; a new key may have
\* the id of a deleted one.
THEOREM KeysHold ==
    ASSUME \E j \in KeyIds : j # 0
    PROVE  ImageSpec => []Inv
<1>1. TurnInv /\ KeyInv => TypeOK /\ ChecksHold
  BY KeysSound
<1> QED
  BY <1>1, AlwaysKeyInv, OneThreadAtATime, PTL DEF Inv

\* All of the image's checks, with pools of any size, any number of threads in the
\* race, any values of pthread_t and any number of key ids.
THEOREM ImageInvHolds ==
    ASSUME Starter \notin SpuriousWaiters, \E j \in KeyIds : j # 0
    PROVE  ImageSpec => []ImageInv
<1>1. SuitesInv => /\ step \in 1..Len(Steps) + 1 /\ detached \in 0..2
                   /\ Identity!TypeOK /\ Identity!IdentitiesHold
    BY IdentitiesSound DEF SuitesInv, PoolInv
<1> QED BY <1>1, AlwaysSuitesInv, RaceSound, KeysHold, PTL DEF ImageInv
=============================================================================
