------------------------- MODULE PthreadSuiteProofs -------------------------
(***************************************************************************)
(* The safety properties of PthreadSuite: of the two tests that time       *)
(* orders (JoinTiming), for any times, and of test_pthread_execution       *)
(* (BounceBarrier), for any number of workers and of bounces; that this    *)
(* test and that of the names leave nothing of what they share; that the   *)
(* pool has a descriptor for every thread that a test creates; and that    *)
(* every zassert of ThreadTests holds, and so Inv.                         *)
(***************************************************************************)
EXTENDS PthreadSuite, FiniteSetTheorems, SequenceTheorems, TLAPS

-----------------------------------------------------------------------------
(* JoinTiming: how far the clock can have come where each thread is.        *)

Blocked == {"first_join", "in_first_join", "second_join", "in_second_join"}
Polling == {"nap", "first_try", "sleep", "second_try"}

\* Nobody is later than MaxDelay, or early.
OnTime ==
    /\ at # "joined" => now <= due + MaxDelay
    /\ thread \in {"created", "asleep"} => now <= change + MaxDelay
    /\ thread = "created" => change <= now

\* test_pthread_timedjoin counts from Half before its first deadline.
TimedJoins ==
    /\ at = "set_deadlines" => thread = "none"
    /\ at = "create" => thread = "none" /\ not_done = due + Half /\ done = due + 3 * Half
    /\ at \in Blocked =>
          /\ done = not_done + 2 * Half
          /\ thread # "none"
          /\ thread = "created" => change + Half \in not_done..not_done + MaxDelay
          /\ thread = "asleep" => change \in not_done + Half..not_done + Half + 2 * MaxDelay
          /\ thread = "ended" => change \in not_done + Half..not_done + Half + 3 * MaxDelay
          /\ at # "in_second_join" => thread # "ended"
    /\ at = "first_join" => due + Half <= not_done + MaxDelay
    /\ at = "in_first_join" => due = not_done
    /\ at = "second_join" => due <= not_done + MaxDelay /\ result = "ETIMEDOUT"
    /\ at = "in_second_join" => due = IF thread = "ended" THEN change ELSE done
    /\ at = "create_again" => result = "ok"

\* test_pthread_tryjoin counts from the creation of its thread.
TryJoins ==
    /\ at \in Polling =>
          /\ thread # "none"
          /\ thread = "created" => change = 0
          /\ thread = "asleep" => change \in 2 * Half..2 * Half + MaxDelay
          /\ thread = "ended" => change \in 2 * Half..2 * Half + 2 * MaxDelay
          /\ at # "second_try" => thread # "ended"
    /\ at = "nap" => due = 0
    /\ at = "first_try" => due \in Half..Half + MaxDelay
    /\ at = "sleep" => due \in Half..Half + 2 * MaxDelay /\ result = "EBUSY"
    /\ at = "second_try" => due >= 3 * Half /\ result = "EBUSY"
    /\ at = "joined" => result = "ok"

JoinsIInv == Joins!TypeOK /\ OnTime /\ TimedJoins /\ TryJoins

-----------------------------------------------------------------------------
(* BounceBarrier: who has asked for the mutex, and who owns it.             *)

Bouncers == Execution!Workers
Everyone == Bouncers \cup {Execution!Main}

\* Where a thread is that has asked for the mutex, and where it must own it.
Queued == {"trylock", "wait", "claim", "check", "unlock", "done", "post", "parting", "woken",
           "broadcast", "release"}
Owning == {"check", "unlock", "post", "parting", "release"}

Queue ==
    /\ lock \in Seq(Everyone)
    /\ \A k, l \in 1..Len(lock) : lock[k] = lock[l] => k = l
    /\ \A k \in 1..Len(lock) : pc[lock[k]] \in Queued
    /\ \A t \in Everyone : pc[t] \in Queued => \E k \in 1..Len(lock) : lock[k] = t
    /\ \A t \in Everyone : pc[t] \in Owning => Execution!Owns(t)

Before == {"start", "trylock", "delay"}
Bouncing == Before \cup {"bounce", "wait", "asleep", "claim", "check", "unlock"}
Arrived == {"barrier", "passed", "last_post", "ended"}
BounceDone == {"post", "parting", "parted", "woken", "enter"} \cup Arrived
BouncerLabels == Bouncing \cup {"bounced", "done"} \cup BounceDone
AsksBouncers == {"bounce_test", "bounce_sem", "ask", "broadcast"}
MainLabels == AsksBouncers \cup {"release", "barrier_test", "barrier_sem", "join", "ended"}

Places ==
    /\ pc \in [Everyone -> BouncerLabels \cup MainLabels]
    /\ \A t \in Bouncers : pc[t] \in BouncerLabels
    /\ pc[Execution!Main] \in MainLabels
    /\ i \in [Bouncers -> 0..BOUNCES]
    /\ \A t \in Bouncers : pc[t] \in Bouncing <=> i[t] < BOUNCES

-----------------------------------------------------------------------------
(* BounceBarrier: the turns of the first phase.                             *)

\* How often a worker has signalled.
Turn(t) == i[t] + (IF pc[t] = "unlock" THEN 1 ELSE 0)

Ahead(t) == \A u \in Bouncers : Turn(u) <= Turn(t)
Behind(t) == \A u \in Bouncers : Turn(t) <= Turn(u)

\* The worker that has claimed the ownership or is about to.
Woken(t) == pc[t] = "asleep" /\ \A k \in 1..Len(cvar0) : cvar0[k] # t
Chosen(t) == pc[t] \in {"claim", "check"} \/ Woken(t)

\* Worker 0 has not yet come back from its delay.
Starting == i[0] = 0 /\ pc[0] \in Before \cup {"bounce", "wait"}

Sleepers ==
    /\ cvar0 \in Seq(Bouncers)
    /\ \A k, l \in 1..Len(cvar0) : cvar0[k] = cvar0[l] => k = l
    /\ \A k \in 1..Len(cvar0) : pc[cvar0[k]] = "asleep"

\* Nobody claims while worker 0 lets the others fall asleep, and nobody is
\* late when it does.
Begin ==
    /\ Starting => \A t \in Bouncers :
          i[t] = 0 /\ ~Chosen(t) /\ pc[t] \in Before \cup {"bounce", "wait", "asleep"}
    /\ ~Starting => \A t \in Bouncers : pc[t] \notin Before
    /\ \A t \in Bouncers : pc[t] = "delay" => t = 0

\* Those that sleep, those that wait for the mutex to sleep, and the one on
\* its way there are in the order of their turns; who is chosen is the first
\* of all.
SleepersInTurn ==
    \A k, l \in 1..Len(cvar0) : k < l => Turn(cvar0[k]) <= Turn(cvar0[l])

WaitersInTurn ==
    \A k, l \in 1..Len(lock) :
        k < l /\ pc[lock[k]] = "wait" /\ pc[lock[l]] = "wait" => Turn(lock[k]) <= Turn(lock[l])

SleepersFirst ==
    \A k \in 1..Len(cvar0), t \in Bouncers : pc[t] = "wait" => Turn(cvar0[k]) <= Turn(t)

Late(t) == pc[t] \in {"bounce", "unlock"}

OneLate ==
    /\ \A t \in Bouncers : Late(t) => Ahead(t)
    /\ ~Starting => \A t, u \in Bouncers : Late(t) /\ Late(u) => t = u

OneChosen ==
    /\ \A t \in Bouncers : Chosen(t) => Behind(t)
    /\ \A t, u \in Bouncers : Chosen(t) /\ Chosen(u) => t = u

Together == \A t, u \in Bouncers : Turn(t) <= Turn(u) + 1

InTurn ==
    /\ SleepersInTurn /\ WaitersInTurn /\ SleepersFirst /\ OneLate /\ OneChosen /\ Together

ClaimStands ==
    /\ curr_bounce_thread \in Bouncers
    /\ \A t \in Bouncers : pc[t] = "check" => curr_bounce_thread = t

-----------------------------------------------------------------------------
(* BounceBarrier: the handover to main, and the barrier.                    *)

\* Until main has broadcast, who has set its flag owns the mutex or sleeps.
Handover ==
    /\ cvar1 \in SUBSET Bouncers /\ bounce_done \in SUBSET Bouncers
    /\ \A t \in bounce_done : pc[t] \in BounceDone
    /\ pc[Execution!Main] \in AsksBouncers => \A t \in Bouncers :
          pc[t] \in BounceDone =>
              pc[t] \in {"post", "parting"} \/ (pc[t] = "parted" /\ t \in cvar1)
    /\ pc[Execution!Main] \in {"ask", "broadcast"} => bounce_done = Bouncers

ThoseArrived == {t \in Bouncers : pc[t] \in Arrived}
Passed == {t \in Bouncers : pc[t] \in Arrived \ {"barrier"}}

Barrier ==
    /\ barrier \in Seq(Bouncers)
    /\ Len(barrier) = Cardinality(ThoseArrived)
    /\ barrier_done \in SUBSET Passed
    /\ Passed # {} => Len(barrier) = N_THR_E
    /\ barrier_return \in [Bouncers -> {0, 1}]
    /\ \A t \in Passed : barrier_return[t] = 1 <=> barrier[N_THR_E] = t
    /\ pc[Execution!Main] = "ended" => \A t \in Bouncers : pc[t] = "ended"

ExecutionIInv ==
    /\ Places /\ Queue /\ Sleepers /\ Handover /\ Barrier
    /\ DelaySuffices /\ YieldsSuffice => Begin /\ InTurn /\ ClaimStands

-----------------------------------------------------------------------------
(* PthreadSuite: test_pthread_execution starts from what the tests before   *)
(* it have left, which is nothing.                                          *)

ExecutionAt == Len(CleanupTests) + Len(DescriptorLeakTest) + 1

\* Up to there no thread exists that uses the mutex.
NotNamed ==
    /\ descriptor["named"] = [NoThread EXCEPT !.pending = descriptor["named"].pending]
    /\ \A t \in Threads : mode[t] = "run"

SuiteIInv ==
    /\ ip \in [Threads -> Int]
    /\ DOMAIN mode = Threads /\ DOMAIN descriptor = Threads
    /\ ip[Main] <= ExecutionAt => NotNamed
    /\ ip[Main] < ExecutionAt => Execution!Init
    /\ ip[Main] = ExecutionAt => ExecutionIInv

-----------------------------------------------------------------------------
(* The test of the names: main and the thread it names, step by step.       *)

\* Where the two are, who has asked for the mutex, and who sleeps.
Meeting(k, m, n, mn, l, c0, c1) ==
    /\ ip[Main] = NameTestBegin + k /\ mode[Main] = m
    /\ ip["named"] = n /\ mode["named"] = mn
    /\ lock = l /\ cvar0 = c0 /\ cvar1 = c1

Named(status) == descriptor["named"].status = status

\* Main has the mutex or waits for it, and the other one does not exist yet.
MainAlone ==
    /\ Named("none")
    /\ \/ Meeting(0, "run", 1, "run", <<>>, <<>>, {})
       \/ Meeting(0, "ask", 1, "run", <<Main>>, <<>>, {})
       \/ Meeting(1, "run", 1, "run", <<Main>>, <<>>, {})

\* Main sleeps before the other one can signal.
MainSleeps ==
    /\ Named("running")
    /\ \/ Meeting(2, "run", 1, "run", <<Main>>, <<>>, {})
       \/ Meeting(2, "run", 1, "ask", <<Main, "named">>, <<>>, {})
       \/ Meeting(2, "asleep", 1, "run", <<>>, <<Main>>, {})
       \/ Meeting(2, "asleep", 1, "ask", <<"named">>, <<Main>>, {})
       \/ Meeting(2, "asleep", 2, "run", <<"named">>, <<Main>>, {})

\* The other one sleeps before main can signal.
NamedSleeps ==
    /\ Named("running")
    /\ \/ Meeting(2, "asleep", 3, "run", <<"named">>, <<>>, {})
       \/ Meeting(2, "ask", 3, "run", <<"named", Main>>, <<>>, {})
       \/ Meeting(2, "asleep", 3, "asleep", <<>>, <<>>, {"named"})
       \/ Meeting(2, "ask", 3, "asleep", <<Main>>, <<>>, {"named"})
       \/ Meeting(3, "run", 3, "asleep", <<Main>>, <<>>, {"named"})
       \/ Meeting(4, "run", 3, "asleep", <<Main>>, <<>>, {"named"})
       \/ Meeting(5, "run", 3, "asleep", <<Main>>, <<>>, {"named"})

\* It is woken, and main joins it.
NamedEnds ==
    \/ /\ Named("running")
       /\ \/ Meeting(6, "run", 3, "asleep", <<Main>>, <<>>, {})
          \/ Meeting(6, "run", 3, "ask", <<Main, "named">>, <<>>, {})
          \/ Meeting(7, "run", 3, "asleep", <<>>, <<>>, {})
          \/ Meeting(7, "run", 3, "ask", <<"named">>, <<>>, {})
          \/ \E n \in 4..8 : Meeting(7, "run", n, "run", <<"named">>, <<>>, {})
          \/ Meeting(7, "run", 9, "run", <<>>, <<>>, {})
    \/ Named("ended") /\ Meeting(7, "run", 1, "run", <<>>, <<>>, {})

\* Nothing is left of it.
NamedGone ==
    /\ Named("none") /\ ip[Main] >= NameTestBegin + 8
    /\ mode[Main] = "run" /\ mode["named"] = "run"
    /\ lock = <<>> /\ cvar0 = <<>> /\ cvar1 = {}

Phases == MainAlone \/ MainSleeps \/ NamedSleeps \/ NamedEnds \/ NamedGone

NameIInv ==
    /\ \A t \in Threads : DOMAIN descriptor[t] = DOMAIN NoThread
    /\ descriptor[Main].status = "running"
    /\ ~descriptor["named"].detached
    /\ \A t \in Threads \ {Main, "named"} : mode[t] = "run"
    /\ ip[Main] <= ExecutionAt => ip["named"] = 1
    /\ ip[Main] = ExecutionAt => \A t \in cvar1 : pc[t] = "parted"
    /\ ip[Main] > ExecutionAt => Phases

-----------------------------------------------------------------------------
(* The pool of threads: who can have a descriptor.                          *)

\* Where main is while a thread that it creates can have a descriptor: those of
\* the tests of clean-up and of descriptors, of the names, of termination and of
\* cancellation.  Two of those that are detached can outlive everything.
Lives(t, p) ==
    LET e == ExecutionAt IN
    \/ t = "explicit" /\ p = 2
    \/ t = "pexit" /\ p = 5
    \/ t = "cancelsync" /\ p \in 9..10
    \/ t = "return" /\ p = 15
    \/ t = "leak" /\ p \in 18..e - 1 /\ (p - 17) % 2 = 0
    \/ t = "named" /\ p \in e + 3..e + 8
    \/ t = "term0" /\ p \in e + 11..e + 14
    \/ t = "term1" /\ p \in e + 12..e + 15
    \/ t = "term2" /\ p >= e + 13
    \/ t = "term3" /\ p >= e + 14
    \/ t = "self" /\ p = e + 18
    \/ t = "ext1" /\ p \in e + 24..e + 27
    \/ t = "ext2" /\ p \in e + 31..e + 32

Alive == {t \in Workers : descriptor[t].status # "none"}

\* The pool has given out a descriptor for each thread that runs or has still
\* to be joined, and for no other.
PoolIInv ==
    /\ used = Cardinality(Alive)
    /\ \A t \in Alive : Lives(t, ip[Main])

-----------------------------------------------------------------------------
(* The proofs for JoinTiming                                                *)

USE SuiteAssumption

LEMMA Margins ==
    /\ Half \in Nat /\ MaxDelay \in Nat /\ 3 * MaxDelay < Half
    /\ MaxDelay < Half /\ 2 * MaxDelay < Half
BY DEF Joins!TimingAssumption

USE Margins
USE DEF Joins!Go, Joins!Sleep, Joins!Block, Joins!JoinReturns, Joins!Joining, Joins!mainVars,
        Joins!threadVars, JoinsIInv, Joins!TypeOK, OnTime, TimedJoins, TryJoins, Blocked, Polling

LEMMA InitJoins == Joins!Init => JoinsIInv
BY DEF Joins!Init

LEMMA TickStep == ASSUME JoinsIInv, Joins!Tick PROVE JoinsIInv'
BY DEF Joins!Tick

LEMMA FallAsleepStep == ASSUME JoinsIInv, Joins!FallAsleep PROVE JoinsIInv'
BY DEF Joins!FallAsleep

LEMMA EndStep == ASSUME JoinsIInv, Joins!End PROVE JoinsIInv'
BY DEF Joins!End

LEMMA SetDeadlinesStep == ASSUME JoinsIInv, Joins!SetDeadlines PROVE JoinsIInv'
BY DEF Joins!SetDeadlines

LEMMA CreateStep == ASSUME JoinsIInv, Joins!Create PROVE JoinsIInv'
BY DEF Joins!Create

LEMMA TimedJoinStep == ASSUME JoinsIInv, Joins!TimedJoin PROVE JoinsIInv'
BY DEF Joins!TimedJoin

LEMMA TimedJoinReturnsStep == ASSUME JoinsIInv, Joins!TimedJoinReturns PROVE JoinsIInv'
BY DEF Joins!TimedJoinReturns

LEMMA CreateAgainStep == ASSUME JoinsIInv, Joins!CreateAgain PROVE JoinsIInv'
BY DEF Joins!CreateAgain

LEMMA NapStep == ASSUME JoinsIInv, Joins!Nap PROVE JoinsIInv'
BY DEF Joins!Nap

LEMMA TryJoinStep == ASSUME JoinsIInv, Joins!TryJoin PROVE JoinsIInv'
BY DEF Joins!TryJoin

LEMMA LongSleepStep == ASSUME JoinsIInv, Joins!LongSleep PROVE JoinsIInv'
BY DEF Joins!LongSleep

HIDE Margins
HIDE DEF Joins!Go, Joins!Sleep, Joins!Block, Joins!JoinReturns, Joins!Joining, Joins!mainVars,
         Joins!threadVars, JoinsIInv, Joins!TypeOK, OnTime, TimedJoins, TryJoins, Blocked, Polling

LEMMA JoinsNext ==
    ASSUME JoinsIInv, [Joins!Next]_joinVars
    PROVE  JoinsIInv'
<1>1. CASE Joins!Tick
    BY <1>1, TickStep
<1>2. CASE Joins!Thread
    BY <1>2, FallAsleepStep, EndStep DEF Joins!Thread
<1>3. CASE Joins!MainThread
    BY <1>3, SetDeadlinesStep, CreateStep, TimedJoinStep, TimedJoinReturnsStep, CreateAgainStep,
       NapStep, TryJoinStep, LongSleepStep
       DEF Joins!MainThread
<1>4. CASE UNCHANGED joinVars
    BY <1>4
       DEF joinVars, JoinsIInv, Joins!TypeOK, OnTime, TimedJoins, TryJoins, Blocked, Polling
<1> QED BY <1>1, <1>2, <1>3, <1>4 DEF Joins!Next

\* What the rest of the suite does with the two tests of JoinTiming: nothing.
LEMMA SuiteNextJoins ==
    ASSUME [SuiteNext]_suiteVars
    PROVE  [Joins!Next]_joinVars
BY
   DEF SuiteNext, ExecutionStep, ExecutionEnds, JoinStep, JoinsEnd, TestStep, Finished,
       suiteVars

\* Where main and the thread under test are bounds how far the clock is from
\* each deadline, whatever Half and MaxDelay are.
THEOREM AlwaysJoinsIInv == Spec => []JoinsIInv
<1>1. SuiteInit => JoinsIInv
    BY InitJoins DEF SuiteInit
<1>2. JoinsIInv /\ [SuiteNext]_suiteVars => JoinsIInv'
    BY JoinsNext, SuiteNextJoins
<1> QED BY <1>1, <1>2, PTL DEF Spec

\* Each timed join and each try has the result its zassert expects (lines 399,
\* 405, 444 and 447) as long as nobody is late by a third of Half.
THEOREM AlwaysJoinsInTime == Spec => []JoinsInTime
<1>1. JoinsIInv => JoinsInTime
    BY DEF JoinsIInv, TimedJoins, TryJoins, JoinsInTime, Joins!JoinsInTime
<1> QED BY <1>1, AlwaysJoinsIInv, PTL

-----------------------------------------------------------------------------
(* Sequences and threads                                                    *)

LEMMA AppendFacts ==
    ASSUME NEW S, NEW s \in Seq(S), NEW e \in S
    PROVE  /\ Append(s, e) \in Seq(S)
           /\ Len(Append(s, e)) = Len(s) + 1 /\ Len(s) \in Nat
           /\ \A k \in 1..Len(s) : Append(s, e)[k] = s[k] /\ k \in 1..Len(Append(s, e))
           /\ Append(s, e)[Len(s) + 1] = e
           /\ \A k \in 1..Len(Append(s, e)) : k \in 1..Len(s) \/ k = Len(s) + 1
OBVIOUS

LEMMA TailFacts ==
    ASSUME NEW S, NEW s \in Seq(S), s # <<>>
    PROVE  /\ Tail(s) \in Seq(S)
           /\ Len(Tail(s)) = Len(s) - 1 /\ Len(s) \in Nat \ {0}
           /\ Head(s) = s[1] /\ 1 \in 1..Len(s) /\ s[1] \in S
           /\ \A k \in 1..Len(Tail(s)) : Tail(s)[k] = s[k + 1] /\ k + 1 \in 1..Len(s)
           /\ \A k \in 1..Len(s) : k # 1 => k - 1 \in 1..Len(Tail(s)) /\ Tail(s)[k - 1] = s[k]
OBVIOUS

LEMMA Identities ==
    /\ 0 \in Execution!Workers
    /\ Execution!Main \notin Execution!Workers
    /\ N_THR_E \in Nat \ {0} /\ BOUNCES \in Nat \ {0}
BY DEF Execution!Workers, Execution!Main, Execution!BounceAssumption

-----------------------------------------------------------------------------
(* The mutex                                                                *)

LEMMA AskKeepsQueue ==
    ASSUME Queue, pc \in [Everyone -> BouncerLabels \cup MainLabels],
           NEW t \in Everyone, NEW to \in Queued \ Owning,
           pc[t] \notin Queued, pc' = [pc EXCEPT ![t] = to], Execution!Ask(t)
    PROVE  Queue'
<1> DEFINE long == Append(lock, t)
<1>1. /\ lock' = long /\ lock \in Seq(Everyone)
      /\ pc'[t] = to /\ to \in Queued /\ to \notin Owning
      /\ \A u \in Everyone : u # t => pc'[u] = pc[u]
    BY DEF Execution!Ask, Queue
<1>2. /\ long \in Seq(Everyone)
      /\ Len(long) = Len(lock) + 1 /\ Len(lock) \in Nat
      /\ \A k \in 1..Len(lock) : long[k] = lock[k] /\ k \in 1..Len(long)
      /\ long[Len(lock) + 1] = t
      /\ \A k \in 1..Len(long) : k \in 1..Len(lock) \/ k = Len(lock) + 1
    BY <1>1, AppendFacts
<1>3. \A k \in 1..Len(lock) : lock[k] # t /\ lock[k] \in Everyone
    BY <1>1 DEF Queue
<1>4. \A k, l \in 1..Len(long) : long[k] = long[l] => k = l
    BY <1>2, <1>3 DEF Queue
<1>5. \A k \in 1..Len(long) : pc'[long[k]] \in Queued
    BY <1>1, <1>2, <1>3 DEF Queue
<1>6. \A u \in Everyone : pc'[u] \in Queued => \E k \in 1..Len(long) : long[k] = u
  <2> SUFFICES ASSUME NEW u \in Everyone, pc'[u] \in Queued
               PROVE  \E k \in 1..Len(long) : long[k] = u
      OBVIOUS
  <2>1. CASE u = t
      <3>1. Len(lock) + 1 \in 1..Len(long)
          BY <1>2
      <3> QED BY <2>1, <3>1, <1>2
  <2>2. CASE u # t
      BY <2>2, <1>1, <1>2 DEF Queue
  <2> QED BY <2>1, <2>2
<1>7. \A u \in Everyone : pc'[u] \in Owning => lock' # <<>> /\ Head(lock') = u
    <2> SUFFICES ASSUME NEW u \in Everyone, pc'[u] \in Owning
                 PROVE  lock' # <<>> /\ Head(lock') = u
        OBVIOUS
    <2>1. lock # <<>> /\ Head(lock) = u
        BY <1>1 DEF Queue, Execution!Owns
    <2> QED BY <2>1, <1>1
<1> HIDE DEF long
<1> QED BY <1>1, <1>2, <1>4, <1>5, <1>6, <1>7 DEF Queue, Execution!Owns

LEMMA UnlockKeepsQueue ==
    ASSUME Queue, pc \in [Everyone -> BouncerLabels \cup MainLabels],
           NEW t \in Everyone, NEW to, to \notin Queued,
           pc' = [pc EXCEPT ![t] = to], Execution!Unlock(t)
    PROVE  Queue'
<1> DEFINE rest == Tail(lock)
<1>1. /\ lock' = rest /\ lock \in Seq(Everyone) /\ lock # <<>> /\ Head(lock) = t
      /\ pc'[t] = to /\ to \notin Owning
      /\ \A u \in Everyone : u # t => pc'[u] = pc[u]
    BY DEF Execution!Unlock, Execution!Owns, Queue, Owning, Queued
<1>2. /\ rest \in Seq(Everyone)
      /\ Len(rest) = Len(lock) - 1 /\ Len(lock) \in Nat \ {0}
      /\ lock[1] = t /\ 1 \in 1..Len(lock)
      /\ \A k \in 1..Len(rest) : rest[k] = lock[k + 1] /\ k + 1 \in 1..Len(lock)
      /\ \A k \in 1..Len(lock) : k # 1 => k - 1 \in 1..Len(rest) /\ rest[k - 1] = lock[k]
    BY <1>1, TailFacts
<1>3. \A k \in 1..Len(rest) : rest[k] # t /\ rest[k] \in Everyone
    <2> TAKE k \in 1..Len(rest)
    <2>1. k + 1 # 1 /\ k + 1 \in 1..Len(lock) /\ lock[k + 1] = rest[k]
        BY <1>2
    <2> QED BY <2>1, <1>1, <1>2 DEF Queue
<1>4. \A k, l \in 1..Len(rest) : rest[k] = rest[l] => k = l
    <2> TAKE k, l \in 1..Len(rest)
    <2>1. rest[k] = rest[l] => k + 1 = l + 1
        BY <1>2 DEF Queue
    <2> QED BY <2>1
<1>5. \A k \in 1..Len(rest) : pc'[rest[k]] \in Queued
    BY <1>1, <1>2, <1>3 DEF Queue
<1>6. \A u \in Everyone : pc'[u] \in Queued => \E k \in 1..Len(rest) : rest[k] = u
    <2> SUFFICES ASSUME NEW u \in Everyone, pc'[u] \in Queued
                 PROVE  \E k \in 1..Len(rest) : rest[k] = u
        OBVIOUS
    <2>1. u # t /\ pc[u] \in Queued
        BY <1>1
    <2>2. PICK k \in 1..Len(lock) : lock[k] = u
        BY <2>1 DEF Queue
    <2>3. k # 1
        BY <2>1, <2>2, <1>2
    <2> QED BY <2>2, <2>3, <1>2
<1>7. \A u \in Everyone : pc'[u] \notin Owning
    BY <1>1 DEF Queue, Execution!Owns
<1> HIDE DEF rest
<1> QED BY <1>1, <1>2, <1>4, <1>5, <1>6, <1>7 DEF Queue, Execution!Owns

LEMMA StayKeepsQueue ==
    ASSUME Queue, pc \in [Everyone -> BouncerLabels \cup MainLabels],
           NEW t \in Everyone, NEW to,
           pc' = [pc EXCEPT ![t] = to], pc[t] \in Queued <=> to \in Queued,
           to \in Owning => Execution!Owns(t), lock' = lock
    PROVE  Queue'
<1>1. /\ pc'[t] = to
      /\ \A u \in Everyone : u # t => pc'[u] = pc[u]
    OBVIOUS
<1>2. \A k \in 1..Len(lock) : pc'[lock[k]] \in Queued
    BY <1>1 DEF Queue
<1>3. \A u \in Everyone : pc'[u] \in Owning => Execution!Owns(u)
    BY <1>1 DEF Queue
<1>4. \A u \in Everyone : pc'[u] \in Queued => \E k \in 1..Len(lock) : lock[k] = u
    BY <1>1 DEF Queue
<1> QED BY <1>2, <1>3, <1>4 DEF Queue, Execution!Owns

-----------------------------------------------------------------------------
(* The steps of test_pthread_execution, by thread                           *)

\* Where a step takes a worker, and what it does to the mutex.
LEMMA BounceMoves ==
    ASSUME Places, Queue, NEW t \in Bouncers, Execution!Bounce(t)
    PROVE  Places' /\ Queue'
<1>0. pc \in [Everyone -> BouncerLabels \cup MainLabels] /\ t \in Everyone
    BY DEF Places, Everyone
<1> USE DEF Execution!Go, Bouncing, Before, Arrived, BounceDone, BouncerLabels, AsksBouncers,
        MainLabels, Queued, Owning
<1>1. CASE Execution!AskFirst(t)
  <2>1. Places'
      BY <1>0, <1>1, Identities DEF Execution!AskFirst, Places, Everyone, Bouncers
  <2>2. Queue'
      BY <1>0, <1>1, AskKeepsQueue DEF Execution!AskFirst
  <2> QED BY <2>1, <2>2
<1>2. CASE Execution!TryLock(t)
  <2>1. Places'
      BY <1>0, <1>2, Identities DEF Execution!TryLock, Places, Everyone, Bouncers
  <2>2. Queue'
      BY <1>0, <1>2, UnlockKeepsQueue DEF Execution!TryLock
  <2> QED BY <2>1, <2>2
<1>3. CASE Execution!AskToBounce(t)
  <2>1. Places'
      BY <1>0, <1>3, Identities DEF Execution!AskToBounce, Places, Everyone, Bouncers
  <2>2. Queue'
      BY <1>0, <1>3, AskKeepsQueue DEF Execution!AskToBounce
  <2> QED BY <2>1, <2>2
<1>4. CASE Execution!Sleep(t)
  <2>1. Places'
      BY <1>0, <1>4, Identities DEF Execution!Sleep, Places, Everyone, Bouncers
  <2>2. Queue'
      BY <1>0, <1>4, UnlockKeepsQueue DEF Execution!Sleep
  <2> QED BY <2>1, <2>2
<1>5. CASE Execution!Delay(t)
  <2>1. Places'
      BY <1>0, <1>5, Identities DEF Execution!Delay, Places, Everyone, Bouncers
  <2>2. Queue'
      BY <1>0, <1>5, UnlockKeepsQueue DEF Execution!Delay
  <2> QED BY <2>1, <2>2
<1>6. CASE Execution!EndDelay(t)
  <2>1. Places'
      BY <1>0, <1>6, Identities DEF Execution!EndDelay, Places, Everyone, Bouncers
  <2>2. Queue'
      BY <1>0, <1>6, AskKeepsQueue DEF Execution!EndDelay
  <2> QED BY <2>1, <2>2
<1>7. CASE Execution!Wake(t)
  <2>1. Places'
      BY <1>0, <1>7, Identities DEF Execution!Wake, Places, Everyone, Bouncers
  <2>2. Queue'
      BY <1>0, <1>7, AskKeepsQueue DEF Execution!Wake
  <2> QED BY <2>1, <2>2
<1>8. CASE Execution!Claim(t)
  <2>1. Places'
      BY <1>0, <1>8, Identities DEF Execution!Claim, Places, Everyone, Bouncers
  <2>2. Queue'
      BY <1>0, <1>8, StayKeepsQueue DEF Execution!Claim, Execution!bounce
  <2> QED BY <2>1, <2>2
<1>9. CASE Execution!Signal(t)
  <2>1. Places'
      BY <1>0, <1>9, Identities DEF Execution!Signal, Places, Everyone, Bouncers
  <2>2. Queue'
      BY <1>0, <1>9, StayKeepsQueue DEF Execution!Signal, Execution!bounce
  <2> QED BY <2>1, <2>2
<1>10. CASE Execution!NextBounce(t)
  <2>1. Places'
      BY <1>0, <1>10, Identities DEF Execution!NextBounce, Places, Everyone, Bouncers
  <2>2. Queue'
    <3> DEFINE to == IF i[t] + 1 < BOUNCES THEN "bounce" ELSE "bounced"
    <3>1. to \notin Queued
        OBVIOUS
    <3>2. pc' = [pc EXCEPT ![t] = to] /\ Execution!Unlock(t)
        BY <1>10 DEF Execution!NextBounce
    <3> HIDE DEF to
    <3> QED BY <1>0, <3>1, <3>2, UnlockKeepsQueue
  <2> QED BY <2>1, <2>2
<1> QED BY <1>1, <1>2, <1>3, <1>4, <1>5, <1>6, <1>7, <1>8, <1>9, <1>10 DEF Execution!Bounce

LEMMA LineUpMoves ==
    ASSUME Places, Queue, NEW t \in Bouncers, Execution!LineUp(t)
    PROVE  Places' /\ Queue'
<1>0. pc \in [Everyone -> BouncerLabels \cup MainLabels] /\ t \in Everyone
    BY DEF Places, Everyone
<1> USE DEF Execution!Go, Bouncing, Before, Arrived, BounceDone, BouncerLabels, AsksBouncers,
        MainLabels, Queued, Owning
<1>1. CASE Execution!AskAgain(t)
  <2>1. Places'
      BY <1>0, <1>1, Identities DEF Execution!AskAgain, Places, Everyone, Bouncers
  <2>2. Queue'
      BY <1>0, <1>1, AskKeepsQueue DEF Execution!AskAgain
  <2> QED BY <2>1, <2>2
<1>2. CASE Execution!SetDone(t)
  <2>1. Places'
      BY <1>0, <1>2, Identities DEF Execution!SetDone, Places, Everyone, Bouncers
  <2>2. Queue'
      BY <1>0, <1>2, StayKeepsQueue DEF Execution!SetDone, Execution!bounce
  <2> QED BY <2>1, <2>2
<1>3. CASE Execution!Post(t)
  <2>1. Places'
      BY <1>0, <1>3, Identities DEF Execution!Post, Places, Everyone, Bouncers
  <2>2. Queue'
      BY <1>0, <1>3, StayKeepsQueue DEF Execution!Post, Execution!bounce
  <2> QED BY <2>1, <2>2
<1>4. CASE Execution!SleepForMain(t)
  <2>1. Places'
      BY <1>0, <1>4, Identities DEF Execution!SleepForMain, Places, Everyone, Bouncers
  <2>2. Queue'
      BY <1>0, <1>4, UnlockKeepsQueue DEF Execution!SleepForMain
  <2> QED BY <2>1, <2>2
<1>5. CASE Execution!WakeByMain(t)
  <2>1. Places'
      BY <1>0, <1>5, Identities DEF Execution!WakeByMain, Places, Everyone, Bouncers
  <2>2. Queue'
      BY <1>0, <1>5, AskKeepsQueue DEF Execution!WakeByMain
  <2> QED BY <2>1, <2>2
<1>6. CASE Execution!Leave(t)
  <2>1. Places'
      BY <1>0, <1>6, Identities DEF Execution!Leave, Places, Everyone, Bouncers
  <2>2. Queue'
      BY <1>0, <1>6, UnlockKeepsQueue DEF Execution!Leave
  <2> QED BY <2>1, <2>2
<1>7. CASE Execution!Arrive(t)
  <2>1. Places'
      BY <1>0, <1>7, Identities DEF Execution!Arrive, Places, Everyone, Bouncers
  <2>2. Queue'
      BY <1>0, <1>7, StayKeepsQueue DEF Execution!Arrive, Execution!bounce
  <2> QED BY <2>1, <2>2
<1>8. CASE Execution!Pass(t)
  <2>1. Places'
      BY <1>0, <1>8, Identities DEF Execution!Pass, Places, Everyone, Bouncers
  <2>2. Queue'
      BY <1>0, <1>8, StayKeepsQueue DEF Execution!Pass, Execution!bounce
  <2> QED BY <2>1, <2>2
<1>9. CASE Execution!SetBarrierDone(t)
  <2>1. Places'
      BY <1>0, <1>9, Identities DEF Execution!SetBarrierDone, Places, Everyone, Bouncers
  <2>2. Queue'
      BY <1>0, <1>9, StayKeepsQueue DEF Execution!SetBarrierDone, Execution!bounce
  <2> QED BY <2>1, <2>2
<1>10. CASE Execution!LastPost(t)
  <2>1. Places'
      BY <1>0, <1>10, Identities DEF Execution!LastPost, Places, Everyone, Bouncers
  <2>2. Queue'
      BY <1>0, <1>10, StayKeepsQueue DEF Execution!LastPost, Execution!bounce
  <2> QED BY <2>1, <2>2
<1> QED BY <1>1, <1>2, <1>3, <1>4, <1>5, <1>6, <1>7, <1>8, <1>9, <1>10 DEF Execution!LineUp

LEMMA MainMoves ==
    ASSUME Places, Queue, Execution!MainThread
    PROVE  Places' /\ Queue'
<1>0. pc \in [Everyone -> BouncerLabels \cup MainLabels] /\ Execution!Main \in Everyone
    BY DEF Places, Everyone
<1> USE DEF Execution!Go, Bouncing, Before, Arrived, BounceDone, BouncerLabels, AsksBouncers,
        MainLabels, Queued, Owning
<1>1. CASE Execution!TestBounce
  <2>1. Places'
      BY <1>0, <1>1, Identities DEF Execution!TestBounce, Places, Everyone, Bouncers
  <2>2. Queue'
      BY <1>0, <1>1, StayKeepsQueue DEF Execution!TestBounce, Execution!bounce
  <2> QED BY <2>1, <2>2
<1>2. CASE Execution!TestBarrier
  <2>1. Places'
      BY <1>0, <1>2, Identities DEF Execution!TestBarrier, Places, Everyone, Bouncers
  <2>2. Queue'
      BY <1>0, <1>2, StayKeepsQueue DEF Execution!TestBarrier, Execution!bounce
  <2> QED BY <2>1, <2>2
<1>3. CASE Execution!SemWait
  <2>1. Places'
      BY <1>0, <1>3, Identities DEF Execution!SemWait, Places, Everyone, Bouncers
  <2>2. Queue'
      BY <1>0, <1>3, StayKeepsQueue DEF Execution!SemWait, Execution!bounce
  <2> QED BY <2>1, <2>2
<1>4. CASE Execution!AskToWake
  <2>1. Places'
      BY <1>0, <1>4, Identities DEF Execution!AskToWake, Places, Everyone, Bouncers
  <2>2. Queue'
      BY <1>0, <1>4, AskKeepsQueue DEF Execution!AskToWake
  <2> QED BY <2>1, <2>2
<1>5. CASE Execution!Broadcast
  <2>1. Places'
      BY <1>0, <1>5, Identities DEF Execution!Broadcast, Places, Everyone, Bouncers
  <2>2. Queue'
      BY <1>0, <1>5, StayKeepsQueue DEF Execution!Broadcast, Execution!bounce
  <2> QED BY <2>1, <2>2
<1>6. CASE Execution!Release
  <2>1. Places'
      BY <1>0, <1>6, Identities DEF Execution!Release, Places, Everyone, Bouncers
  <2>2. Queue'
      BY <1>0, <1>6, UnlockKeepsQueue DEF Execution!Release
  <2> QED BY <2>1, <2>2
<1>7. CASE Execution!Join
  <2>1. Places'
      BY <1>0, <1>7, Identities DEF Execution!Join, Places, Everyone, Bouncers
  <2>2. Queue'
      BY <1>0, <1>7, StayKeepsQueue DEF Execution!Join, Execution!bounce
  <2> QED BY <2>1, <2>2
<1> QED BY <1>1, <1>2, <1>3, <1>4, <1>5, <1>6, <1>7 DEF Execution!MainThread

-----------------------------------------------------------------------------
(* The handover to main                                                     *)

LEMMA BounceHandover ==
    ASSUME Places, Handover, NEW t \in Bouncers, Execution!Bounce(t)
    PROVE  Handover'
<1>0. /\ pc \in [Everyone -> BouncerLabels \cup MainLabels] /\ t \in Everyone
      /\ Execution!Main \in Everyone /\ t # Execution!Main /\ Bouncers \subseteq Everyone
    BY Identities DEF Places, Everyone, Bouncers
<1> USE DEF Execution!Go, Execution!handover, Arrived, BounceDone, AsksBouncers, Handover
<1>1. CASE Execution!AskFirst(t)
    BY <1>1, <1>0 DEF Execution!AskFirst
<1>2. CASE Execution!TryLock(t)
    BY <1>2, <1>0 DEF Execution!TryLock
<1>3. CASE Execution!AskToBounce(t)
    BY <1>3, <1>0 DEF Execution!AskToBounce
<1>4. CASE Execution!Sleep(t)
    BY <1>4, <1>0 DEF Execution!Sleep
<1>5. CASE Execution!Delay(t)
    BY <1>5, <1>0 DEF Execution!Delay
<1>6. CASE Execution!EndDelay(t)
    BY <1>6, <1>0 DEF Execution!EndDelay
<1>7. CASE Execution!Wake(t)
    BY <1>7, <1>0 DEF Execution!Wake
<1>8. CASE Execution!Claim(t)
    BY <1>8, <1>0 DEF Execution!Claim
<1>9. CASE Execution!Signal(t)
    BY <1>9, <1>0 DEF Execution!Signal
<1>10. CASE Execution!NextBounce(t)
    BY <1>10, <1>0 DEF Execution!NextBounce
<1> QED BY <1>1, <1>2, <1>3, <1>4, <1>5, <1>6, <1>7, <1>8, <1>9, <1>10 DEF Execution!Bounce

LEMMA LineUpHandover ==
    ASSUME Places, Queue, Handover, NEW t \in Bouncers, Execution!LineUp(t)
    PROVE  Handover'
<1>0. /\ pc \in [Everyone -> BouncerLabels \cup MainLabels] /\ t \in Everyone
      /\ Execution!Main \in Everyone /\ t # Execution!Main /\ Bouncers \subseteq Everyone
    BY Identities DEF Places, Everyone, Bouncers
<1> USE DEF Execution!Go, Execution!handover, Arrived, BounceDone, AsksBouncers, Handover
<1>1. CASE Execution!AskAgain(t)
    BY <1>1, <1>0 DEF Execution!AskAgain
<1>2. CASE Execution!SetDone(t)
    BY <1>2, <1>0 DEF Execution!SetDone
<1>3. CASE Execution!Post(t)
    BY <1>3, <1>0 DEF Execution!Post
<1>4. CASE Execution!SleepForMain(t)
    BY <1>4, <1>0 DEF Execution!SleepForMain
<1>5. CASE Execution!WakeByMain(t)
    BY <1>5, <1>0 DEF Execution!WakeByMain
<1>6. CASE Execution!Leave(t)
    BY <1>6, <1>0 DEF Execution!Leave
<1>7. CASE Execution!Arrive(t)
    BY <1>7, <1>0 DEF Execution!Arrive
<1>8. CASE Execution!Pass(t)
    BY <1>8, <1>0 DEF Execution!Pass
<1>9. CASE Execution!SetBarrierDone(t)
    BY <1>9, <1>0 DEF Execution!SetBarrierDone
<1>10. CASE Execution!LastPost(t)
    BY <1>10, <1>0 DEF Execution!LastPost
<1> QED BY <1>1, <1>2, <1>3, <1>4, <1>5, <1>6, <1>7, <1>8, <1>9, <1>10 DEF Execution!LineUp

LEMMA MainHandover ==
    ASSUME Places, Queue, Handover, Execution!MainThread
    PROVE  Handover'
<1>0. /\ pc \in [Everyone -> BouncerLabels \cup MainLabels]
      /\ Execution!Main \in Everyone /\ \A t \in Bouncers : t \in Everyone /\ t # Execution!Main
    BY Identities DEF Places, Everyone, Bouncers
<1> USE DEF Execution!Go, Execution!handover, Arrived, BounceDone, AsksBouncers, Handover,
    Bouncers
<1>1. CASE Execution!TestBounce
    BY <1>1, <1>0 DEF Execution!TestBounce
<1>2. CASE Execution!TestBarrier
    BY <1>2, <1>0 DEF Execution!TestBarrier
<1>3. CASE Execution!SemWait
    BY <1>3, <1>0 DEF Execution!SemWait
<1>4. CASE Execution!AskToWake
    BY <1>4, <1>0 DEF Execution!AskToWake
<1>5. CASE Execution!Broadcast
    BY <1>5, <1>0 DEF Execution!Broadcast
<1>6. CASE Execution!Release
    BY <1>6, <1>0 DEF Execution!Release
<1>7. CASE Execution!Join
    BY <1>7, <1>0 DEF Execution!Join
<1> QED BY <1>1, <1>2, <1>3, <1>4, <1>5, <1>6, <1>7 DEF Execution!MainThread

LEMMA HandoverReaches ==
    ASSUME Places, Queue, Handover
    PROVE  Execution!BroadcastReachesAll
<1> SUFFICES ASSUME pc[Execution!Main] = "broadcast", Execution!Owns(Execution!Main)
             PROVE  cvar1 = Bouncers
    BY DEF Execution!BroadcastReachesAll, Bouncers
<1>1. \A t \in Bouncers : pc[t] \notin {"post", "parting"}
  <2>1. \A t \in Bouncers : t # Execution!Main /\ t \in Everyone
      BY Identities DEF Bouncers, Everyone
  <2> QED BY <2>1 DEF Queue, Owning, Execution!Owns
<1>2. \A t \in Bouncers : pc[t] \in BounceDone
    BY DEF Handover
<1> QED BY <1>1, <1>2 DEF Handover, AsksBouncers


-----------------------------------------------------------------------------
(* The barrier                                                              *)

\* Everybody else is of no account to it.
LEMMA BarrierFrame ==
    ASSUME Barrier, pc \in [Everyone -> BouncerLabels \cup MainLabels],
           NEW t \in Everyone, NEW to, pc' = [pc EXCEPT ![t] = to],
           UNCHANGED Execution!lineup,
           t \in Bouncers =>
              /\ pc[t] \in Arrived <=> to \in Arrived
              /\ pc[t] \in Arrived \ {"barrier"} <=> to \in Arrived \ {"barrier"}
              /\ pc[t] # "ended",
           t = Execution!Main /\ to = "ended" => \A u \in Bouncers : pc[u] = "ended"
    PROVE  Barrier'
<1>1. ThoseArrived' = ThoseArrived /\ Passed' = Passed
    BY DEF ThoseArrived, Passed, Everyone
<1>2. pc'[Execution!Main] = "ended" => \A u \in Bouncers : pc'[u] = "ended"
    BY Identities DEF Barrier, Everyone, Bouncers
<1> QED BY <1>1, <1>2 DEF Barrier, Execution!lineup

LEMMA AllArrived ==
    ASSUME Barrier
    PROVE  /\ IsFiniteSet(Bouncers) /\ Cardinality(Bouncers) = N_THR_E
           /\ IsFiniteSet(ThoseArrived)
           /\ Len(barrier) = N_THR_E => ThoseArrived = Bouncers
<1>1. IsFiniteSet(Bouncers) /\ Cardinality(Bouncers) = N_THR_E
  <2>1. 0 \in Int /\ N_THR_E - 1 \in Int /\ ~(0 > N_THR_E - 1) /\ (N_THR_E - 1) - 0 + 1 = N_THR_E
      BY Identities
  <2> QED BY <2>1, FS_Interval DEF Bouncers, Execution!Workers
<1>2. ThoseArrived \in SUBSET Bouncers
    BY DEF ThoseArrived
<1> QED BY <1>1, <1>2, FS_Subset DEF Barrier

LEMMA ArriveBarrier ==
    ASSUME Places, Barrier, NEW t \in Bouncers, Execution!Arrive(t)
    PROVE  Barrier'
<1>1. /\ pc \in [Everyone -> BouncerLabels \cup MainLabels] /\ t \in Everyone
      /\ t # Execution!Main /\ Execution!Main \in Everyone
      /\ pc[t] = "enter" /\ pc' = [pc EXCEPT ![t] = "barrier"] /\ barrier' = Append(barrier, t)
      /\ barrier_done' = barrier_done /\ barrier_return' = barrier_return
    BY Identities DEF Places, Everyone, Bouncers, Execution!Arrive, Execution!Go
<1>2. ThoseArrived' = ThoseArrived \cup {t} /\ t \notin ThoseArrived /\ Passed' = Passed
    BY <1>1 DEF ThoseArrived, Passed, Arrived, Everyone
<1>3. Passed = {}
    BY <1>2, AllArrived DEF Barrier
<1>4. Len(barrier') = Cardinality(ThoseArrived')
  <2>1. Len(barrier') = Len(barrier) + 1
      BY <1>1 DEF Barrier
  <2>2. Cardinality(ThoseArrived \cup {t}) = Cardinality(ThoseArrived) + 1
      BY <1>2, AllArrived, FS_AddElement
  <2> QED BY <2>1, <2>2, <1>2 DEF Barrier
<1>5. barrier' \in Seq(Bouncers)
    BY <1>1 DEF Barrier
<1>6. pc'[Execution!Main] # "ended"
    BY <1>1 DEF Barrier
<1> QED BY <1>1, <1>2, <1>3, <1>4, <1>5, <1>6 DEF Barrier

LEMMA PassBarrier ==
    ASSUME Places, Barrier, NEW t \in Bouncers, Execution!Pass(t)
    PROVE  Barrier'
<1>1. /\ pc \in [Everyone -> BouncerLabels \cup MainLabels] /\ t \in Everyone
      /\ t # Execution!Main /\ Execution!Main \in Everyone
      /\ pc[t] = "barrier" /\ pc' = [pc EXCEPT ![t] = "passed"] /\ Len(barrier) = N_THR_E
      /\ barrier' = barrier /\ barrier_done' = barrier_done
      /\ barrier_return' = [barrier_return EXCEPT ![t] = IF barrier[N_THR_E] = t THEN 1 ELSE 0]
    BY Identities
       DEF Places, Everyone, Bouncers, Execution!Pass, Execution!Go, Execution!SerialThread
<1>2. ThoseArrived' = ThoseArrived /\ Passed' = Passed \cup {t}
    BY <1>1 DEF ThoseArrived, Passed, Arrived, Everyone
<1>3. /\ barrier_return' \in [Bouncers -> {0, 1}]
      /\ \A u \in Passed' : barrier_return'[u] = 1 <=> barrier[N_THR_E] = u
    BY <1>1, <1>2 DEF Barrier, Passed
<1>4. pc'[Execution!Main] # "ended"
    BY <1>1 DEF Barrier
<1> QED BY <1>1, <1>2, <1>3, <1>4 DEF Barrier

LEMMA SetBarrierDoneBarrier ==
    ASSUME Places, Barrier, NEW t \in Bouncers, Execution!SetBarrierDone(t)
    PROVE  Barrier'
<1>1. /\ pc \in [Everyone -> BouncerLabels \cup MainLabels] /\ t \in Everyone
      /\ t # Execution!Main /\ Execution!Main \in Everyone
      /\ pc[t] = "passed" /\ pc' = [pc EXCEPT ![t] = "last_post"]
      /\ barrier' = barrier /\ barrier_done' = barrier_done \cup {t}
      /\ barrier_return' = barrier_return
    BY Identities DEF Places, Everyone, Bouncers, Execution!SetBarrierDone, Execution!Go
<1>2. ThoseArrived' = ThoseArrived /\ Passed' = Passed /\ t \in Passed
    BY <1>1 DEF ThoseArrived, Passed, Arrived, Everyone
<1>3. pc'[Execution!Main] # "ended"
    BY <1>1 DEF Barrier
<1> QED BY <1>1, <1>2, <1>3 DEF Barrier

LEMMA LastPostBarrier ==
    ASSUME Places, Barrier, NEW t \in Bouncers, Execution!LastPost(t)
    PROVE  Barrier'
<1>1. /\ pc \in [Everyone -> BouncerLabels \cup MainLabels]
      /\ t \in Everyone /\ t # Execution!Main
      /\ pc[t] = "last_post" /\ pc' = [pc EXCEPT ![t] = "ended"] /\ UNCHANGED Execution!lineup
    BY Identities DEF Places, Everyone, Bouncers, Execution!LastPost, Execution!Go
<1> QED BY <1>1, BarrierFrame DEF Arrived

LEMMA BounceBarrierNext ==
    ASSUME Places, Barrier, NEW t \in Bouncers, Execution!Bounce(t)
    PROVE  Barrier'
<1>0. pc \in [Everyone -> BouncerLabels \cup MainLabels] /\ t \in Everyone /\ t # Execution!Main
    BY Identities DEF Places, Everyone, Bouncers
<1>1. CASE Execution!AskFirst(t)
    BY <1>1, <1>0, BarrierFrame DEF Execution!AskFirst, Execution!Go, Arrived
<1>2. CASE Execution!TryLock(t)
    BY <1>2, <1>0, BarrierFrame DEF Execution!TryLock, Execution!Go, Arrived
<1>3. CASE Execution!AskToBounce(t)
    BY <1>3, <1>0, BarrierFrame DEF Execution!AskToBounce, Execution!Go, Arrived
<1>4. CASE Execution!Sleep(t)
    BY <1>4, <1>0, BarrierFrame DEF Execution!Sleep, Execution!Go, Arrived
<1>5. CASE Execution!Delay(t)
    BY <1>5, <1>0, BarrierFrame DEF Execution!Delay, Execution!Go, Arrived
<1>6. CASE Execution!EndDelay(t)
    BY <1>6, <1>0, BarrierFrame DEF Execution!EndDelay, Execution!Go, Arrived
<1>7. CASE Execution!Wake(t)
    BY <1>7, <1>0, BarrierFrame DEF Execution!Wake, Execution!Go, Arrived
<1>8. CASE Execution!Claim(t)
    BY <1>8, <1>0, BarrierFrame DEF Execution!Claim, Execution!Go, Arrived
<1>9. CASE Execution!Signal(t)
    BY <1>9, <1>0, BarrierFrame DEF Execution!Signal, Execution!Go, Arrived
<1>10. CASE Execution!NextBounce(t)
  <2> DEFINE to == IF i[t] + 1 < BOUNCES THEN "bounce" ELSE "bounced"
  <2>1. pc[t] = "unlock" /\ pc' = [pc EXCEPT ![t] = to] /\ UNCHANGED Execution!lineup
      BY <1>10 DEF Execution!NextBounce, Execution!Go
  <2>2. to \notin Arrived
      BY DEF Arrived
  <2> HIDE DEF to
  <2> QED BY <1>0, <2>1, <2>2, BarrierFrame DEF Arrived
<1> QED BY <1>1, <1>2, <1>3, <1>4, <1>5, <1>6, <1>7, <1>8, <1>9, <1>10 DEF Execution!Bounce

LEMMA LineUpBarrierNext ==
    ASSUME Places, Barrier, NEW t \in Bouncers, Execution!LineUp(t)
    PROVE  Barrier'
<1>0. pc \in [Everyone -> BouncerLabels \cup MainLabels] /\ t \in Everyone /\ t # Execution!Main
    BY Identities DEF Places, Everyone, Bouncers
<1>1. CASE Execution!AskAgain(t)
    BY <1>1, <1>0, BarrierFrame DEF Execution!AskAgain, Execution!Go, Arrived
<1>2. CASE Execution!SetDone(t)
    BY <1>2, <1>0, BarrierFrame DEF Execution!SetDone, Execution!Go, Arrived
<1>3. CASE Execution!Post(t)
    BY <1>3, <1>0, BarrierFrame DEF Execution!Post, Execution!Go, Arrived
<1>4. CASE Execution!SleepForMain(t)
    BY <1>4, <1>0, BarrierFrame DEF Execution!SleepForMain, Execution!Go, Arrived
<1>5. CASE Execution!WakeByMain(t)
    BY <1>5, <1>0, BarrierFrame DEF Execution!WakeByMain, Execution!Go, Arrived
<1>6. CASE Execution!Leave(t)
    BY <1>6, <1>0, BarrierFrame DEF Execution!Leave, Execution!Go, Arrived
<1> QED BY <1>1, <1>2, <1>3, <1>4, <1>5, <1>6,
    ArriveBarrier, PassBarrier, SetBarrierDoneBarrier, LastPostBarrier DEF Execution!LineUp

LEMMA MainBarrierNext ==
    ASSUME Places, Barrier, Execution!MainThread
    PROVE  Barrier'
<1>0. /\ pc \in [Everyone -> BouncerLabels \cup MainLabels]
      /\ Execution!Main \in Everyone /\ Execution!Main \notin Bouncers
    BY Identities DEF Places, Everyone, Bouncers
<1>1. CASE Execution!TestBounce
  <2> DEFINE to == IF bounce_done = Execution!Workers THEN "ask" ELSE "bounce_sem"
  <2>1. pc' = [pc EXCEPT ![Execution!Main] = to] /\ UNCHANGED Execution!lineup
      BY <1>1 DEF Execution!TestBounce, Execution!Go
  <2>2. to # "ended"
      OBVIOUS
  <2> HIDE DEF to
  <2> QED BY <1>0, <2>1, <2>2, BarrierFrame
<1>2. CASE Execution!TestBarrier
  <2> DEFINE to == IF barrier_done = Execution!Workers THEN "join" ELSE "barrier_sem"
  <2>1. pc' = [pc EXCEPT ![Execution!Main] = to] /\ UNCHANGED Execution!lineup
      BY <1>2 DEF Execution!TestBarrier, Execution!Go
  <2>2. to # "ended"
      OBVIOUS
  <2> HIDE DEF to
  <2> QED BY <1>0, <2>1, <2>2, BarrierFrame
<1>3. CASE Execution!SemWait
    BY <1>3, <1>0, BarrierFrame DEF Execution!SemWait, Execution!Go, Bouncers
<1>4. CASE Execution!AskToWake
    BY <1>4, <1>0, BarrierFrame DEF Execution!AskToWake, Execution!Go, Bouncers
<1>5. CASE Execution!Broadcast
    BY <1>5, <1>0, BarrierFrame DEF Execution!Broadcast, Execution!Go, Bouncers
<1>6. CASE Execution!Release
    BY <1>6, <1>0, BarrierFrame DEF Execution!Release, Execution!Go, Bouncers
<1>7. CASE Execution!Join
    BY <1>7, <1>0, BarrierFrame DEF Execution!Join, Execution!Go, Bouncers
<1> QED BY <1>1, <1>2, <1>3, <1>4, <1>5, <1>6, <1>7 DEF Execution!MainThread

LEMMA BarrierIsLeft ==
    ASSUME Places, Barrier
    PROVE  Execution!BarrierHolds
<1>1. Execution!NoneEarly
  <2>1. Passed # {} => \A t \in Bouncers : pc[t] \in Arrived
      BY AllArrived DEF Barrier, ThoseArrived
  <2>2. \A t \in Bouncers : pc[t] = "enter" => barrier_done = {}
      BY <2>1 DEF Barrier, Arrived
  <2>3. \A t, u \in Bouncers : pc[t] = "passed" => pc[u] \in Arrived
      BY <2>1 DEF Passed, Arrived
  <2> QED BY <2>2, <2>3 DEF Execution!NoneEarly, Arrived, Bouncers
<1>2. Execution!OneSerialThread
  <2> SUFFICES ASSUME Execution!Done
               PROVE  Cardinality({t \in Execution!Workers :
                                      barrier_return[t] = Execution!SerialThread}) = 1
      BY DEF Execution!OneSerialThread, Execution!Cardinality, Cardinality
  <2>1. Passed = Bouncers
      BY DEF Barrier, Passed, Arrived, Execution!Done
  <2>2. barrier[N_THR_E] \in Bouncers
      BY <2>1, Identities DEF Barrier, Bouncers
  <2>3. {t \in Execution!Workers : barrier_return[t] = Execution!SerialThread}
           = {barrier[N_THR_E]}
      BY <2>1, <2>2 DEF Barrier, Bouncers, Execution!SerialThread
  <2> QED BY <2>3, FS_Singleton
<1> QED BY <1>1, <1>2 DEF Execution!BarrierHolds

-----------------------------------------------------------------------------
(* Who sleeps on cvar0                                                      *)

LEMMA SleepersFrame ==
    ASSUME Sleepers, Places, NEW t \in Everyone, NEW to, pc' = [pc EXCEPT ![t] = to],
           UNCHANGED cvar0, pc[t] = "asleep" => t \notin Execution!ToSet(cvar0)
    PROVE  Sleepers'
<1>1. \A k \in 1..Len(cvar0) : cvar0[k] \in Everyone /\ cvar0[k] # t
    BY DEF Sleepers, Everyone, Execution!ToSet
<1>2. \A u \in Everyone : u # t => pc'[u] = pc[u]
    BY DEF Places
<1> QED BY <1>1, <1>2 DEF Sleepers

LEMMA SleepersShrink ==
    ASSUME Sleepers, Places, NEW t \in Everyone, NEW to, pc' = [pc EXCEPT ![t] = to],
           pc[t] # "asleep", cvar0' = IF cvar0 = <<>> THEN <<>> ELSE Tail(cvar0)
    PROVE  Sleepers'
<1>1. \A k \in 1..Len(cvar0) : pc'[cvar0[k]] = "asleep"
    BY DEF Sleepers, Places, Everyone
<1>2. CASE cvar0 = <<>>
    BY <1>2, <1>1 DEF Sleepers
<1>3. CASE cvar0 # <<>>
  <2> DEFINE rest == Tail(cvar0)
  <2>1. /\ rest \in Seq(Bouncers) /\ cvar0' = rest
        /\ \A k \in 1..Len(rest) : rest[k] = cvar0[k + 1] /\ k + 1 \in 1..Len(cvar0)
      BY <1>3, TailFacts DEF Sleepers
  <2>2. \A k, l \in 1..Len(rest) : rest[k] = rest[l] => k = l
    <3> TAKE k, l \in 1..Len(rest)
    <3>1. rest[k] = rest[l] => k + 1 = l + 1
        BY <2>1 DEF Sleepers
    <3> QED BY <3>1
  <2> HIDE DEF rest
  <2> QED BY <2>1, <2>2, <1>1 DEF Sleepers
<1> QED BY <1>2, <1>3

LEMMA SleepersGrow ==
    ASSUME Sleepers, Places, NEW t \in Bouncers, pc' = [pc EXCEPT ![t] = "asleep"],
           pc[t] # "asleep", cvar0' = Append(cvar0, t)
    PROVE  Sleepers'
<1> DEFINE long == Append(cvar0, t)
<1>1. /\ long \in Seq(Bouncers) /\ cvar0' = long
      /\ Len(long) = Len(cvar0) + 1 /\ Len(cvar0) \in Nat
      /\ \A k \in 1..Len(cvar0) : long[k] = cvar0[k]
      /\ long[Len(cvar0) + 1] = t
      /\ \A k \in 1..Len(long) : k \in 1..Len(cvar0) \/ k = Len(cvar0) + 1
    BY AppendFacts DEF Sleepers
<1>2. \A k \in 1..Len(cvar0) : cvar0[k] # t /\ pc'[cvar0[k]] = "asleep"
    BY DEF Sleepers, Places, Everyone
<1>3. pc'[t] = "asleep"
    BY DEF Places, Everyone
<1> HIDE DEF long
<1> QED BY <1>1, <1>2, <1>3 DEF Sleepers

LEMMA BounceSleepers ==
    ASSUME Sleepers, Places, NEW t \in Bouncers, Execution!Bounce(t)
    PROVE  Sleepers'
<1>0. t \in Everyone
    BY DEF Everyone
<1>1. CASE Execution!AskFirst(t)
    BY <1>0, <1>1, SleepersFrame DEF Execution!AskFirst, Execution!Go
<1>2. CASE Execution!TryLock(t)
    BY <1>0, <1>2, SleepersFrame DEF Execution!TryLock, Execution!Go
<1>3. CASE Execution!AskToBounce(t)
    BY <1>0, <1>3, SleepersFrame DEF Execution!AskToBounce, Execution!Go
<1>4. CASE Execution!Delay(t)
    BY <1>0, <1>4, SleepersFrame DEF Execution!Delay, Execution!Go
<1>5. CASE Execution!EndDelay(t)
    BY <1>0, <1>5, SleepersFrame DEF Execution!EndDelay, Execution!Go
<1>6. CASE Execution!Wake(t)
    BY <1>0, <1>6, SleepersFrame DEF Execution!Wake, Execution!Go
<1>7. CASE Execution!Claim(t)
    BY <1>0, <1>7, SleepersFrame DEF Execution!Claim, Execution!Go
<1>8. CASE Execution!Sleep(t)
    BY <1>0, <1>8, SleepersGrow DEF Execution!Sleep, Execution!Go
<1>9. CASE Execution!Signal(t)
    BY <1>0, <1>9, SleepersShrink DEF Execution!Signal, Execution!Go
<1>10. CASE Execution!NextBounce(t)
  <2> DEFINE to == IF i[t] + 1 < BOUNCES THEN "bounce" ELSE "bounced"
  <2>1. pc[t] = "unlock" /\ pc' = [pc EXCEPT ![t] = to] /\ UNCHANGED cvar0
      BY <1>10 DEF Execution!NextBounce, Execution!Go
  <2> HIDE DEF to
  <2> QED BY <1>0, <2>1, SleepersFrame
<1> QED BY <1>1, <1>2, <1>3, <1>4, <1>5, <1>6, <1>7, <1>8, <1>9, <1>10 DEF Execution!Bounce

LEMMA LineUpSleepers ==
    ASSUME Sleepers, Places, NEW t \in Bouncers, Execution!LineUp(t)
    PROVE  Sleepers'
<1>0. t \in Everyone
    BY DEF Everyone
<1>1. PICK to : pc' = [pc EXCEPT ![t] = to] /\ UNCHANGED cvar0 /\ pc[t] # "asleep"
    BY DEF Execution!LineUp, Execution!Go, Execution!bounce,
       Execution!AskAgain, Execution!SetDone, Execution!Post, Execution!SleepForMain,
       Execution!WakeByMain,
       Execution!Leave, Execution!Arrive, Execution!Pass, Execution!SetBarrierDone,
       Execution!LastPost
<1> QED BY <1>0, <1>1, SleepersFrame

LEMMA MainSleepers ==
    ASSUME Sleepers, Places, Execution!MainThread
    PROVE  Sleepers'
<1>0. Execution!Main \in Everyone /\ pc[Execution!Main] # "asleep"
    BY DEF Everyone, Places, MainLabels, AsksBouncers
<1>1. PICK to : pc' = [pc EXCEPT ![Execution!Main] = to] /\ UNCHANGED cvar0
    BY DEF Execution!MainThread, Execution!Go, Execution!bounce,
       Execution!TestBounce, Execution!TestBarrier, Execution!SemWait, Execution!AskToWake,
       Execution!Broadcast,
       Execution!Release, Execution!Join
<1> QED BY <1>0, <1>1, SleepersFrame

-----------------------------------------------------------------------------
(* The turns: most steps change nothing of them.                            *)

LEMMA TurnTypes ==
    ASSUME Places
    PROVE  /\ \A t \in Bouncers : Turn(t) \in Nat /\ i[t] \in Nat
           /\ 0 \in Bouncers
BY Identities DEF Places, Turn, Bouncers

\* The mutex may be asked for, but not in order to sleep, or given up.
LockMoves ==
    \/ lock' = lock
    \/ lock # <<>> /\ lock' = Tail(lock)
    \/ \E t \in Everyone : pc'[t] # "wait" /\ lock' = Append(lock, t)

NoNewWaiter ==
    \A u \in Everyone : pc'[u] = "wait" => pc[u] = "wait" /\ Turn(u)' = Turn(u)

Quiet ==
    /\ cvar0' = cvar0
    /\ Starting' <=> Starting
    /\ NoNewWaiter
    /\ LockMoves
    /\ \A u \in Bouncers :
          /\ Turn(u)' = Turn(u)
          /\ Late(u)' => Late(u)
          /\ Chosen(u)' => Chosen(u)

LEMMA WaitersKept ==
    ASSUME WaitersInTurn, Queue, NoNewWaiter, LockMoves
    PROVE  WaitersInTurn'
<1>0. lock \in Seq(Everyone)
    BY DEF Queue
<1>1. CASE lock' = lock
  <2> SUFFICES ASSUME NEW k \in 1..Len(lock), NEW l \in 1..Len(lock), k < l,
                      pc'[lock[k]] = "wait", pc'[lock[l]] = "wait"
               PROVE  Turn(lock[k])' <= Turn(lock[l])'
      BY <1>1 DEF WaitersInTurn, Turn
  <2>1. lock[k] \in Everyone /\ lock[l] \in Everyone
      BY <1>0
  <2>2. Turn(lock[k]) <= Turn(lock[l])
      BY <2>1 DEF WaitersInTurn, NoNewWaiter
  <2> QED BY <2>1, <2>2, <1>1 DEF NoNewWaiter, Turn
<1>2. CASE lock # <<>> /\ lock' = Tail(lock)
  <2> DEFINE rest == Tail(lock)
  <2>1. \A k \in 1..Len(rest) : rest[k] = lock[k + 1] /\ k + 1 \in 1..Len(lock)
                                /\ rest[k] \in Everyone
      BY <1>0, <1>2, TailFacts
  <2>2. lock' = rest
      BY <1>2
  <2> HIDE DEF rest
  <2> SUFFICES ASSUME NEW k \in 1..Len(lock'), NEW l \in 1..Len(lock'), k < l,
                      pc'[lock'[k]] = "wait", pc'[lock'[l]] = "wait"
               PROVE  Turn(lock[k])' <= Turn(lock[l])'
      BY DEF WaitersInTurn, Turn
  <2>3. /\ k + 1 < l + 1 /\ k + 1 \in 1..Len(lock) /\ l + 1 \in 1..Len(lock)
        /\ lock'[k] = lock[k + 1] /\ lock'[l] = lock[l + 1]
        /\ lock[k + 1] \in Everyone /\ lock[l + 1] \in Everyone
      BY <2>1, <2>2
  <2>4. Turn(lock[k + 1]) <= Turn(lock[l + 1])
      BY <2>3 DEF WaitersInTurn, NoNewWaiter
  <2> QED BY <2>3, <2>4 DEF NoNewWaiter, Turn
<1>3. ASSUME NEW t \in Everyone, pc'[t] # "wait", lock' = Append(lock, t)
      PROVE  WaitersInTurn'
  <2> DEFINE long == Append(lock, t)
  <2>1. /\ lock' = long /\ Len(lock) \in Nat /\ Len(long) = Len(lock) + 1
        /\ \A k \in 1..Len(lock) : long[k] = lock[k] /\ lock[k] \in Everyone
        /\ long[Len(lock) + 1] = t
        /\ \A k \in 1..Len(long) : k \in 1..Len(lock) \/ k = Len(lock) + 1
      BY <1>0, <1>3, AppendFacts
  <2> HIDE DEF long
  <2> SUFFICES ASSUME NEW k \in 1..Len(lock'), NEW l \in 1..Len(lock'), k < l,
                      pc'[lock'[k]] = "wait", pc'[lock'[l]] = "wait"
               PROVE  Turn(lock[k])' <= Turn(lock[l])'
      BY DEF WaitersInTurn, Turn
  <2>2. k \in 1..Len(lock) /\ l \in 1..Len(lock)
      BY <2>1, <1>3
  <2>3. Turn(lock[k]) <= Turn(lock[l])
      BY <2>1, <2>2 DEF WaitersInTurn, NoNewWaiter
  <2> QED BY <2>1, <2>2, <2>3 DEF NoNewWaiter, Turn
<1> QED BY <1>1, <1>2, <1>3 DEF LockMoves

LEMMA QuietInTurn ==
    ASSUME InTurn, Places, Queue, Sleepers, Quiet
    PROVE  InTurn'
<1>0. /\ \A k \in 1..Len(cvar0) : cvar0[k] \in Bouncers
      /\ \A u \in Bouncers : Turn(u)' = Turn(u) /\ u \in Everyone
    BY DEF Sleepers, Quiet, Everyone
<1>1. SleepersInTurn'
    BY <1>0 DEF InTurn, SleepersInTurn, Quiet, Turn
<1>2. WaitersInTurn'
    BY WaitersKept DEF InTurn, Quiet
<1>3. SleepersFirst'
    BY <1>0 DEF InTurn, SleepersFirst, Quiet, NoNewWaiter, Turn
<1>4. \A u \in Bouncers : (Ahead(u)' <=> Ahead(u)) /\ (Behind(u)' <=> Behind(u))
    BY <1>0 DEF Ahead, Behind
<1>5. OneLate'
    BY <1>4 DEF InTurn, OneLate, Quiet
<1>6. OneChosen'
    BY <1>4 DEF InTurn, OneChosen, Quiet
<1>7. Together'
    BY <1>0 DEF InTurn, Together
<1> QED BY <1>1, <1>2, <1>3, <1>5, <1>6, <1>7 DEF InTurn

LEMMA Elsewhere ==
    ASSUME Places, Begin, ClaimStands, NEW t \in Everyone, NEW to,
           to \notin Bouncing, t \in Bouncers => pc[t] \notin Bouncing,
           pc' = [pc EXCEPT ![t] = to], UNCHANGED <<i, cvar0, curr_bounce_thread>>,
           lock' = lock \/ (lock # <<>> /\ lock' = Tail(lock)) \/ lock' = Append(lock, t)
    PROVE  Quiet /\ Begin' /\ ClaimStands'
<1> USE DEF Bouncing, Before
<1>1. /\ \A u \in Bouncers : u \in Everyone
      /\ \A u \in Everyone : pc'[u] = (IF u = t THEN to ELSE pc[u])
      /\ pc[t] \notin Bouncing
    BY Identities DEF Places, Everyone, MainLabels, AsksBouncers, Bouncers
<1>2. \A u \in Bouncers : /\ Turn(u)' = Turn(u)
                          /\ Late(u)' <=> Late(u)
                          /\ Chosen(u)' <=> Chosen(u)
                          /\ pc'[u] \in Before <=> pc[u] \in Before
    BY <1>1 DEF Turn, Late, Chosen, Woken
<1>3. Starting' <=> Starting
    BY <1>1, TurnTypes DEF Starting
<1>4. NoNewWaiter
    BY <1>1 DEF NoNewWaiter, Turn
<1>5. Quiet
  <2>1. LockMoves
      BY <1>1 DEF LockMoves
  <2> QED BY <2>1, <1>2, <1>3, <1>4 DEF Quiet
<1>6. Begin'
  <2>1. CASE Starting
    <3>1. \A u \in Bouncers : pc'[u] = pc[u]
        BY <2>1, <1>1 DEF Begin
    <3> QED BY <3>1, <2>1, <1>2, <1>3 DEF Begin
  <2>2. CASE ~Starting
      BY <2>2, <1>2, <1>3 DEF Begin
  <2> QED BY <2>1, <2>2
<1>7. ClaimStands'
    BY <1>1 DEF ClaimStands
<1> QED BY <1>5, <1>6, <1>7

LEMMA LineUpTurns ==
    ASSUME Places, Queue, Sleepers, Begin, InTurn, ClaimStands,
           NEW t \in Bouncers, Execution!LineUp(t)
    PROVE  Begin' /\ InTurn' /\ ClaimStands'
<1>1. PICK to : /\ pc' = [pc EXCEPT ![t] = to] /\ to \notin Bouncing /\ pc[t] \notin Bouncing
                /\ UNCHANGED <<i, cvar0, curr_bounce_thread>>
                /\ \/ lock' = lock
                   \/ lock # <<>> /\ lock' = Tail(lock)
                   \/ lock' = Append(lock, t)
    BY DEF Execution!LineUp, Execution!Go, Execution!bounce, Execution!Ask, Execution!Unlock,
       Execution!Owns, Bouncing, Before,
       Execution!AskAgain, Execution!SetDone, Execution!Post, Execution!SleepForMain,
       Execution!WakeByMain,
       Execution!Leave, Execution!Arrive, Execution!Pass, Execution!SetBarrierDone,
       Execution!LastPost
<1> QED BY <1>1, Elsewhere, QuietInTurn DEF Everyone

LEMMA MainTurns ==
    ASSUME Places, Queue, Sleepers, Begin, InTurn, ClaimStands, Execution!MainThread
    PROVE  Begin' /\ InTurn' /\ ClaimStands'
<1> DEFINE t == Execution!Main
<1>0. t \in Everyone /\ t \notin Bouncers
    BY Identities DEF Everyone, Bouncers
<1>1. PICK to : /\ pc' = [pc EXCEPT ![t] = to] /\ to \notin Bouncing
                /\ UNCHANGED <<i, cvar0, curr_bounce_thread>>
                /\ \/ lock' = lock
                   \/ lock # <<>> /\ lock' = Tail(lock)
                   \/ lock' = Append(lock, t)
    BY DEF Execution!MainThread, Execution!Go, Execution!bounce, Execution!Ask,
       Execution!Unlock, Execution!Owns, Bouncing, Before,
       Execution!TestBounce, Execution!TestBarrier, Execution!SemWait, Execution!AskToWake,
       Execution!Broadcast,
       Execution!Release, Execution!Join
<1> QED BY <1>0, <1>1, Elsewhere, QuietInTurn


-----------------------------------------------------------------------------
(* The turns: the steps of the first phase.                                 *)

LEMMA Moved ==
    ASSUME Places, NEW t \in Bouncers, NEW to, pc' = [pc EXCEPT ![t] = to]
    PROVE  /\ \A u \in Bouncers : u \in Everyone
           /\ \A u \in Everyone : pc'[u] = (IF u = t THEN to ELSE pc[u])
           /\ \A u \in Bouncers : i[u] \in Nat
           /\ 0 \in Bouncers
BY TurnTypes DEF Places, Everyone

LEMMA AskFirstTurns ==
    ASSUME Places, Queue, Sleepers, Begin, InTurn, ClaimStands,
           NEW t \in Bouncers, Execution!AskFirst(t)
    PROVE  Begin' /\ InTurn' /\ ClaimStands'
<1>1. /\ pc[t] = "start" /\ pc' = [pc EXCEPT ![t] = "trylock"]
      /\ i' = i /\ cvar0' = cvar0 /\ curr_bounce_thread' = curr_bounce_thread
      /\ lock' = Append(lock, t)
    BY DEF Execution!AskFirst, Execution!Go, Execution!Ask
<1>2. /\ \A u \in Bouncers : u \in Everyone
      /\ \A u \in Everyone : pc'[u] = (IF u = t THEN "trylock" ELSE pc[u])
      /\ \A u \in Bouncers : i[u] \in Nat
      /\ 0 \in Bouncers
    BY <1>1, Moved
<1>3. Starting /\ Starting'
    BY <1>1, <1>2 DEF Begin, Starting, Before
<1>4. \A u \in Bouncers : /\ Turn(u)' = Turn(u)
                          /\ Late(u)' <=> Late(u)
                          /\ Chosen(u)' <=> Chosen(u)
    BY <1>1, <1>2 DEF Turn, Late, Chosen, Woken
<1>5. NoNewWaiter /\ LockMoves
    BY <1>1, <1>2 DEF NoNewWaiter, LockMoves, Turn
<1>6. Quiet
    BY <1>1, <1>3, <1>4, <1>5 DEF Quiet
<1>7. Begin'
    BY <1>1, <1>2, <1>3, <1>4 DEF Begin, Before
<1>8. ClaimStands'
    BY <1>1, <1>2 DEF ClaimStands
<1> QED BY <1>6, <1>7, <1>8, QuietInTurn

LEMMA DelayTurns ==
    ASSUME Places, Queue, Sleepers, Begin, InTurn, ClaimStands,
           NEW t \in Bouncers, Execution!Delay(t)
    PROVE  Begin' /\ InTurn' /\ ClaimStands'
<1>1. /\ pc[t] = "wait" /\ pc' = [pc EXCEPT ![t] = "delay"] /\ t = 0 /\ i[t] = 0
      /\ i' = i /\ cvar0' = cvar0 /\ curr_bounce_thread' = curr_bounce_thread
      /\ lock # <<>> /\ lock' = Tail(lock)
    BY DEF Execution!Delay, Execution!VeryFirst, Execution!Go, Execution!Unlock, Execution!Owns
<1>2. /\ \A u \in Bouncers : u \in Everyone
      /\ \A u \in Everyone : pc'[u] = (IF u = t THEN "delay" ELSE pc[u])
      /\ \A u \in Bouncers : i[u] \in Nat
      /\ 0 \in Bouncers
    BY <1>1, Moved
<1>3. Starting /\ Starting'
    BY <1>1, <1>2 DEF Starting, Before
<1>4. \A u \in Bouncers : /\ Turn(u)' = Turn(u)
                          /\ Late(u)' <=> Late(u)
                          /\ Chosen(u)' <=> Chosen(u)
    BY <1>1, <1>2 DEF Turn, Late, Chosen, Woken
<1>5. NoNewWaiter /\ LockMoves
    BY <1>1, <1>2 DEF NoNewWaiter, LockMoves, Turn
<1>6. Quiet
    BY <1>1, <1>3, <1>4, <1>5 DEF Quiet
<1>7. Begin'
    BY <1>1, <1>2, <1>3, <1>4 DEF Begin, Before
<1>8. ClaimStands'
    BY <1>1, <1>2 DEF ClaimStands
<1> QED BY <1>6, <1>7, <1>8, QuietInTurn

LEMMA WakeTurns ==
    ASSUME Places, Queue, Sleepers, Begin, InTurn, ClaimStands,
           NEW t \in Bouncers, Execution!Wake(t)
    PROVE  Begin' /\ InTurn' /\ ClaimStands'
<1>1. /\ pc[t] = "asleep" /\ pc' = [pc EXCEPT ![t] = "claim"]
      /\ i' = i /\ cvar0' = cvar0 /\ curr_bounce_thread' = curr_bounce_thread
      /\ lock' = Append(lock, t)
    BY DEF Execution!Wake, Execution!Go, Execution!Ask
<1>2. /\ \A u \in Bouncers : u \in Everyone
      /\ \A u \in Everyone : pc'[u] = (IF u = t THEN "claim" ELSE pc[u])
      /\ \A u \in Bouncers : i[u] \in Nat
      /\ 0 \in Bouncers
    BY <1>1, Moved
<1>3. Chosen(t)
    BY <1>1 DEF Execution!Wake, Execution!ToSet, Sleepers, Chosen, Woken
<1>4. ~Starting /\ ~Starting'
    BY <1>1, <1>2, <1>3 DEF Begin, Starting, Before
<1>5. \A u \in Bouncers : /\ Turn(u)' = Turn(u)
                          /\ Late(u)' <=> Late(u)
                          /\ Chosen(u)' => Chosen(u)
    BY <1>1, <1>2, <1>3 DEF Turn, Late, Chosen, Woken
<1>6. NoNewWaiter /\ LockMoves
    BY <1>1, <1>2 DEF NoNewWaiter, LockMoves, Turn
<1>7. Quiet
    BY <1>1, <1>4, <1>5, <1>6 DEF Quiet
<1>8. Begin'
    BY <1>1, <1>2, <1>4 DEF Begin, Before
<1>9. ClaimStands'
    BY <1>1, <1>2 DEF ClaimStands
<1> QED BY <1>7, <1>8, <1>9, QuietInTurn

LEMMA ClaimTurns ==
    ASSUME Places, Queue, Sleepers, Begin, InTurn, ClaimStands,
           NEW t \in Bouncers, Execution!Claim(t)
    PROVE  Begin' /\ InTurn' /\ ClaimStands'
<1>1. /\ pc[t] = "claim" /\ pc' = [pc EXCEPT ![t] = "check"] /\ Execution!Owns(t)
      /\ i' = i /\ cvar0' = cvar0 /\ curr_bounce_thread' = t /\ lock' = lock
    BY DEF Execution!Claim, Execution!Go
<1>2. /\ \A u \in Bouncers : u \in Everyone
      /\ \A u \in Everyone : pc'[u] = (IF u = t THEN "check" ELSE pc[u])
      /\ \A u \in Bouncers : i[u] \in Nat
      /\ 0 \in Bouncers
    BY <1>1, Moved
<1>3. Chosen(t)
    BY <1>1 DEF Chosen
<1>4. ~Starting /\ ~Starting'
    BY <1>1, <1>2, <1>3 DEF Begin, Starting, Before
<1>5. \A u \in Bouncers : /\ Turn(u)' = Turn(u)
                          /\ Late(u)' <=> Late(u)
                          /\ Chosen(u)' => Chosen(u)
    BY <1>1, <1>2, <1>3 DEF Turn, Late, Chosen, Woken
<1>6. NoNewWaiter /\ LockMoves
    BY <1>1, <1>2 DEF NoNewWaiter, LockMoves, Turn
<1>7. Quiet
    BY <1>1, <1>4, <1>5, <1>6 DEF Quiet
<1>8. Begin'
    BY <1>1, <1>2, <1>4 DEF Begin, Before
<1>9. ClaimStands'
    BY <1>1, <1>2 DEF ClaimStands, Queue, Owning, Execution!Owns
<1> QED BY <1>7, <1>8, <1>9, QuietInTurn

LEMMA NextBounceTurns ==
    ASSUME Places, Queue, Sleepers, Begin, InTurn, ClaimStands,
           NEW t \in Bouncers, Execution!NextBounce(t)
    PROVE  Begin' /\ InTurn' /\ ClaimStands'
<1> DEFINE to == IF i[t] + 1 < BOUNCES THEN "bounce" ELSE "bounced"
<1>1. /\ pc[t] = "unlock" /\ pc' = [pc EXCEPT ![t] = to]
      /\ i' = [i EXCEPT ![t] = @ + 1] /\ i \in [Bouncers -> Nat]
      /\ cvar0' = cvar0 /\ curr_bounce_thread' = curr_bounce_thread
      /\ lock # <<>> /\ lock' = Tail(lock)
    BY Identities
       DEF Execution!NextBounce, Execution!Go, Execution!Unlock, Execution!Owns, Places
<1>2. to \in {"bounce", "bounced"}
    OBVIOUS
<1> HIDE DEF to
<1>3. /\ \A u \in Bouncers : u \in Everyone
      /\ \A u \in Everyone : pc'[u] = (IF u = t THEN to ELSE pc[u])
      /\ \A u \in Bouncers : i[u] \in Nat /\ i'[u] = (IF u = t THEN i[t] + 1 ELSE i[u])
      /\ 0 \in Bouncers
    BY <1>1, Moved
<1>4. ~Starting /\ ~Starting'
    BY <1>1, <1>2, <1>3 DEF Begin, Starting, Before
<1>5. \A u \in Bouncers : /\ Turn(u)' = Turn(u)
                          /\ Late(u)' => Late(u)
                          /\ Chosen(u)' <=> Chosen(u)
    BY <1>1, <1>2, <1>3 DEF Turn, Late, Chosen, Woken
<1>6. NoNewWaiter /\ LockMoves
  <2>1. \A u \in Everyone : pc'[u] = "wait" => u # t /\ pc[u] = "wait" /\ u \in Bouncers
      BY <1>2, <1>3 DEF Places, MainLabels, AsksBouncers, Everyone
  <2> QED BY <1>1, <1>5, <2>1 DEF NoNewWaiter, LockMoves
<1>7. Quiet
    BY <1>1, <1>4, <1>5, <1>6 DEF Quiet
<1>8. Begin'
    BY <1>2, <1>3, <1>4 DEF Begin, Before
<1>9. ClaimStands'
    BY <1>1, <1>2, <1>3 DEF ClaimStands
<1> QED BY <1>7, <1>8, <1>9, QuietInTurn


LEMMA StartTurns ==
    ASSUME Places, Begin, Starting
    PROVE  \A u \in Bouncers : /\ Turn(u) = 0 /\ ~Chosen(u) /\ i[u] = 0
                               /\ pc[u] \in Before \cup {"bounce", "wait", "asleep"}
BY DEF Begin, Turn, Before

LEMMA TryLockTurns ==
    ASSUME Places, Queue, Sleepers, Begin, InTurn, ClaimStands,
           NEW t \in Bouncers, Execution!TryLock(t)
    PROVE  Begin' /\ InTurn' /\ ClaimStands'
<1>1. /\ pc[t] = "trylock" /\ pc' = [pc EXCEPT ![t] = "bounce"]
      /\ i' = i /\ cvar0' = cvar0 /\ curr_bounce_thread' = curr_bounce_thread
      /\ lock # <<>> /\ lock' = Tail(lock)
    BY DEF Execution!TryLock, Execution!Go, Execution!Unlock, Execution!Owns
<1>2. /\ \A u \in Bouncers : u \in Everyone
      /\ \A u \in Everyone : pc'[u] = (IF u = t THEN "bounce" ELSE pc[u])
      /\ \A u \in Bouncers : i[u] \in Nat
      /\ 0 \in Bouncers
    BY <1>1, Moved
<1>3. Starting /\ Starting'
    BY <1>1, <1>2 DEF Begin, Starting, Before
<1>4. \A u \in Bouncers : Turn(u)' = 0 /\ Turn(u) = 0 /\ ~Chosen(u)'
  <2>1. \A u \in Bouncers : Turn(u)' = Turn(u) /\ (Chosen(u)' <=> Chosen(u))
      BY <1>1, <1>2 DEF Turn, Chosen, Woken
  <2> QED BY <2>1, <1>3, StartTurns
<1>5. NoNewWaiter /\ LockMoves
  <2>1. \A u \in Everyone : pc'[u] = "wait" => pc[u] = "wait" /\ u \in Bouncers
      BY <1>1, <1>2 DEF Places, MainLabels, AsksBouncers, Everyone
  <2> QED BY <1>1, <1>4, <2>1 DEF NoNewWaiter, LockMoves
<1>6. SleepersInTurn' /\ SleepersFirst'
  <2>1. \A k \in 1..Len(cvar0) : cvar0[k] \in Bouncers
      BY DEF Sleepers
  <2> QED BY <2>1, <1>1, <1>4 DEF SleepersInTurn, SleepersFirst, Turn
<1>7. WaitersInTurn'
    BY <1>5, WaitersKept DEF InTurn
<1>8. OneLate' /\ OneChosen' /\ Together'
    BY <1>3, <1>4 DEF OneLate, Ahead, OneChosen, Together
<1>9. Begin'
    BY <1>1, <1>2, <1>3, <1>4 DEF Begin, Before
<1>10. ClaimStands'
    BY <1>1, <1>2 DEF ClaimStands
<1> QED BY <1>6, <1>7, <1>8, <1>9, <1>10 DEF InTurn

\* The one that is late has had as many turns as anybody, so it queues last.
LEMMA AskToBounceTurns ==
    ASSUME Places, Queue, Sleepers, Begin, InTurn, ClaimStands,
           NEW t \in Bouncers, Execution!AskToBounce(t)
    PROVE  Begin' /\ InTurn' /\ ClaimStands'
<1>1. /\ pc[t] = "bounce" /\ pc' = [pc EXCEPT ![t] = "wait"]
      /\ i' = i /\ cvar0' = cvar0 /\ curr_bounce_thread' = curr_bounce_thread
      /\ lock' = Append(lock, t)
    BY DEF Execution!AskToBounce, Execution!Go, Execution!Ask
<1>2. /\ \A u \in Bouncers : u \in Everyone
      /\ \A u \in Everyone : pc'[u] = (IF u = t THEN "wait" ELSE pc[u])
      /\ \A u \in Bouncers : i[u] \in Nat
      /\ 0 \in Bouncers
    BY <1>1, Moved
<1>3. Starting' <=> Starting
    BY <1>1, <1>2 DEF Starting
<1>4. \A u \in Bouncers : /\ Turn(u)' = Turn(u)
                          /\ Late(u)' => Late(u)
                          /\ Chosen(u)' <=> Chosen(u)
                          /\ Ahead(u)' <=> Ahead(u)
                          /\ Behind(u)' <=> Behind(u)
  <2>1. \A u \in Bouncers : Turn(u)' = Turn(u)
      BY <1>1, <1>2 DEF Turn
  <2> QED BY <2>1, <1>1, <1>2 DEF Late, Chosen, Woken, Ahead, Behind
<1>5. Ahead(t)
    BY <1>1 DEF InTurn, OneLate, Late
<1>6. \A k \in 1..Len(cvar0) : cvar0[k] \in Bouncers
    BY DEF Sleepers
<1>7. SleepersInTurn'
    BY <1>1, <1>4, <1>6 DEF InTurn, SleepersInTurn, Turn
<1>8. SleepersFirst'
  <2> SUFFICES ASSUME NEW k \in 1..Len(cvar0), NEW u \in Bouncers, pc'[u] = "wait"
               PROVE  Turn(cvar0[k]) <= Turn(u)
      BY <1>1, <1>4, <1>6 DEF SleepersFirst, Turn
  <2>1. CASE u = t
      BY <2>1, <1>5, <1>6 DEF Ahead
  <2>2. CASE u # t
      BY <2>2, <1>2 DEF InTurn, SleepersFirst
  <2> QED BY <2>1, <2>2
<1>9. WaitersInTurn'
  <2>0. lock \in Seq(Everyone) /\ t \in Everyone
      BY <1>2 DEF Queue
  <2>1. /\ Len(lock) \in Nat /\ Len(lock') = Len(lock) + 1
        /\ \A k \in 1..Len(lock) : lock'[k] = lock[k] /\ lock[k] \in Everyone
        /\ lock'[Len(lock) + 1] = t
        /\ \A k \in 1..Len(lock') : k \in 1..Len(lock) \/ k = Len(lock) + 1
      BY <1>1, <2>0, AppendFacts
  <2>2. \A k \in 1..Len(lock) : lock[k] # t
      BY <1>1 DEF Queue, Queued
  <2> SUFFICES ASSUME NEW k \in 1..Len(lock'), NEW l \in 1..Len(lock'), k < l,
                      pc'[lock'[k]] = "wait", pc'[lock'[l]] = "wait"
               PROVE  Turn(lock[k])' <= Turn(lock[l])'
      BY DEF WaitersInTurn, Turn
  <2>3. k \in 1..Len(lock) /\ lock'[k] = lock[k] /\ lock[k] \in Everyone /\ lock[k] # t
      BY <2>1, <2>2
  <2>4. pc[lock[k]] = "wait" /\ lock[k] \in Bouncers
      BY <2>3, <1>2 DEF Places, MainLabels, AsksBouncers, Everyone
  <2>5. CASE l = Len(lock) + 1
    <3>1. Turn(lock[k]) <= Turn(t) /\ lock'[l] = t
        BY <2>1, <2>4, <2>5, <1>5 DEF Ahead
    <3> QED BY <3>1, <2>3, <2>4, <1>4 DEF Turn
  <2>6. CASE l \in 1..Len(lock)
    <3>1. lock'[l] = lock[l] /\ lock[l] \in Everyone /\ lock[l] # t
        BY <2>1, <2>2, <2>6
    <3>2. pc[lock[l]] = "wait" /\ lock[l] \in Bouncers
        BY <3>1, <1>2 DEF Places, MainLabels, AsksBouncers, Everyone
    <3>3. Turn(lock[k]) <= Turn(lock[l])
        BY <2>3, <2>4, <2>6, <3>2 DEF InTurn, WaitersInTurn
    <3> QED BY <2>3, <2>4, <3>1, <3>2, <3>3, <1>4 DEF Turn
  <2> QED BY <2>1, <2>5, <2>6
<1>10. OneLate' /\ OneChosen' /\ Together'
    BY <1>3, <1>4 DEF InTurn, OneLate, OneChosen, Together
<1>11. Begin'
    BY <1>1, <1>2, <1>3, <1>4 DEF Begin, Before
<1>12. ClaimStands'
    BY <1>1, <1>2 DEF ClaimStands
<1> QED BY <1>7, <1>8, <1>9, <1>10, <1>11, <1>12 DEF InTurn

\* The first that waits for the mutex is the next to sleep, behind the others.
LEMMA SleepTurns ==
    ASSUME Places, Queue, Sleepers, Begin, InTurn, ClaimStands,
           NEW t \in Bouncers, Execution!Sleep(t)
    PROVE  Begin' /\ InTurn' /\ ClaimStands'
<1>1. /\ pc[t] = "wait" /\ pc' = [pc EXCEPT ![t] = "asleep"] /\ ~(t = 0 /\ i[t] = 0)
      /\ i' = i /\ curr_bounce_thread' = curr_bounce_thread
      /\ lock # <<>> /\ Head(lock) = t /\ lock' = Tail(lock) /\ cvar0' = Append(cvar0, t)
    BY DEF Execution!Sleep, Execution!VeryFirst, Execution!Go, Execution!Unlock, Execution!Owns
<1>2. /\ \A u \in Bouncers : u \in Everyone
      /\ \A u \in Everyone : pc'[u] = (IF u = t THEN "asleep" ELSE pc[u])
      /\ \A u \in Bouncers : i[u] \in Nat
      /\ 0 \in Bouncers
    BY <1>1, Moved
<1>3. /\ Len(cvar0) \in Nat /\ Len(cvar0') = Len(cvar0) + 1
      /\ \A k \in 1..Len(cvar0) : cvar0'[k] = cvar0[k] /\ cvar0[k] \in Bouncers
                                  /\ k \in 1..Len(cvar0')
      /\ cvar0'[Len(cvar0) + 1] = t /\ Len(cvar0) + 1 \in 1..Len(cvar0')
      /\ \A k \in 1..Len(cvar0') : k \in 1..Len(cvar0) \/ k = Len(cvar0) + 1
  <2>1. cvar0 \in Seq(Bouncers) /\ \A k \in 1..Len(cvar0) : cvar0[k] \in Bouncers
      BY DEF Sleepers
  <2>2. /\ Len(cvar0) \in Nat /\ Len(cvar0') = Len(cvar0) + 1
        /\ \A k \in 1..Len(cvar0) : cvar0'[k] = cvar0[k] /\ k \in 1..Len(cvar0')
        /\ cvar0'[Len(cvar0) + 1] = t
        /\ \A k \in 1..Len(cvar0') : k \in 1..Len(cvar0) \/ k = Len(cvar0) + 1
      BY <1>1, <2>1, AppendFacts
  <2> QED BY <2>1, <2>2
<1>4. Starting' <=> Starting
    BY <1>1, <1>2 DEF Starting, Before
<1>5. \A u \in Bouncers : Turn(u)' = Turn(u)
    BY <1>1, <1>2 DEF Turn
<1>6. \A u \in Bouncers : Chosen(u)' <=> Chosen(u)
  <2> TAKE u \in Bouncers
  <2>1. CASE u = t
      BY <2>1, <1>1, <1>2, <1>3 DEF Chosen, Woken
  <2>2. CASE u # t
    <3>1. (\A k \in 1..Len(cvar0') : cvar0'[k] # u) <=> (\A k \in 1..Len(cvar0) : cvar0[k] # u)
        BY <2>2, <1>3
    <3> QED BY <3>1, <2>2, <1>2 DEF Chosen, Woken
  <2> QED BY <2>1, <2>2
<1>7. \A u \in Bouncers : /\ Late(u)' <=> Late(u)
                          /\ Ahead(u)' <=> Ahead(u)
                          /\ Behind(u)' <=> Behind(u)
    BY <1>1, <1>2, <1>5 DEF Late, Ahead, Behind
<1>8. SleepersInTurn'
  <2> SUFFICES ASSUME NEW k \in 1..Len(cvar0'), NEW l \in 1..Len(cvar0'), k < l
               PROVE  Turn(cvar0[k])' <= Turn(cvar0[l])'
      BY DEF SleepersInTurn
  <2>1. k \in 1..Len(cvar0) /\ cvar0'[k] = cvar0[k] /\ cvar0[k] \in Bouncers
      BY <1>3
  <2>2. CASE l = Len(cvar0) + 1
    <3>1. Turn(cvar0[k]) <= Turn(t) /\ cvar0'[l] = t
        BY <2>1, <2>2, <1>1, <1>3 DEF InTurn, SleepersFirst
    <3> QED BY <3>1, <2>1, <1>5 DEF Turn
  <2>3. CASE l \in 1..Len(cvar0)
    <3>1. Turn(cvar0[k]) <= Turn(cvar0[l]) /\ cvar0'[l] = cvar0[l] /\ cvar0[l] \in Bouncers
        BY <2>1, <2>3, <1>3 DEF InTurn, SleepersInTurn
    <3> QED BY <3>1, <2>1, <1>5 DEF Turn
  <2> QED BY <2>2, <2>3, <1>3
<1>9. SleepersFirst'
  <2> SUFFICES ASSUME NEW k \in 1..Len(cvar0'), NEW u \in Bouncers, pc'[u] = "wait"
               PROVE  Turn(cvar0[k])' <= Turn(u)'
      BY DEF SleepersFirst
  <2>1. u # t /\ pc[u] = "wait" /\ u \in Everyone
      BY <1>2
  <2>2. CASE k = Len(cvar0) + 1
    <3>1. PICK l \in 1..Len(lock) : lock[l] = u
        BY <2>1 DEF Queue, Queued
    <3>2. lock[1] = t /\ 1 \in 1..Len(lock) /\ Len(lock) \in Nat
        BY <1>1, TailFacts DEF Queue
    <3>3. 1 < l
        BY <3>1, <3>2, <2>1
    <3>4. Turn(t) <= Turn(u) /\ cvar0'[k] = t
        BY <3>1, <3>2, <3>3, <2>1, <2>2, <1>1, <1>3 DEF InTurn, WaitersInTurn
    <3> QED BY <3>4, <1>5 DEF Turn
  <2>3. CASE k \in 1..Len(cvar0)
    <3>1. Turn(cvar0[k]) <= Turn(u) /\ cvar0'[k] = cvar0[k] /\ cvar0[k] \in Bouncers
        BY <2>1, <2>3, <1>3 DEF InTurn, SleepersFirst
    <3> QED BY <3>1, <1>5 DEF Turn
  <2> QED BY <2>2, <2>3, <1>3
<1>10. WaitersInTurn'
  <2>1. NoNewWaiter /\ LockMoves
      BY <1>1, <1>2 DEF NoNewWaiter, LockMoves, Turn
  <2> QED BY <2>1, WaitersKept DEF InTurn
<1>11. OneLate' /\ OneChosen' /\ Together'
    BY <1>4, <1>5, <1>6, <1>7 DEF InTurn, OneLate, OneChosen, Together
<1>12. Begin'
    BY <1>1, <1>2, <1>4, <1>6 DEF Begin, Before
<1>13. ClaimStands'
    BY <1>1, <1>2 DEF ClaimStands
<1> QED BY <1>8, <1>9, <1>10, <1>11, <1>12, <1>13 DEF InTurn


\* The others have all fallen asleep; worker 0 is the first to be chosen.
LEMMA EndDelayTurns ==
    ASSUME Places, Queue, Sleepers, Begin, InTurn, ClaimStands, DelaySuffices,
           NEW t \in Bouncers, Execution!EndDelay(t)
    PROVE  Begin' /\ InTurn' /\ ClaimStands'
<1>1. /\ pc[t] = "delay" /\ pc' = [pc EXCEPT ![t] = "claim"]
      /\ i' = i /\ cvar0' = cvar0 /\ curr_bounce_thread' = curr_bounce_thread
      /\ lock' = Append(lock, t) /\ Execution!ToSet(cvar0) = Bouncers \ {t}
    BY DEF Execution!EndDelay, Execution!Go, Execution!Ask, Bouncers
<1>2. /\ \A u \in Bouncers : u \in Everyone
      /\ \A u \in Everyone : pc'[u] = (IF u = t THEN "claim" ELSE pc[u])
      /\ \A u \in Bouncers : i[u] \in Nat
      /\ 0 \in Bouncers
    BY <1>1, Moved
<1>3. Starting /\ t = 0 /\ ~Starting'
    BY <1>1, <1>2 DEF Begin, Starting, Before
<1>4. \A u \in Bouncers : u # t => pc[u] = "asleep" /\ \E k \in 1..Len(cvar0) : cvar0[k] = u
  <2> TAKE u \in Bouncers
  <2>1. u # t => \E k \in 1..Len(cvar0) : cvar0[k] = u
      BY <1>1 DEF Execution!ToSet, Sleepers
  <2> QED BY <2>1 DEF Sleepers
<1>5. \A u \in Bouncers : Turn(u)' = 0 /\ Turn(u) = 0 /\ (Chosen(u)' => u = t) /\ ~Late(u)'
  <2>1. \A u \in Bouncers : Turn(u)' = Turn(u) /\ (Chosen(u)' => u = t) /\ ~Late(u)'
      BY <1>1, <1>2, <1>4 DEF Turn, Chosen, Woken, Late
  <2> QED BY <2>1, <1>3, StartTurns
<1>6. NoNewWaiter /\ LockMoves
  <2>1. \A u \in Everyone : pc'[u] = "wait" => pc[u] = "wait" /\ u \in Bouncers
      BY <1>1, <1>2 DEF Places, MainLabels, AsksBouncers, Everyone
  <2> QED BY <1>1, <1>2, <1>5, <2>1 DEF NoNewWaiter, LockMoves
<1>7. SleepersInTurn' /\ SleepersFirst'
  <2>1. \A k \in 1..Len(cvar0) : cvar0[k] \in Bouncers
      BY DEF Sleepers
  <2> QED BY <2>1, <1>1, <1>5 DEF SleepersInTurn, SleepersFirst, Turn
<1>8. WaitersInTurn'
    BY <1>6, WaitersKept DEF InTurn
<1>9. OneLate' /\ OneChosen' /\ Together'
    BY <1>5 DEF OneLate, OneChosen, Behind, Together
<1>10. Begin'
    BY <1>2, <1>3, <1>4 DEF Begin, Before
<1>11. ClaimStands'
    BY <1>1, <1>2 DEF ClaimStands
<1> QED BY <1>7, <1>8, <1>9, <1>10, <1>11 DEF InTurn

\* Who signals was the only one chosen, and had had no more turns than anybody;
\* the sleeper it wakes is the next of which that can be said.
LEMMA SignalTurns ==
    ASSUME Places, Queue, Sleepers, Begin, InTurn, ClaimStands, YieldsSuffice,
           NEW t \in Bouncers, Execution!Signal(t)
    PROVE  Begin' /\ InTurn' /\ ClaimStands'
<1>1. /\ pc[t] = "check" /\ pc' = [pc EXCEPT ![t] = "unlock"] /\ Execution!Owns(t)
      /\ \A u \in Bouncers : u # t => pc[u] \notin {"start", "trylock", "bounce"}
      /\ i' = i /\ lock' = lock /\ curr_bounce_thread' = curr_bounce_thread
      /\ cvar0' = IF cvar0 = <<>> THEN <<>> ELSE Tail(cvar0)
    BY DEF Execution!Signal, Execution!OthersSettled, Execution!Go, Bouncers
<1>2. /\ \A u \in Bouncers : u \in Everyone
      /\ \A u \in Everyone : pc'[u] = (IF u = t THEN "unlock" ELSE pc[u])
      /\ \A u \in Bouncers : i[u] \in Nat
      /\ 0 \in Bouncers
    BY <1>1, Moved
<1>3. Chosen(t) /\ Behind(t) /\ \A u \in Bouncers : Chosen(u) => u = t
    BY <1>1 DEF Chosen, InTurn, OneChosen
<1>4. ~Starting /\ ~Starting'
    BY <1>1, <1>2, <1>3 DEF Begin, Starting, Before
<1>5. \A u \in Bouncers : pc[u] # "unlock"
    BY <1>1, <1>2 DEF Queue, Owning, Execution!Owns
<1>6. \A u \in Bouncers : Turn(u) \in Nat /\ Turn(u)' = Turn(u) + (IF u = t THEN 1 ELSE 0)
    BY <1>1, <1>2, <1>5 DEF Turn
<1>7. \A k \in 1..Len(cvar0) : cvar0[k] \in Bouncers /\ cvar0[k] # t /\ pc[cvar0[k]] = "asleep"
    BY <1>1 DEF Sleepers
<1>8. \A k \in 1..Len(cvar0') : /\ k + 1 \in 1..Len(cvar0) /\ cvar0'[k] = cvar0[k + 1]
                                /\ cvar0'[k] \in Bouncers /\ cvar0'[k] # t
  <2>1. CASE cvar0 = <<>>
      BY <2>1, <1>1
  <2>2. CASE cvar0 # <<>>
      BY <2>2, <1>1, <1>7, TailFacts DEF Sleepers
  <2> QED BY <2>1, <2>2
<1>9. \A k \in 1..Len(cvar0) : k # 1 => \E l \in 1..Len(cvar0') : cvar0'[l] = cvar0[k]
  <2> SUFFICES ASSUME NEW k \in 1..Len(cvar0), k # 1
               PROVE  \E l \in 1..Len(cvar0') : cvar0'[l] = cvar0[k]
      OBVIOUS
  <2>1. cvar0 # <<>> /\ cvar0 \in Seq(Bouncers)
      BY DEF Sleepers
  <2>2. k - 1 \in 1..Len(cvar0') /\ cvar0'[k - 1] = cvar0[k]
      BY <2>1, <1>1, TailFacts
  <2> QED BY <2>2
<1>10. \A u \in Bouncers : Chosen(u)' => u # t /\ 1 \in 1..Len(cvar0) /\ cvar0[1] = u
  <2> SUFFICES ASSUME NEW u \in Bouncers, Chosen(u)'
               PROVE  u # t /\ 1 \in 1..Len(cvar0) /\ cvar0[1] = u
      OBVIOUS
  <2>1. u # t /\ pc'[u] = pc[u]
      BY <1>2 DEF Chosen, Woken
  <2>2. ~Chosen(u)
      BY <2>1, <1>3
  <2>3. pc[u] = "asleep" /\ \A l \in 1..Len(cvar0') : cvar0'[l] # u
      BY <2>1, <2>2 DEF Chosen, Woken
  <2>4. PICK k \in 1..Len(cvar0) : cvar0[k] = u
      BY <2>2, <2>3 DEF Chosen, Woken
  <2>5. k = 1
      BY <2>3, <2>4, <1>9
  <2> QED BY <2>1, <2>4, <2>5
<1>11. \A u \in Bouncers : Chosen(u)' => Behind(u)'
  <2> SUFFICES ASSUME NEW u \in Bouncers, Chosen(u)', NEW v \in Bouncers
               PROVE  Turn(u)' <= Turn(v)'
      BY DEF Behind
  <2>1. u # t /\ 1 \in 1..Len(cvar0) /\ cvar0[1] = u /\ pc[u] = "asleep"
      BY <1>7, <1>10
  <2>2. CASE v = t
      BY <2>1, <2>2, <1>6 DEF InTurn, Together
  <2>3. CASE v # t /\ pc[v] = "asleep"
    <3>1. PICK k \in 1..Len(cvar0) : cvar0[k] = v
        BY <2>3, <1>3 DEF Chosen, Woken
    <3>2. k = 1 \/ 1 < k
        OBVIOUS
    <3>3. Turn(u) <= Turn(v)
        BY <2>1, <3>1, <3>2, <1>6 DEF InTurn, SleepersInTurn
    <3> QED BY <3>3, <2>1, <2>3, <1>6
  <2>4. CASE v # t /\ pc[v] = "wait"
    <3>1. Turn(u) <= Turn(v)
        BY <2>1, <2>4 DEF InTurn, SleepersFirst
    <3> QED BY <3>1, <2>1, <2>4, <1>6
  <2>5. CASE v # t /\ pc[v] \notin Bouncing
    <3>1. i[u] < BOUNCES /\ ~(i[v] < BOUNCES) /\ i[u] \in Nat /\ i[v] \in Nat
        BY <2>1, <2>5, <1>2 DEF Places, Bouncing
    <3>2. Turn(u) = i[u] /\ Turn(v) = i[v]
        BY <2>1, <1>2, <1>5 DEF Turn
    <3> QED BY <3>1, <3>2, <2>1, <2>5, <1>6, Identities
  <2>6. CASE v # t /\ pc[v] \in Bouncing \ {"asleep", "wait"}
    <3>1. pc[v] \notin Before \cup {"bounce", "unlock", "claim", "check"}
        BY <2>6, <1>1, <1>3, <1>4, <1>5 DEF Begin, Chosen
    <3> QED BY <3>1, <2>6 DEF Bouncing
  <2> QED BY <2>2, <2>3, <2>4, <2>5, <2>6
<1>12. \A u \in Bouncers : Late(u)' => u = t
    BY <1>1, <1>2, <1>5 DEF Late
<1>13. OneLate'
  <2>1. Ahead(t)'
    <3> SUFFICES ASSUME NEW u \in Bouncers PROVE Turn(u)' <= Turn(t)'
        BY DEF Ahead
    <3>1. Turn(u) <= Turn(t) + 1
        BY DEF InTurn, Together
    <3> QED BY <3>1, <1>6
  <2> QED BY <2>1, <1>12 DEF OneLate
<1>14. OneChosen'
    BY <1>10, <1>11 DEF OneChosen
<1>15. Together'
  <2> SUFFICES ASSUME NEW u \in Bouncers, NEW v \in Bouncers
               PROVE  Turn(u)' <= Turn(v)' + 1
      BY DEF Together
  <2>1. Turn(u) <= Turn(v) + 1 /\ Turn(t) <= Turn(v)
      BY <1>3 DEF InTurn, Together, Behind
  <2> QED BY <2>1, <1>6
<1>16. SleepersInTurn'
  <2> SUFFICES ASSUME NEW k \in 1..Len(cvar0'), NEW l \in 1..Len(cvar0'), k < l
               PROVE  Turn(cvar0[k])' <= Turn(cvar0[l])'
      BY DEF SleepersInTurn
  <2>1. /\ k + 1 \in 1..Len(cvar0) /\ l + 1 \in 1..Len(cvar0) /\ k + 1 < l + 1
        /\ cvar0'[k] = cvar0[k + 1] /\ cvar0'[l] = cvar0[l + 1]
        /\ cvar0'[k] \in Bouncers \ {t} /\ cvar0'[l] \in Bouncers \ {t}
      BY <1>8
  <2>2. Turn(cvar0[k + 1]) <= Turn(cvar0[l + 1])
      BY <2>1 DEF InTurn, SleepersInTurn
  <2> QED BY <2>1, <2>2, <1>1, <1>2 DEF Turn
<1>17. SleepersFirst'
  <2> SUFFICES ASSUME NEW k \in 1..Len(cvar0'), NEW u \in Bouncers, pc'[u] = "wait"
               PROVE  Turn(cvar0[k])' <= Turn(u)'
      BY DEF SleepersFirst
  <2>1. /\ k + 1 \in 1..Len(cvar0) /\ cvar0'[k] = cvar0[k + 1] /\ cvar0'[k] \in Bouncers \ {t}
        /\ u # t /\ pc[u] = "wait"
      BY <1>2, <1>8
  <2>2. Turn(cvar0[k + 1]) <= Turn(u)
      BY <2>1 DEF InTurn, SleepersFirst
  <2> QED BY <2>1, <2>2, <1>1, <1>2 DEF Turn
<1>18. WaitersInTurn'
  <2>1. NoNewWaiter /\ LockMoves
      BY <1>1, <1>2 DEF NoNewWaiter, LockMoves, Turn
  <2> QED BY <2>1, WaitersKept DEF InTurn
<1>19. Begin'
    BY <1>1, <1>2, <1>4 DEF Begin, Before
<1>20. ClaimStands'
    BY <1>1, <1>2 DEF ClaimStands
<1> QED BY <1>13, <1>14, <1>15, <1>16, <1>17, <1>18, <1>19, <1>20 DEF InTurn

LEMMA BounceTurns ==
    ASSUME Places, Queue, Sleepers, Begin, InTurn, ClaimStands, DelaySuffices, YieldsSuffice,
           NEW t \in Bouncers, Execution!Bounce(t)
    PROVE  Begin' /\ InTurn' /\ ClaimStands'
BY AskFirstTurns, TryLockTurns, AskToBounceTurns, SleepTurns, DelayTurns, EndDelayTurns,
   WakeTurns, ClaimTurns, SignalTurns, NextBounceTurns DEF Execution!Bounce

LEMMA RoundGoes ==
    ASSUME Places, InTurn
    PROVE  Execution!GoesRound
<1> SUFFICES ASSUME NEW t \in Bouncers, NEW u \in Bouncers
             PROVE  i[t] <= i[u] + 1
    BY DEF Execution!GoesRound, Bouncers
<1>1. Turn(t) <= Turn(u) + 1 /\ i[t] \in Nat /\ i[u] \in Nat
    BY DEF InTurn, Together, Places
<1>2. CASE pc[u] = "unlock"
  <2>1. Turn(t) <= Turn(u)
      BY <1>2 DEF InTurn, OneLate, Late, Ahead
  <2> QED BY <2>1, <1>1, <1>2 DEF Turn
<1>3. CASE pc[u] # "unlock"
    BY <1>1, <1>3 DEF Turn
<1> QED BY <1>2, <1>3

LEMMA ClaimIsAlone ==
    ASSUME Places, Sleepers, InTurn, ClaimStands
    PROVE  Execution!NoRace
<1> SUFFICES ASSUME NEW t \in Bouncers, pc[t] = "check", NEW u \in Bouncers \ {t}
             PROVE  /\ curr_bounce_thread = t
                    /\ pc[u] # "claim" /\ (pc[u] = "asleep" => u \in Execution!ToSet(cvar0))
    BY DEF Execution!NoRace, Bouncers, ClaimStands
<1>1. ~Chosen(u)
    BY DEF InTurn, OneChosen, Chosen
<1> QED BY <1>1 DEF ClaimStands, Chosen, Woken, Execution!ToSet, Sleepers


-----------------------------------------------------------------------------
(* test_pthread_execution as a whole                                        *)

LEMMA ExecutionBegins ==
    ASSUME Execution!Init
    PROVE  ExecutionIInv
<1> USE DEF Execution!Init
<1>1. /\ \A t \in Bouncers : t \in Everyone /\ t # Execution!Main /\ pc[t] = "start" /\ i[t] = 0
      /\ pc[Execution!Main] = "bounce_test" /\ 0 \in Bouncers /\ DOMAIN pc = Everyone
    BY Identities DEF Everyone, Bouncers
<1>2. Places
  <2>1. pc \in [Everyone -> BouncerLabels \cup MainLabels]
      BY DEF Everyone, Bouncers, BouncerLabels, Bouncing, Before, MainLabels, AsksBouncers
  <2>2. i \in [Bouncers -> 0..BOUNCES]
      BY Identities DEF Bouncers
  <2> QED BY <1>1, <2>1, <2>2, Identities
          DEF Places, BouncerLabels, Bouncing, Before, MainLabels, AsksBouncers
<1>3. Queue
    BY <1>1 DEF Queue, Queued, Owning, Everyone
<1>4. Sleepers
    BY DEF Sleepers
<1>5. Handover
    BY <1>1 DEF Handover, BounceDone, Arrived
<1>6. Barrier
  <2>1. ThoseArrived = {} /\ Passed = {}
      BY <1>1 DEF ThoseArrived, Passed, Arrived
  <2>2. barrier_return \in [Bouncers -> {0, 1}]
      BY DEF Bouncers
  <2> QED BY <1>1, <2>1, <2>2, FS_EmptySet DEF Barrier
<1>7. Begin /\ InTurn /\ ClaimStands
  <2>0. lock = <<>> /\ cvar0 = <<>> /\ curr_bounce_thread = 0
      OBVIOUS
  <2> HIDE DEF Execution!Init
  <2>1. \A t \in Bouncers : Turn(t) = 0 /\ ~Chosen(t) /\ ~Late(t) /\ pc[t] = "start"
      BY <1>1 DEF Turn, Chosen, Woken, Late
  <2>2. Begin
      BY <1>1, <2>1 DEF Begin, Starting, Before
  <2>3. InTurn
    <3>1. SleepersInTurn /\ WaitersInTurn /\ SleepersFirst
        BY <2>0 DEF SleepersInTurn, WaitersInTurn, SleepersFirst
    <3>2. OneLate /\ OneChosen /\ Together
        BY <2>1 DEF OneLate, OneChosen, Together
    <3> QED BY <3>1, <3>2 DEF InTurn
  <2>4. ClaimStands
      BY <1>1, <2>0 DEF ClaimStands
  <2> QED BY <2>2, <2>3, <2>4
<1> QED BY <1>2, <1>3, <1>4, <1>5, <1>6, <1>7 DEF ExecutionIInv

LEMMA ExecutionStays ==
    ASSUME ExecutionIInv, UNCHANGED execution
    PROVE  ExecutionIInv'
<1> USE DEF execution, sync, executionVars
<1>1. Places' /\ Queue' /\ Sleepers'
    BY DEF ExecutionIInv, Places, Queue, Sleepers, Execution!Owns
<1>2. Handover' /\ Barrier'
    BY DEF ExecutionIInv, Handover, Barrier, ThoseArrived, Passed
<1>3. DelaySuffices /\ YieldsSuffice => Begin' /\ ClaimStands'
    BY DEF ExecutionIInv, Begin, Starting, Chosen, Woken, ClaimStands
<1>4. DelaySuffices /\ YieldsSuffice => InTurn'
    BY DEF ExecutionIInv, InTurn, SleepersInTurn, WaitersInTurn, SleepersFirst, OneLate, Late,
       OneChosen, Together, Ahead, Behind, Turn, Chosen, Woken, Starting
<1> QED BY <1>1, <1>2, <1>3, <1>4 DEF ExecutionIInv

LEMMA ExecutionNext ==
    ASSUME ExecutionIInv, Execution!Next
    PROVE  ExecutionIInv'
<1>1. ASSUME NEW t \in Bouncers, Execution!Bounce(t)
      PROVE  ExecutionIInv'
    BY <1>1, BounceMoves, BounceSleepers, BounceHandover, BounceBarrierNext, BounceTurns
       DEF ExecutionIInv
<1>2. ASSUME NEW t \in Bouncers, Execution!LineUp(t)
      PROVE  ExecutionIInv'
    BY <1>2, LineUpMoves, LineUpSleepers, LineUpHandover, LineUpBarrierNext, LineUpTurns
       DEF ExecutionIInv
<1>3. CASE Execution!MainThread
    BY <1>3, MainMoves, MainSleepers, MainHandover, MainBarrierNext, MainTurns DEF ExecutionIInv
<1>4. CASE Execution!Finished
  <2>1. UNCHANGED execution
      BY <1>4 DEF Execution!Finished, Execution!vars, Execution!locals, Execution!bounce,
         Execution!handover, Execution!lineup, execution, sync, executionVars
  <2> QED BY <2>1, ExecutionStays
<1> QED BY <1>1, <1>2, <1>3, <1>4 DEF Execution!Next, Bouncers

-----------------------------------------------------------------------------
(* The suite up to test_pthread_execution: what the threads are there to do. *)

SyncOps == {"lock", "unlock", "wait_cvar0", "wait_cvar1", "signal_cvar0", "signal_cvar1"}

\* Of these a thread does none but in the test of the names.
Apart(c) ==
    c.op \in {"set", "clear", "await", "check", "check_not", "push", "pop", "detach", "exit",
              "return", "exit_if", "return_if", "cancel_state", "cancel", "sleep", "test_cancel",
              "again", "unreachable", "create", "join"}

\* From each of these main goes on to the next.
Onwards(c) ==
    c.op \in {"set", "clear", "await", "check", "check_not", "create", "join", "cancel",
              "set_name", "check_name", "joins"} \cup SyncOps

LEMMA ApartCalls ==
    /\ Apart(TestCancel) /\ Apart(Unreachable) /\ Apart(Call("sleep")) /\ Apart(Call("again"))
    /\ \A x, y : /\ Apart(Set(x)) /\ Apart(Clear(x)) /\ Apart(Await(x)) /\ Apart(Check(x))
                 /\ Apart(CheckNot(x)) /\ Apart(Push(x)) /\ Apart(Pop(x)) /\ Apart(Create(x))
                 /\ Apart(Join(x, y)) /\ Apart(Cancel(x, y)) /\ Apart(Detach(x)) /\ Apart(Exit(x))
                 /\ Apart(Return(x)) /\ Apart(ExitIf(x, y)) /\ Apart(ReturnIf(x, y))
                 /\ Apart(CancelState(x))
BY
   DEF Apart, TestCancel, Unreachable, Call, Set, Clear, Await, Check, CheckNot, Push, Pop,
       Create,
   Join, Cancel, Detach, Exit, Return, ExitIf, ReturnIf, CancelState, Do

LEMMA OnwardsCalls ==
    /\ \A op \in SyncOps \cup {"joins"} : Onwards(Call(op))
    /\ \A x, y : /\ Onwards(Set(x)) /\ Onwards(Clear(x)) /\ Onwards(Await(x)) /\ Onwards(Check(x))
                 /\ Onwards(CheckNot(x)) /\ Onwards(Create(x)) /\ Onwards(Join(x, y))
                 /\ Onwards(Cancel(x, y)) /\ Onwards(SetName(x, y)) /\ Onwards(CheckName(x, y))
BY
   DEF Onwards, SyncOps, Call, Set, Clear, Await, Check, CheckNot, Create, Join, Cancel,
       SetName,
   CheckName, Do

LEMMA WorkerPrograms ==
    ASSUME NEW t \in Workers \ {"named"}, NEW k \in DOMAIN Programs[t]
    PROVE  Apart(Programs[t][k])
<1> USE ApartCalls
<1>1. \A n \in DOMAIN ExplicitProgram : Apart(ExplicitProgram[n])
    BY DEF ExplicitProgram
<1>2. \A n \in DOMAIN PexitProgram : Apart(PexitProgram[n])
    BY DEF PexitProgram
<1>3. \A n \in DOMAIN CancelsyncProgram : Apart(CancelsyncProgram[n])
    BY DEF CancelsyncProgram, TestCancelForEver
<1>4. \A n \in DOMAIN ReturnProgram : Apart(ReturnProgram[n])
    BY DEF ReturnProgram
<1>5. \A n \in DOMAIN <<Return("NULL")>> : Apart(<<Return("NULL")>>[n])
    OBVIOUS
<1>6. \A n \in DOMAIN TermProgram(t) : Apart(TermProgram(t)[n])
  <2> DEFINE disabled == <<CancelState("disabled")>>
             detached == <<Detach("ok"), Detach("EINVAL")>>
             last == <<Cancel(t, "ok"), Call("sleep"), Exit("p1")>>
  <2>1. \A n \in DOMAIN (<<>> \o <<>> \o last) : Apart((<<>> \o <<>> \o last)[n])
      OBVIOUS
  <2>2. \A n \in DOMAIN (disabled \o <<>> \o last) : Apart((disabled \o <<>> \o last)[n])
      OBVIOUS
  <2>3. \A n \in DOMAIN (<<>> \o detached \o last) : Apart((<<>> \o detached \o last)[n])
      OBVIOUS
  <2>4. \A n \in DOMAIN (disabled \o detached \o last) :
            Apart((disabled \o detached \o last)[n])
      OBVIOUS
  <2>5. TermProgram(t) \in {<<>> \o <<>> \o last, disabled \o <<>> \o last,
                            <<>> \o detached \o last, disabled \o detached \o last}
      BY DEF TermProgram
  <2> HIDE DEF disabled, detached, last
  <2> QED BY <2>1, <2>2, <2>3, <2>4, <2>5
<1>7. \A n \in DOMAIN SelfProgram : Apart(SelfProgram[n])
    BY DEF SelfProgram
<1>8. \A n \in DOMAIN Ext1Program : Apart(Ext1Program[n])
    BY DEF Ext1Program
<1>9. \A n \in DOMAIN Ext2Program : Apart(Ext2Program[n])
    BY DEF Ext2Program, TestCancelForEver
<1> QED
    BY <1>1, <1>2, <1>3, <1>4, <1>5, <1>6, <1>7, <1>8, <1>9
       DEF Programs, Workers, Terminating, Threads, Main

-----------------------------------------------------------------------------
(* MainProgram                                                              *)

Sequence(p) == \E S : p \in Seq(S)

\* The tests before test_pthread_execution do not create the thread of the
\* test of the names.
Early(c) == Apart(c) /\ Onwards(c) /\ (c.op = "create" => c.on # "named")

LEMMA EarlyCalls ==
    /\ \A x, y : /\ Early(Set(x)) /\ Early(Check(x)) /\ Early(CheckNot(x))
                 /\ Early(Join(x, y)) /\ Early(Cancel(x, y))
    /\ \A t \in Workers \ {"named"} : Early(Create(t))
<1>1. \A x, y : /\ Set(x).op # "create" /\ Check(x).op # "create" /\ CheckNot(x).op # "create"
                /\ Join(x, y).op # "create" /\ Cancel(x, y).op # "create" /\ Create(x).on = x
    BY DEF Set, Check, CheckNot, Join, Cancel, Create, Do
<1> QED BY <1>1, ApartCalls, OnwardsCalls DEF Early

LEMMA Concatenation ==
    ASSUME NEW a, NEW b, Sequence(a), Sequence(b)
    PROVE  /\ Sequence(a \o b)
           /\ Len(a) \in Nat /\ Len(b) \in Nat /\ Len(a \o b) = Len(a) + Len(b)
           /\ \A k \in 1..Len(a \o b) :
                 \/ k \in 1..Len(a) /\ (a \o b)[k] = a[k]
                 \/ k - Len(a) \in 1..Len(b) /\ (a \o b)[k] = b[k - Len(a)]
<1>1. PICK S, T : a \in Seq(S) /\ b \in Seq(T)
    BY DEF Sequence
<1>2. a \in Seq(S \cup T) /\ b \in Seq(S \cup T)
    BY <1>1
<1>3. a \o b \in Seq(S \cup T)
    BY <1>2
<1>4. Sequence(a \o b)
    BY <1>3 DEF Sequence
<1> QED BY <1>2, <1>4

LEMMA CleanupTestsAreEarly ==
    /\ Sequence(CleanupTests)
    /\ \A k \in 1..Len(CleanupTests) : Early(CleanupTests[k])
<1>1. Sequence(CleanupTests)
  <2>1. CleanupTests \in Seq({CleanupTests[k] : k \in DOMAIN CleanupTests})
      BY DEF CleanupTests
  <2> QED BY <2>1 DEF Sequence
<1>2. \A k \in DOMAIN CleanupTests : Early(CleanupTests[k])
    BY EarlyCalls DEF CleanupTests, Workers
<1>3. DOMAIN CleanupTests = 1..Len(CleanupTests)
    BY <1>1 DEF Sequence
<1> QED BY <1>1, <1>2, <1>3

LEMMA LeakTestIsEarly ==
    /\ Sequence(DescriptorLeakTest)
    /\ \A k \in 1..Len(DescriptorLeakTest) : Early(DescriptorLeakTest[k])
<1>1. 4 * MaxThreads \in Nat
    OBVIOUS
<1>2. DescriptorLeakTest \in Seq({Create("leak"), Join("leak", "NULL")})
    BY <1>1 DEF DescriptorLeakTest
<1>3. Early(Create("leak")) /\ Early(Join("leak", "NULL"))
    BY EarlyCalls DEF Workers
<1> QED BY <1>2, <1>3 DEF Sequence

\* A program that begins like MainProgram, to the end of test_pthread_execution.
Begins(p) ==
    /\ Sequence(p)
    /\ ExecutionAt \in 1..Len(p)
    /\ \A k \in 1..Len(p) :
          /\ k < ExecutionAt => Early(p[k])
          /\ k = ExecutionAt => p[k].op = "execution"
          /\ k > ExecutionAt => Onwards(p[k])

LEMMA BeginsAndGoesOn ==
    ASSUME NEW p, Begins(p), NEW s, Sequence(s),
           \A k \in 1..Len(s) : Onwards(s[k])
    PROVE  Begins(p \o s)
<1>1. /\ Sequence(p \o s)
      /\ Len(p) \in Nat /\ Len(s) \in Nat /\ Len(p \o s) = Len(p) + Len(s)
      /\ \A k \in 1..Len(p \o s) :
            \/ k \in 1..Len(p) /\ (p \o s)[k] = p[k]
            \/ k - Len(p) \in 1..Len(s) /\ (p \o s)[k] = s[k - Len(p)]
    BY Concatenation DEF Begins
<1>2. ExecutionAt \in 1..Len(p \o s)
    BY <1>1 DEF Begins
<1>3. \A k \in 1..Len(p \o s) : k - Len(p) \in 1..Len(s) => k > ExecutionAt
    BY <1>1 DEF Begins
<1>4. ASSUME NEW k \in 1..Len(p \o s)
      PROVE  /\ k < ExecutionAt => Early((p \o s)[k])
             /\ k = ExecutionAt => (p \o s)[k].op = "execution"
             /\ k > ExecutionAt => Onwards((p \o s)[k])
  <2>1. CASE k \in 1..Len(p) /\ (p \o s)[k] = p[k]
      BY <2>1 DEF Begins
  <2>2. CASE k - Len(p) \in 1..Len(s) /\ (p \o s)[k] = s[k - Len(p)]
    <3>1. k > ExecutionAt /\ ExecutionAt \in Nat /\ k \in Nat
        BY <2>2, <1>2, <1>3
    <3>2. ~(k < ExecutionAt) /\ k # ExecutionAt
        BY <3>1
    <3> QED BY <2>2, <3>2
  <2> QED BY <2>1, <2>2, <1>1
<1> QED BY <1>1, <1>2, <1>4 DEF Begins

LEMMA MainBegins == Begins(MainProgram)
<1> DEFINE before == CleanupTests \o DescriptorLeakTest
           upto == before \o <<Call("execution")>>
<1>1. Begins(upto)
  <2>1. /\ Sequence(before) /\ Len(before) \in Nat /\ ExecutionAt = Len(before) + 1
        /\ \A k \in 1..Len(before) : Early(before[k])
      BY CleanupTestsAreEarly, LeakTestIsEarly, Concatenation DEF ExecutionAt
  <2>2. Call("execution").op = "execution"
      BY DEF Call, Do
  <2> HIDE DEF before
  <2>3. /\ Sequence(<<Call("execution")>>) /\ Len(<<Call("execution")>>) = 1
        /\ <<Call("execution")>>[1] = Call("execution")
    <3>1. <<Call("execution")>> \in Seq({Call("execution")})
        OBVIOUS
    <3> QED BY <3>1 DEF Sequence
  <2>4. /\ Sequence(upto) /\ Len(upto) = Len(before) + 1
        /\ \A k \in 1..Len(upto) :
              \/ k \in 1..Len(before) /\ upto[k] = before[k]
              \/ k - Len(before) \in 1..1 /\ upto[k] = <<Call("execution")>>[k - Len(before)]
      BY <2>1, <2>3, Concatenation
  <2>5. \A k \in 1..Len(upto) :
            \/ k < ExecutionAt /\ Early(upto[k])
            \/ k = ExecutionAt /\ upto[k] = Call("execution")
      BY <2>1, <2>3, <2>4
  <2>6. ExecutionAt \in 1..Len(upto) /\ ExecutionAt \in Nat /\ Len(upto) \in Nat
      BY <2>1, <2>4
  <2> HIDE DEF upto
  <2> QED BY <2>2, <2>4, <2>5, <2>6 DEF Begins
<1> USE OnwardsCalls
<1>2. Sequence(NameTest) /\ \A k \in 1..Len(NameTest) : Onwards(NameTest[k])
  <2>1. NameTest \in Seq({NameTest[k] : k \in DOMAIN NameTest})
      BY DEF NameTest
  <2>2. \A k \in DOMAIN NameTest : Onwards(NameTest[k])
      BY DEF NameTest, SyncOps
  <2> QED BY <2>1, <2>2 DEF Sequence
<1>3. Sequence(TerminationTest)
      /\ \A k \in 1..Len(TerminationTest) : Onwards(TerminationTest[k])
  <2>1. TerminationTest \in Seq({TerminationTest[k] : k \in DOMAIN TerminationTest})
      BY DEF TerminationTest
  <2>2. \A k \in DOMAIN TerminationTest : Onwards(TerminationTest[k])
      BY DEF TerminationTest
  <2> QED BY <2>1, <2>2 DEF Sequence
<1>4. Sequence(TestcancelTests)
      /\ \A k \in 1..Len(TestcancelTests) : Onwards(TestcancelTests[k])
  <2>1. TestcancelTests \in Seq({TestcancelTests[k] : k \in DOMAIN TestcancelTests})
      BY DEF TestcancelTests, CancelExt1Test
  <2>2. \A k \in DOMAIN TestcancelTests : Onwards(TestcancelTests[k])
      BY DEF TestcancelTests, CancelExt1Test
  <2> QED BY <2>1, <2>2 DEF Sequence
<1>5. Sequence(<<Call("joins")>>)
      /\ \A k \in 1..Len(<<Call("joins")>>) : Onwards(<<Call("joins")>>[k])
  <2>1. <<Call("joins")>> \in Seq({Call("joins")})
      OBVIOUS
  <2>2. \A k \in 1..Len(<<Call("joins")>>) : Onwards(<<Call("joins")>>[k])
      OBVIOUS
  <2> QED BY <2>1, <2>2 DEF Sequence
<1> HIDE DEF upto
<1>6. Begins(upto \o NameTest)
    BY <1>1, <1>2, BeginsAndGoesOn
<1>7. Begins(upto \o NameTest \o TerminationTest)
    BY <1>6, <1>3, BeginsAndGoesOn
<1>8. Begins(upto \o NameTest \o TerminationTest \o TestcancelTests)
    BY <1>7, <1>4, BeginsAndGoesOn
<1>9. Begins(upto \o NameTest \o TerminationTest \o TestcancelTests \o <<Call("joins")>>)
    BY <1>8, <1>5, BeginsAndGoesOn
<1> QED BY <1>9 DEF MainProgram, upto, before

-----------------------------------------------------------------------------
(* PthreadSuite: from one test to the next                                  *)

LEMMA MainRuns ==
    ASSUME NEW op, Runs(Main, op)
    PROVE  /\ ip[Main] \in 1..Len(MainProgram) /\ MainProgram[ip[Main]].op = op
           /\ Instruction(Main) = MainProgram[ip[Main]]
<1>1. Programs[Main] = MainProgram
    BY DEF Programs, Threads, Terminating, Main
<1> QED BY <1>1, MainBegins DEF Runs, Instruction, Begins, Sequence

LEMMA WorkerRuns ==
    ASSUME NEW t \in Threads \ {Main, "named"}, NEW op, Runs(t, op)
    PROVE  Apart(Instruction(t)) /\ Instruction(t).op = op
BY WorkerPrograms DEF Runs, Instruction, Threads

LEMMA ExecutionAtIsNat == ExecutionAt \in Nat
BY MainBegins DEF Begins, Sequence

LEMMA ExecutingIsAt ==
    /\ Executing => ip[Main] = ExecutionAt
    /\ Joining => ip[Main] > ExecutionAt
<1>1. ASSUME Executing PROVE ip[Main] = ExecutionAt
  <2>1. ip[Main] \in 1..Len(MainProgram) /\ MainProgram[ip[Main]].op = "execution"
      BY <1>1, MainRuns DEF Executing
  <2>2. ~Onwards(MainProgram[ip[Main]])
      BY <2>1 DEF Onwards, SyncOps
  <2> QED BY <2>1, <2>2, MainBegins, ExecutionAtIsNat DEF Begins, Early
<1>2. ASSUME Joining PROVE ip[Main] > ExecutionAt
  <2>1. ip[Main] \in 1..Len(MainProgram) /\ MainProgram[ip[Main]].op = "joins"
      BY <1>2, MainRuns DEF Joining
  <2>2. ~Apart(MainProgram[ip[Main]])
      BY <2>1 DEF Apart
  <2> QED BY <2>1, <2>2, MainBegins, ExecutionAtIsNat DEF Begins, Early
<1> QED BY <1>1, <1>2

LEMMA NamedDoesNotRun ==
    ASSUME NotNamed
    PROVE  descriptor["named"].status = "none" /\ \A op : ~Runs("named", op)
<1>1. descriptor["named"].status = "none"
    BY DEF NotNamed, NoThread
<1> QED BY <1>1 DEF Runs

LEMMA NoSyncYet ==
    ASSUME NotNamed, ip[Main] <= ExecutionAt, NEW t \in Threads, NEW op \in SyncOps
    PROVE  ~Runs(t, op)
<1> SUFFICES ASSUME Runs(t, op) PROVE FALSE
    OBVIOUS
<1>1. t # "named"
    BY NamedDoesNotRun
<1>2. CASE t = Main
  <2>1. ip[Main] \in 1..Len(MainProgram) /\ MainProgram[ip[Main]].op = op
      BY <1>2, MainRuns
  <2>2. op # "execution" /\ ~Apart(MainProgram[ip[Main]])
      BY <2>1 DEF Apart, SyncOps
  <2> QED BY <2>1, <2>2, MainBegins, ExecutionAtIsNat DEF Begins, Early
<1>3. CASE t # Main
  <2>1. Apart(Instruction(t)) /\ Instruction(t).op = op
      BY <1>1, <1>3, WorkerRuns
  <2> QED BY <2>1 DEF Apart, SyncOps
<1> QED BY <1>2, <1>3

\* What a step of one of the other tests does to the thread that does not yet
\* exist, and to the mutex and the condition variables: nothing.
LEMMA StepBeforeExecution ==
    ASSUME NotNamed, DOMAIN descriptor = Threads, DOMAIN mode = Threads,
           ip[Main] <= ExecutionAt, NEW t \in Threads, Step(t)
    PROVE  UNCHANGED <<sync, mode>> /\ NotNamed' /\ DOMAIN descriptor' = Threads
<1>1. /\ ~Runs(t, "lock") /\ ~Runs(t, "unlock")
      /\ ~Runs(t, "wait_cvar0") /\ ~Runs(t, "wait_cvar1")
      /\ ~Runs(t, "signal_cvar0") /\ ~Runs(t, "signal_cvar1")
    BY NoSyncYet DEF SyncOps
<1>2. mode[t] = "run" /\ \A op : Runs(t, op) => t # "named"
    BY NamedDoesNotRun DEF NotNamed
<1>3. ASSUME UNCHANGED <<sync, mode>>, DOMAIN descriptor' = Threads,
             descriptor'["named"] = descriptor["named"]
      PROVE  UNCHANGED <<sync, mode>> /\ NotNamed' /\ DOMAIN descriptor' = Threads
    BY <1>3 DEF NotNamed
<1>4. CASE \/ SetFlag(t) \/ ClearFlag(t) \/ AwaitFlag(t) \/ Zassert(t) \/ TestedCancel(t)
           \/ Slept(t) \/ Again(t) \/ NameThread(t)
  <2>1. UNCHANGED <<sync, mode, descriptor>>
      BY <1>4
         DEF SetFlag, ClearFlag, AwaitFlag, Zassert, TestedCancel, Slept, Again, NameThread,
         threads
  <2> QED BY <2>1, <1>3
<1>5. CASE PushHandler(t) \/ PopHandler(t) \/ SetCancelState(t) \/ DetachSelf(t)
  <2>1. t # "named"
      BY <1>2, <1>5 DEF PushHandler, PopHandler, SetCancelState, DetachSelf
  <2>2. UNCHANGED <<sync, mode>> /\ \E d : descriptor' = [descriptor EXCEPT ![t] = d]
      BY <1>5 DEF PushHandler, PopHandler, SetCancelState, DetachSelf
  <2> QED BY <2>1, <2>2, <1>3
<1>6. CASE Exiting(t) \/ ReturnFrom(t) \/ Canceled(t)
  <2>1. t # "named"
      BY <1>2, <1>6 DEF Exiting, ReturnFrom, Returning, Canceled
  <2>2. UNCHANGED <<sync, mode>> /\ \E d : descriptor' = [descriptor EXCEPT ![t] = d]
      BY <1>6 DEF Exiting, ReturnFrom, Canceled, EndWithHandlers, End
  <2> QED BY <2>1, <2>2, <1>3
<1>7. CASE CancelThread(t)
  <2>1. /\ UNCHANGED <<sync, mode>>
        /\ descriptor' = [descriptor EXCEPT ![On(t)].pending = descriptor[On(t)].status # "none"]
      BY <1>7 DEF CancelThread
  <2>2. CASE On(t) # "named"
      BY <2>1, <2>2, <1>3
  <2>3. CASE On(t) = "named"
    <3>1. "named" \in Threads
        BY DEF Threads, Workers
    <3>2. PICK pending : descriptor'["named"] = [descriptor["named"] EXCEPT !.pending = pending]
        BY <2>1, <2>3, <3>1
    <3>3. descriptor'["named"] = [NoThread EXCEPT !.pending = descriptor'["named"].pending]
        BY <3>2 DEF NotNamed, NoThread
    <3> QED BY <2>1, <3>3 DEF NotNamed
  <2> QED BY <2>2, <2>3
<1>8. ~Ask(t) /\ ~Locked(t) /\ ~Unlock(t) /\ ~Wait(t) /\ ~Wake(t) /\ ~Signal(t)
    BY <1>1, <1>2 DEF Ask, Locked, Unlock, Wait, Wake, Signal, Enter
<1> QED BY <1>4, <1>5, <1>6, <1>7, <1>8 DEF Step

LEMMA CreateBeforeExecution ==
    ASSUME NotNamed, DOMAIN descriptor = Threads, ip[Main] <= ExecutionAt, CreateThread
    PROVE  UNCHANGED <<sync, mode>> /\ NotNamed' /\ DOMAIN descriptor' = Threads
<1>1. /\ UNCHANGED <<sync, mode>>
      /\ descriptor' = [descriptor EXCEPT ![On(Main)].status = "running"]
    BY DEF CreateThread
<1>2. On(Main) # "named"
  <2>1. /\ ip[Main] \in 1..Len(MainProgram) /\ MainProgram[ip[Main]].op = "create"
        /\ On(Main) = MainProgram[ip[Main]].on
      BY MainRuns DEF CreateThread, On
  <2>2. "create" # "execution"
      OBVIOUS
  <2> QED BY <2>1, <2>2, MainBegins, ExecutionAtIsNat DEF Begins, Early
<1> QED BY <1>1, <1>2 DEF NotNamed

LEMMA JoinBeforeExecution ==
    ASSUME NotNamed, DOMAIN descriptor = Threads, JoinThread
    PROVE  UNCHANGED <<sync, mode>> /\ NotNamed' /\ DOMAIN descriptor' = Threads
<1>1. /\ UNCHANGED <<sync, mode>> /\ descriptor[On(Main)].status = "ended"
      /\ descriptor' = [descriptor EXCEPT ![On(Main)] = NoThread]
    BY DEF JoinThread
<1>2. On(Main) # "named"
    BY <1>1, NamedDoesNotRun
<1> QED BY <1>1, <1>2 DEF NotNamed

\* Main only ever goes on to the next instruction, and does not pass by
\* test_pthread_execution, which is not one of the tests of ThreadTests.
LEMMA MainGoesOn ==
    ASSUME ip \in [Threads -> Int], Next
    PROVE  /\ ip' \in [Threads -> Int]
           /\ ip'[Main] \in {ip[Main], ip[Main] + 1}
           /\ NotNamed /\ ip[Main] = ExecutionAt => ip'[Main] = ip[Main]
<1>0. Main \in Threads /\ Main \notin Workers
    BY DEF Threads, Workers, Terminating, Main
<1>1. ASSUME NEW op, Runs(Main, op), op # "execution"
      PROVE  /\ ip[Main] # ExecutionAt
             /\ op \notin {"exit", "exit_if", "return", "return_if", "test_cancel", "sleep",
                            "again"}
  <2>1. ip[Main] \in 1..Len(MainProgram) /\ MainProgram[ip[Main]].op = op
      BY <1>1, MainRuns
  <2>2. ip[Main] # ExecutionAt /\ Onwards(MainProgram[ip[Main]])
      BY <2>1, <1>1, MainBegins, ExecutionAtIsNat DEF Begins, Early
  <2> QED BY <2>1, <2>2 DEF Onwards, SyncOps
<1>2. ASSUME NEW t \in Workers, Step(t)
      PROVE  ip' \in [Threads -> Int] /\ ip'[Main] = ip[Main]
  <2>1. t \in Threads /\ t # Main
      BY <1>0 DEF Threads
  <2>2. ip' = ip \/ \E n \in Int : ip' = [ip EXCEPT ![t] = n]
      BY <1>2, <2>1
         DEF Step, SetFlag, ClearFlag, AwaitFlag, Zassert, PushHandler, PopHandler, Exiting,
             ReturnFrom, Canceled, TestedCancel, Slept, Again, SetCancelState, CancelThread,
             DetachSelf, NameThread, Ask, Locked, Unlock, Wait, Wake, Signal, EndWithHandlers,
             End, Advance
  <2> QED BY <2>1, <2>2, <1>0
<1>3. ASSUME NotNamed PROVE mode[Main] = "run"
    BY <1>0, <1>3 DEF NotNamed
<1>4. CASE Step(Main)
  <2>1. CASE Exiting(Main) \/ ReturnFrom(Main) \/ Canceled(Main) \/ Again(Main)
             \/ TestedCancel(Main) \/ Slept(Main)
      BY <2>1, <1>1 DEF Exiting, ReturnFrom, Returning, Canceled, Again, TestedCancel, Slept
  <2>2. CASE Ask(Main) \/ Wait(Main) \/ Wake(Main)
      BY <2>2 DEF Ask, Wait, Wake
  <2>3. CASE Locked(Main)
    <3>1. ip' = [ip EXCEPT ![Main] = @ + 1] /\ ~NotNamed
        BY <2>3, <1>3 DEF Locked, Enter, Advance
    <3> QED BY <3>1, <1>0
  <2>4. CASE \/ SetFlag(Main) \/ ClearFlag(Main) \/ AwaitFlag(Main) \/ Zassert(Main)
             \/ PushHandler(Main) \/ PopHandler(Main) \/ SetCancelState(Main)
             \/ CancelThread(Main) \/ DetachSelf(Main) \/ NameThread(Main) \/ Unlock(Main)
             \/ Signal(Main)
    <3>1. ip' = [ip EXCEPT ![Main] = @ + 1]
        BY <2>4 DEF SetFlag, ClearFlag, AwaitFlag, Zassert, PushHandler, PopHandler,
           SetCancelState, CancelThread, DetachSelf, NameThread, Unlock, Signal, Advance
    <3>2. \E op : Runs(Main, op) /\ op # "execution"
        BY <2>4 DEF SetFlag, ClearFlag, AwaitFlag, Zassert, PushHandler, PopHandler,
           SetCancelState, CancelThread, DetachSelf, NameThread, Unlock, Signal
    <3> QED BY <3>1, <3>2, <1>0, <1>1
  <2> QED BY <1>4, <2>1, <2>2, <2>3, <2>4 DEF Step
<1>5. CASE CreateThread \/ JoinThread
  <2>1. ip' = [ip EXCEPT ![Main] = @ + 1] /\ ip[Main] # ExecutionAt
      BY <1>5, <1>1 DEF CreateThread, JoinThread, Advance
  <2> QED BY <2>1, <1>0
<1> QED BY <1>2, <1>4, <1>5 DEF Next, MainThread

LEMMA TestStepKeeps ==
    ASSUME SuiteIInv, TestStep
    PROVE  SuiteIInv'
<1>0. ip[Main] \in Int /\ ExecutionAt \in Int
    BY ExecutionAtIsNat DEF SuiteIInv, Threads
<1>1. /\ ip' \in [Threads -> Int]
      /\ ip'[Main] \in {ip[Main], ip[Main] + 1}
      /\ NotNamed /\ ip[Main] = ExecutionAt => ip'[Main] = ip[Main]
    BY MainGoesOn DEF SuiteIInv, TestStep
<1>2. DOMAIN mode' = Threads /\ DOMAIN descriptor' = Threads
  <2>1. \/ mode' = mode
        \/ \E t, to : mode' = [mode EXCEPT ![t] = to]
      BY DEF TestStep, Next, MainThread, CreateThread, JoinThread,
             Step, SetFlag, ClearFlag, AwaitFlag, Zassert, PushHandler, PopHandler, Exiting,
             ReturnFrom, Canceled, TestedCancel, Slept, Again, SetCancelState, CancelThread,
             DetachSelf, NameThread, Ask, Locked, Unlock, Wait, Wake, Signal, EndWithHandlers,
             End, Enter
  <2>2. \/ descriptor' = descriptor
        \/ \E t, d : descriptor' = [descriptor EXCEPT ![t] = d]
      BY DEF TestStep, Next, MainThread, CreateThread, JoinThread, threads,
             Step, SetFlag, ClearFlag, AwaitFlag, Zassert, PushHandler, PopHandler, Exiting,
             ReturnFrom, Canceled, TestedCancel, Slept, Again, SetCancelState, CancelThread,
             DetachSelf, NameThread, Ask, Locked, Unlock, Wait, Wake, Signal, EndWithHandlers,
             End
  <2> QED BY <2>1, <2>2 DEF SuiteIInv
<1>3. CASE ip[Main] <= ExecutionAt
  <2>1. NotNamed
      BY <1>3 DEF SuiteIInv
  <2>2. UNCHANGED <<sync, mode>> /\ NotNamed'
    <3>1. ASSUME NEW t \in Threads, Step(t) PROVE UNCHANGED <<sync, mode>> /\ NotNamed'
        BY <3>1, <2>1, <1>3, StepBeforeExecution DEF SuiteIInv
    <3> QED BY <3>1, <2>1, <1>3, CreateBeforeExecution, JoinBeforeExecution
            DEF SuiteIInv, TestStep, Next, MainThread, Threads
  <2>3. UNCHANGED execution
      BY <2>2 DEF TestStep, execution
  <2>4. ip'[Main] <= ExecutionAt /\ (ip'[Main] < ExecutionAt => ip[Main] < ExecutionAt)
      BY <1>0, <1>1, <1>3, <2>1
  <2>5. ip[Main] < ExecutionAt => Execution!Init'
      BY <2>3 DEF SuiteIInv, Execution!Init, execution, sync, executionVars
  <2>6. ip'[Main] = ExecutionAt => ExecutionIInv'
    <3>1. ExecutionIInv
        BY <1>0, <1>3, ExecutionBegins DEF SuiteIInv
    <3> QED BY <3>1, <2>3, ExecutionStays
  <2> QED BY <1>1, <1>2, <2>2, <2>4, <2>5, <2>6, ExecutionAtIsNat DEF SuiteIInv
<1>4. CASE ip[Main] > ExecutionAt
  <2>1. ip'[Main] > ExecutionAt
      BY <1>0, <1>1, <1>4
  <2>2. ~(ip'[Main] <= ExecutionAt) /\ ~(ip'[Main] < ExecutionAt) /\ ip'[Main] # ExecutionAt
      BY <2>1, <1>0, <1>1
  <2> QED BY <1>1, <1>2, <2>2 DEF SuiteIInv
<1> QED BY <1>0, <1>3, <1>4

LEMMA SuiteNextKeeps ==
    ASSUME SuiteIInv, [SuiteNext]_suiteVars
    PROVE  SuiteIInv'
<1>0. ip[Main] \in Int /\ ExecutionAt \in Int /\ Main \in Threads
    BY ExecutionAtIsNat DEF SuiteIInv, Threads
<1>1. CASE ExecutionStep
  <2>1. ip[Main] = ExecutionAt /\ UNCHANGED testVars
      BY <1>1, ExecutingIsAt DEF ExecutionStep
  <2>2. ExecutionIInv'
      BY <1>1, <2>1, ExecutionNext DEF SuiteIInv, ExecutionStep
  <2> QED BY <1>0, <2>1, <2>2 DEF SuiteIInv, NotNamed, testVars, threads
<1>2. ASSUME Advance(Main), ip[Main] >= ExecutionAt, UNCHANGED <<mode, threads>>
      PROVE  SuiteIInv'
  <2>1. ip' \in [Threads -> Int] /\ ip'[Main] = ip[Main] + 1
      BY <1>0, <1>2 DEF SuiteIInv, Advance
  <2>2. ~(ip'[Main] <= ExecutionAt) /\ ~(ip'[Main] < ExecutionAt) /\ ip'[Main] # ExecutionAt
      BY <2>1, <1>0, <1>2
  <2> QED BY <1>2, <2>1, <2>2 DEF SuiteIInv, threads
<1>3. CASE ExecutionEnds
    BY <1>0, <1>2, <1>3, ExecutingIsAt DEF ExecutionEnds, threads
<1>4. CASE JoinsEnd
    BY <1>0, <1>2, <1>4, ExecutingIsAt DEF JoinsEnd, threads
<1>5. CASE UNCHANGED <<vars, executionVars>>
  <2>1. UNCHANGED execution
      BY <1>5 DEF execution, vars
  <2>2. ExecutionIInv => ExecutionIInv'
      BY <2>1, ExecutionStays
  <2>3. Execution!Init => Execution!Init'
      BY <2>1 DEF Execution!Init, execution, sync, executionVars
  <2> QED BY <1>5, <2>2, <2>3 DEF SuiteIInv, NotNamed, vars, threads
<1>6. CASE JoinStep \/ Finished \/ UNCHANGED suiteVars
    BY <1>5, <1>6 DEF JoinStep, Finished, suiteVars
<1>7. CASE TestStep
    BY <1>7, TestStepKeeps
<1> QED BY <1>1, <1>3, <1>4, <1>6, <1>7 DEF SuiteNext

LEMMA InitSuiteIInv == SuiteInit => SuiteIInv
<1> SUFFICES ASSUME SuiteInit PROVE SuiteIInv
    OBVIOUS
<1>1. /\ ip \in [Threads -> Int] /\ DOMAIN mode = Threads /\ DOMAIN descriptor = Threads
      /\ ip[Main] = 1
  <2>1. Main \in Threads
      BY DEF Threads
  <2>2. ip = [t \in Threads |-> 1] /\ mode = [t \in Threads |-> "run"]
      BY DEF SuiteInit, Init
  <2>3. DOMAIN descriptor = Threads
      BY DEF SuiteInit, Init
  <2> QED BY <2>1, <2>2, <2>3
<1>2. NotNamed
    BY DEF SuiteInit, Init, NotNamed, NoThread, Threads, Workers, Main
<1>3. Execution!Init
    BY DEF SuiteInit
<1> QED BY <1>1, <1>2, <1>3, ExecutionBegins DEF SuiteIInv

-----------------------------------------------------------------------------
(* What holds of every behaviour                                            *)

\* test_pthread_execution starts with the mutex free and nobody asleep, and
\* from there on queues, turns, flags and arrivals fit where its threads are.
THEOREM AlwaysSuiteIInv == Spec => []SuiteIInv
<1>1. SuiteIInv /\ [SuiteNext]_suiteVars => SuiteIInv'
    BY SuiteNextKeeps
<1> QED BY <1>1, InitSuiteIInv, PTL DEF Spec

\* The ownership of the bounce phase goes round (line 121), for any number of
\* workers and of bounces, if the delay and the thousand yields do what they are
\* there for (lines 102 and 118).
THEOREM AlwaysGoesRound ==
    ASSUME DelaySuffices, YieldsSuffice
    PROVE  Spec => []GoesRound
<1>1. SuiteIInv => GoesRound
    BY ExecutingIsAt, RoundGoes DEF SuiteIInv, ExecutionIInv, GoesRound
<1> QED BY <1>1, AlwaysSuiteIInv, PTL

\* "Racing bounce threads" (line 112) never happens, under the same provisos.
THEOREM AlwaysNoRace ==
    ASSUME DelaySuffices, YieldsSuffice
    PROVE  Spec => [](Executing => Execution!NoRace)
<1>1. SuiteIInv => (Executing => Execution!NoRace)
    BY ExecutingIsAt, ClaimIsAlone DEF SuiteIInv, ExecutionIInv
<1> QED BY <1>1, AlwaysSuiteIInv, PTL

\* The broadcast of main (line 332) reaches every worker.
THEOREM AlwaysBroadcastReachesAll == Spec => []BroadcastReachesAll
<1>1. SuiteIInv => BroadcastReachesAll
    BY ExecutingIsAt, HandoverReaches DEF SuiteIInv, ExecutionIInv, BroadcastReachesAll
<1> QED BY <1>1, AlwaysSuiteIInv, PTL

\* Nobody passes the barrier early (line 142), and there is one serial thread
\* (line 353).
THEOREM AlwaysBarrierHolds == Spec => []BarrierHolds
<1>1. SuiteIInv => BarrierHolds
    BY ExecutingIsAt, BarrierIsLeft DEF SuiteIInv, ExecutionIInv, BarrierHolds
<1> QED BY <1>1, AlwaysSuiteIInv, PTL

-----------------------------------------------------------------------------
(* The test of the names                                                     *)

LEMMA ShortSequences ==
    /\ \A x : Append(<<>>, x) = <<x>> /\ Head(<<x>>) = x /\ Tail(<<x>>) = <<>> /\ <<x>> # <<>>
    /\ \A x, y : /\ Append(<<x>>, y) = <<x, y>> /\ Head(<<x, y>>) = x /\ Tail(<<x, y>>) = <<y>>
                 /\ <<x, y>> # <<>>
<1>1. \A x : /\ Append(<<>>, x) = <<x>> /\ Head(<<x>>) = x
    OBVIOUS
<1>2. \A x : Tail(<<x>>) = <<>> /\ <<x>> # <<>>
    OBVIOUS
<1>3. ASSUME NEW x, NEW y PROVE Append(<<x>>, y) = <<x, y>>
  <2>1. /\ <<x>> \in Seq({x, y}) /\ <<x, y>> \in Seq({x, y})
        /\ Len(<<x>>) = 1 /\ Len(<<x, y>>) = 2
      OBVIOUS
  <2>2. /\ Append(<<x>>, y) \in Seq({x, y}) /\ Len(Append(<<x>>, y)) = 2
        /\ \A k \in 1..2 : Append(<<x>>, y)[k] = <<x, y>>[k]
      BY <2>1
  <2> QED BY <2>1, <2>2, SeqEqual
<1>4. \A x, y : Head(<<x, y>>) = x /\ <<x, y>> # <<>>
    OBVIOUS
<1>5. \A x, y : Tail(<<x, y>>) = <<y>>
    OBVIOUS
<1> QED BY <1>1, <1>2, <1>3, <1>4, <1>5

-----------------------------------------------------------------------------
(* The calls of the test of the names, and of the tests behind it.          *)

LEMMA LateCalls ==
    /\ \A x, y : /\ Early(Set(x)) /\ Early(Clear(x)) /\ Early(Await(x)) /\ Early(Check(x))
                 /\ Early(CheckNot(x)) /\ Early(Join(x, y)) /\ Early(Cancel(x, y))
    /\ \A t \in Workers \ {"named"} : Early(Create(t))
<1>1. \A x : Clear(x).op # "create" /\ Await(x).op # "create"
    BY DEF Clear, Await, Do
<1> QED BY <1>1, EarlyCalls, ApartCalls, OnwardsCalls DEF Early

\* What main does in the test, from 0, and the thread it names, from 1.
MainCall(k) ==
    CASE k = 0 -> "lock"
      [] k = 1 -> "create"
      [] k = 2 -> "wait_cvar0"
      [] k = 3 -> "set_name"
      [] k = 4 -> "check_name"
      [] k = 5 -> "signal_cvar1"
      [] k = 6 -> "unlock"
      [] k = 7 -> "join"
      [] k = 8 -> "check"

NamedCall(n) ==
    CASE n = 1 -> "lock"
      [] n = 2 -> "signal_cvar0"
      [] n = 3 -> "wait_cvar1"
      [] n \in {4, 6} -> "check_name"
      [] n = 5 -> "set_name"
      [] n = 7 -> "set"
      [] n = 8 -> "unlock"
      [] n = 9 -> "return"

LEMMA CallOps ==
    /\ \A op : Call(op).op = op
    /\ \A x, y : /\ Create(x).op = "create" /\ Create(x).on = x
                 /\ Join(x, y).op = "join" /\ Join(x, y).on = x
                 /\ SetName(x, y).op = "set_name" /\ CheckName(x, y).op = "check_name"
                 /\ Check(x).op = "check" /\ Set(x).op = "set" /\ Return(x).op = "return"
BY DEF Call, Create, Join, SetName, CheckName, Check, Set, Return, Do

LEMMA NameTestCalls ==
    /\ Sequence(NameTest) /\ Len(NameTest) = 9
    /\ \A k \in 0..8 : NameTest[k + 1].op = MainCall(k)
    /\ NameTest[2].on = "named" /\ NameTest[8].on = "named"
<1>1. NameTest \in Seq({NameTest[k] : k \in DOMAIN NameTest}) /\ Len(NameTest) = 9
    BY DEF NameTest
<1>2. /\ NameTest[1].op = "lock" /\ NameTest[2].op = "create" /\ NameTest[3].op = "wait_cvar0"
      /\ NameTest[4].op = "set_name" /\ NameTest[5].op = "check_name"
      /\ NameTest[6].op = "signal_cvar1" /\ NameTest[7].op = "unlock" /\ NameTest[8].op = "join"
      /\ NameTest[9].op = "check" /\ NameTest[2].on = "named" /\ NameTest[8].on = "named"
    BY CallOps DEF NameTest
<1>3. \A k \in 0..8 : NameTest[k + 1].op = MainCall(k)
    BY <1>2 DEF MainCall
<1> QED BY <1>1, <1>2, <1>3 DEF Sequence

LEMMA NamedCalls ==
    /\ Programs["named"] = NamedProgram
    /\ DOMAIN NamedProgram = 1..9
    /\ \A n \in 1..9 : NamedProgram[n].op = NamedCall(n)
<1>1. Programs["named"] = NamedProgram
    BY DEF Programs, Threads, Workers, Terminating, Main
<1>2. DOMAIN NamedProgram = 1..9
    BY DEF NamedProgram
<1>3. /\ NamedProgram[1].op = "lock" /\ NamedProgram[2].op = "signal_cvar0"
      /\ NamedProgram[3].op = "wait_cvar1" /\ NamedProgram[4].op = "check_name"
      /\ NamedProgram[5].op = "set_name" /\ NamedProgram[6].op = "check_name"
      /\ NamedProgram[7].op = "set" /\ NamedProgram[8].op = "unlock"
      /\ NamedProgram[9].op = "return"
    BY CallOps DEF NamedProgram
<1> QED BY <1>1, <1>2, <1>3 DEF NamedCall

LEMMA NameTestBeginsBehind ==
    /\ NameTestBegin \in Nat /\ NameTestBegin = ExecutionAt + 1 /\ NameTestBegin > 0
BY ExecutionAtIsNat, CleanupTestsAreEarly, LeakTestIsEarly
   DEF ExecutionAt, NameTestBegin, Sequence

\* A program with the test of the names where MainProgram has it, and no other
\* use of the mutex behind it.
Names(p) ==
    /\ Sequence(p)
    /\ Len(p) >= NameTestBegin + 8
    /\ \A k \in 0..8 : p[NameTestBegin + k] = NameTest[k + 1]
    /\ \A k \in 1..Len(p) : k > NameTestBegin + 8 => Early(p[k]) \/ p[k].op = "joins"

LEMMA NamesAndGoesOn ==
    ASSUME NEW p, Names(p), NEW s, Sequence(s), NameTestBegin \in Nat,
           \A k \in 1..Len(s) : Early(s[k]) \/ s[k].op = "joins"
    PROVE  Names(p \o s)
<1>1. /\ Sequence(p \o s)
      /\ Len(p) \in Nat /\ Len(s) \in Nat /\ Len(p \o s) = Len(p) + Len(s)
      /\ \A k \in 1..Len(p \o s) :
            \/ k \in 1..Len(p) /\ (p \o s)[k] = p[k]
            \/ k - Len(p) \in 1..Len(s) /\ (p \o s)[k] = s[k - Len(p)]
    BY Concatenation DEF Names
<1>2. Len(p) >= NameTestBegin + 8 /\ Len(p \o s) >= NameTestBegin + 8
    BY <1>1 DEF Names
<1>3. ASSUME NEW k \in 0..8
      PROVE  (p \o s)[NameTestBegin + k] = NameTest[k + 1]
  <2>1. NameTestBegin + k \in 1..Len(p \o s) \/ NameTestBegin + k = 0
      BY <1>1, <1>2
  <2>2. NameTestBegin + k # 0
      BY NameTestBeginsBehind
  <2>3. ~(NameTestBegin + k - Len(p) \in 1..Len(s))
      BY <1>1, <1>2
  <2>4. NameTestBegin + k \in 1..Len(p) /\ (p \o s)[NameTestBegin + k] = p[NameTestBegin + k]
      BY <1>1, <2>1, <2>2, <2>3
  <2> QED BY <2>4 DEF Names
<1>4. ASSUME NEW k \in 1..Len(p \o s), k > NameTestBegin + 8
      PROVE  Early((p \o s)[k]) \/ (p \o s)[k].op = "joins"
    BY <1>1, <1>4 DEF Names
<1> QED BY <1>1, <1>2, <1>3, <1>4 DEF Names

AllEarly(p) == Sequence(p) /\ \A k \in 1..Len(p) : Early(p[k])

LEMMA AllEarlyConcatenation ==
    ASSUME NEW p, AllEarly(p), NEW s, AllEarly(s)
    PROVE  AllEarly(p \o s)
<1>1. /\ Sequence(p \o s)
      /\ \A k \in 1..Len(p \o s) :
            \/ k \in 1..Len(p) /\ (p \o s)[k] = p[k]
            \/ k - Len(p) \in 1..Len(s) /\ (p \o s)[k] = s[k - Len(p)]
    BY Concatenation DEF AllEarly
<1> QED BY <1>1 DEF AllEarly

LEMMA TestcancelTestsAreEarly == AllEarly(TestcancelTests)
<1> DEFINE self == <<Create("self"), Join("self", "CANCELED"), Check("ignored"),
                     CheckNot("failed")>>
           ext2 == <<Create("ext2"), Cancel("ext2", "ok"), Join("ext2", "CANCELED"),
                     CheckNot("failed")>>
<1> USE LateCalls
<1>1. AllEarly(self)
  <2>1. self \in Seq({self[k] : k \in DOMAIN self})
      OBVIOUS
  <2>2. \A k \in DOMAIN self : Early(self[k])
      BY DEF Workers
  <2> HIDE DEF self
  <2> QED BY <2>1, <2>2 DEF AllEarly, Sequence
<1>2. AllEarly(CancelExt1Test)
  <2>1. CancelExt1Test \in Seq({CancelExt1Test[k] : k \in DOMAIN CancelExt1Test})
      BY DEF CancelExt1Test
  <2>2. \A k \in DOMAIN CancelExt1Test : Early(CancelExt1Test[k])
      BY DEF CancelExt1Test, Workers
  <2> QED BY <2>1, <2>2 DEF AllEarly, Sequence
<1>3. AllEarly(ext2)
  <2>1. ext2 \in Seq({ext2[k] : k \in DOMAIN ext2})
      OBVIOUS
  <2>2. \A k \in DOMAIN ext2 : Early(ext2[k])
      BY DEF Workers
  <2> HIDE DEF ext2
  <2> QED BY <2>1, <2>2 DEF AllEarly, Sequence
<1> HIDE DEF self, ext2
<1>4. AllEarly(self \o CancelExt1Test)
    BY <1>1, <1>2, AllEarlyConcatenation
<1>5. AllEarly(self \o CancelExt1Test \o ext2)
    BY <1>3, <1>4, AllEarlyConcatenation
<1> QED BY <1>5 DEF TestcancelTests, self, ext2

LEMMA MainNames == Names(MainProgram)
<1> DEFINE before == CleanupTests \o DescriptorLeakTest
           upto == before \o <<Call("execution")>>
<1>1. Sequence(upto) /\ Len(upto) \in Nat /\ NameTestBegin = Len(upto) + 1
  <2>1. Sequence(before) /\ Len(before) \in Nat /\ NameTestBegin = Len(before) + 2
      BY CleanupTestsAreEarly, LeakTestIsEarly, Concatenation DEF NameTestBegin
  <2> HIDE DEF before
  <2>2. Sequence(<<Call("execution")>>) /\ Len(<<Call("execution")>>) = 1
    <3>1. <<Call("execution")>> \in Seq({Call("execution")})
        OBVIOUS
    <3> QED BY <3>1 DEF Sequence
  <2> QED BY <2>1, <2>2, Concatenation
<1> HIDE DEF upto
<1>2. Names(upto \o NameTest)
  <2> DEFINE p == upto \o NameTest
  <2>1. /\ Sequence(p) /\ Len(p) = Len(upto) + 9
        /\ \A k \in 1..Len(p) :
              \/ k \in 1..Len(upto) /\ p[k] = upto[k]
              \/ k - Len(upto) \in 1..9 /\ p[k] = NameTest[k - Len(upto)]
    <3>1. Sequence(NameTest) /\ Len(NameTest) = 9
        BY NameTestCalls
    <3>2. /\ Sequence(p) /\ Len(p) = Len(upto) + Len(NameTest)
          /\ \A k \in 1..Len(p) :
                \/ k \in 1..Len(upto) /\ p[k] = upto[k]
                \/ k - Len(upto) \in 1..Len(NameTest) /\ p[k] = NameTest[k - Len(upto)]
        BY <1>1, <3>1, Concatenation
    <3> QED BY <3>1, <3>2
  <2> HIDE DEF p
  <2>2. Len(p) = NameTestBegin + 8
      BY <1>1, <2>1
  <2>3. ASSUME NEW k \in 0..8 PROVE p[NameTestBegin + k] = NameTest[k + 1]
    <3> DEFINE j == NameTestBegin + k
    <3>1. j \in 1..Len(p) /\ ~(j \in 1..Len(upto)) /\ j - Len(upto) = k + 1
        BY <1>1, <2>2
    <3> HIDE DEF j
    <3>2. p[j] = NameTest[j - Len(upto)]
        BY <2>1, <3>1
    <3> QED BY <3>1, <3>2 DEF j
  <2>4. \A k \in 1..Len(p) : ~(k > NameTestBegin + 8)
      BY <1>1, <2>2
  <2>5. Len(p) >= NameTestBegin + 8
      BY <1>1, <2>2
  <2>6. Names(p)
      BY <2>1, <2>3, <2>4, <2>5 DEF Names
  <2> QED BY <2>6 DEF p
<1> USE LateCalls, NameTestBeginsBehind
<1>3. Names(upto \o NameTest \o TerminationTest)
  <2>1. TerminationTest \in Seq({TerminationTest[k] : k \in DOMAIN TerminationTest})
      BY DEF TerminationTest
  <2>2. \A k \in DOMAIN TerminationTest : Early(TerminationTest[k])
      BY DEF TerminationTest, Workers, Terminating
  <2>3. Sequence(TerminationTest) /\ \A k \in 1..Len(TerminationTest) : Early(TerminationTest[k])
      BY <2>1, <2>2 DEF Sequence
  <2> QED BY <1>2, <2>3, NamesAndGoesOn
<1>4. Names(upto \o NameTest \o TerminationTest \o TestcancelTests)
  <2>1. Sequence(TestcancelTests) /\ \A k \in 1..Len(TestcancelTests) : Early(TestcancelTests[k])
      BY TestcancelTestsAreEarly DEF AllEarly
  <2> QED BY <1>3, <2>1, NamesAndGoesOn
<1>5. Names(upto \o NameTest \o TerminationTest \o TestcancelTests \o <<Call("joins")>>)
  <2>1. <<Call("joins")>> \in Seq({Call("joins")}) /\ <<Call("joins")>>[1] = Call("joins")
        /\ Len(<<Call("joins")>>) = 1
      OBVIOUS
  <2>2. \A k \in 1..1 : <<Call("joins")>>[k].op = "joins"
      BY <2>1, CallOps
  <2>3. Sequence(<<Call("joins")>>)
      BY <2>1 DEF Sequence
  <2> QED BY <1>4, <2>1, <2>2, <2>3, NamesAndGoesOn
<1> QED BY <1>5 DEF MainProgram, upto, before

\* What main is to do next, within the test and behind it.
LEMMA MainInTest ==
    ASSUME NEW k \in 0..8, ip[Main] = NameTestBegin + k
    PROVE  /\ Instruction(Main).op = MainCall(k) /\ (k \in {1, 7} => On(Main) = "named")
           /\ \A op : Runs(Main, op) => op = MainCall(k)
<1>1. Programs[Main] = MainProgram
    BY DEF Programs, Threads, Terminating, Main
<1>2. Instruction(Main) = NameTest[k + 1]
    BY <1>1, MainNames DEF Instruction, Names
<1>3. k \in {1, 7} => k + 1 \in {2, 8}
    OBVIOUS
<1> QED BY <1>2, <1>3, NameTestCalls DEF Runs, On

LEMMA MainBehindTest ==
    ASSUME NEW op, Runs(Main, op), ip[Main] \in Int, ip[Main] >= NameTestBegin + 8
    PROVE  op \notin SyncOps /\ (op = "create" => On(Main) # "named")
<1>1. /\ ip[Main] \in 1..Len(MainProgram) /\ MainProgram[ip[Main]].op = op
      /\ Instruction(Main) = MainProgram[ip[Main]]
    BY MainRuns
<1>2. CASE ip[Main] = NameTestBegin + 8
    BY <1>2, MainInTest DEF MainCall, SyncOps
<1>3. CASE ip[Main] # NameTestBegin + 8
  <2>1. ip[Main] > NameTestBegin + 8
      BY <1>3, NameTestBeginsBehind
  <2>2. Early(MainProgram[ip[Main]]) \/ MainProgram[ip[Main]].op = "joins"
      BY <1>1, <2>1, MainNames DEF Names
  <2> QED BY <1>1, <2>2 DEF Early, Apart, SyncOps, On
<1> QED BY <1>2, <1>3

LEMMA NamedInTest ==
    ASSUME NEW n \in 1..9, ip["named"] = n
    PROVE  /\ Instruction("named").op = NamedCall(n)
           /\ \A op : Runs("named", op) => op = NamedCall(n)
BY NamedCalls DEF Instruction, Runs

\* Main goes on to the next instruction until the last.
LEMMA MainGoes ==
    ASSUME NEW op, Runs(Main, op)
    PROVE  op \notin {"exit", "exit_if", "return", "return_if", "test_cancel", "sleep", "again",
                      "push", "pop", "cancel_state", "detach"}
<1>1. ip[Main] \in 1..Len(MainProgram) /\ MainProgram[ip[Main]].op = op
    BY MainRuns
<1>2. op = "execution" \/ Onwards(MainProgram[ip[Main]])
    BY <1>1, MainBegins, ExecutionAtIsNat DEF Begins, Early
<1> QED BY <1>1, <1>2 DEF Onwards, SyncOps

-----------------------------------------------------------------------------
(* The action that an instruction is.                                       *)

LEMMA StepOfRunning ==
    ASSUME NEW t \in Threads, mode[t] = "run", Step(t)
    PROVE  /\ Runs(t, Instruction(t).op)
           /\ Instruction(t).op = "lock" => Ask(t)
           /\ Instruction(t).op = "unlock" => Unlock(t)
           /\ Instruction(t).op \in {"wait_cvar0", "wait_cvar1"} => Wait(t)
           /\ Instruction(t).op \in {"signal_cvar0", "signal_cvar1"} => Signal(t)
           /\ Instruction(t).op = "set_name" => NameThread(t)
           /\ Instruction(t).op \in {"check", "check_name"} => Zassert(t)
           /\ Instruction(t).op = "set" => SetFlag(t)
           /\ Instruction(t).op = "return" => ReturnFrom(t)
           /\ Instruction(t).op \notin {"create", "join"}
<1> DEFINE op == Instruction(t).op
<1>1. \A o : Runs(t, o) => op = o
    BY DEF Runs
<1>2. ~Locked(t) /\ ~Wake(t)
    BY DEF Locked, Wake, Enter
<1>3. /\ SetFlag(t) => Runs(t, "set")
      /\ ClearFlag(t) => Runs(t, "clear")
      /\ AwaitFlag(t) => Runs(t, "await")
      /\ Zassert(t) => Runs(t, "check") \/ Runs(t, "check_not") \/ Runs(t, "check_name")
      /\ PushHandler(t) => Runs(t, "push")
      /\ PopHandler(t) => Runs(t, "pop")
      /\ Exiting(t) => Runs(t, "exit") \/ Runs(t, "exit_if")
      /\ ReturnFrom(t) => Runs(t, "return") \/ Runs(t, "return_if")
      /\ Canceled(t) => Runs(t, "test_cancel") \/ Runs(t, "sleep")
      /\ TestedCancel(t) => Runs(t, "test_cancel")
      /\ Slept(t) => Runs(t, "sleep")
      /\ Again(t) => Runs(t, "again")
      /\ SetCancelState(t) => Runs(t, "cancel_state")
      /\ CancelThread(t) => Runs(t, "cancel")
      /\ DetachSelf(t) => Runs(t, "detach")
      /\ NameThread(t) => Runs(t, "set_name")
    BY DEF SetFlag, ClearFlag, AwaitFlag, Zassert, PushHandler, PopHandler, Exiting, ReturnFrom,
       Returning, Canceled, TestedCancel, Slept, Again, SetCancelState, CancelThread, DetachSelf,
       NameThread
<1>4. /\ Ask(t) => Runs(t, "lock")
      /\ Unlock(t) => Runs(t, "unlock")
      /\ Wait(t) => Runs(t, "wait_cvar0") \/ Runs(t, "wait_cvar1")
      /\ Signal(t) => Runs(t, "signal_cvar0") \/ Runs(t, "signal_cvar1")
    BY DEF Ask, Unlock, Wait, Signal
<1> HIDE DEF op
<1>5. PICK o : Runs(t, o)
    BY <1>2, <1>3, <1>4 DEF Step
<1>6. Runs(t, op)
    BY <1>1, <1>5
<1>7. /\ op = "lock" => Ask(t)
      /\ op = "unlock" => Unlock(t)
      /\ op \in {"wait_cvar0", "wait_cvar1"} => Wait(t)
      /\ op \in {"signal_cvar0", "signal_cvar1"} => Signal(t)
      /\ op = "set_name" => NameThread(t)
      /\ op \in {"check", "check_name"} => Zassert(t)
      /\ op = "set" => SetFlag(t)
      /\ op = "return" => ReturnFrom(t)
      /\ op \notin {"create", "join"}
    BY <1>1, <1>2, <1>3, <1>4 DEF Step
<1> QED BY <1>6, <1>7 DEF op

\* A thread that has asked for the mutex goes on with it, one that sleeps asks
\* for it.
LEMMA StepOfWaiting ==
    ASSUME NEW t \in Threads, mode[t] # "run", Step(t)
    PROVE  (mode[t] = "ask" /\ Locked(t)) \/ (mode[t] = "asleep" /\ Wake(t))
<1>1. \A o : ~Runs(t, o)
    BY DEF Runs
<1>2. Locked(t) \/ Wake(t)
    BY <1>1
       DEF Step, SetFlag, ClearFlag, AwaitFlag, Zassert, PushHandler, PopHandler, Exiting,
           ReturnFrom, Returning, Canceled, TestedCancel, Slept, Again, SetCancelState,
           CancelThread, DetachSelf, NameThread, Ask, Unlock, Wait, Signal
<1> QED BY <1>2 DEF Locked, Wake, Enter

-----------------------------------------------------------------------------
(* What the steps of each thread change.                                    *)

\* The state the proofs below start from.
Typed ==
    /\ ip \in [Threads -> Int]
    /\ DOMAIN mode = Threads /\ DOMAIN descriptor = Threads
    /\ \A t \in Threads : DOMAIN descriptor[t] = DOMAIN NoThread

LEMMA Fields ==
    DOMAIN NoThread = {"status", "result", "state", "pending", "detached", "cleanup"}
BY DEF NoThread

LEMMA MainAndNamed == Main \in Threads /\ "named" \in Threads /\ Main # "named"
BY DEF Threads, Workers, Main

\* A thread changes its own descriptor, or marks another one as cancelled.
LEMMA DescriptorOfStep ==
    ASSUME Typed, NEW t \in Threads, Step(t)
    PROVE  /\ \/ descriptor' = descriptor
              \/ \E d : DOMAIN d = DOMAIN NoThread /\ descriptor' = [descriptor EXCEPT ![t] = d]
              \/ \E u, b : descriptor' = [descriptor EXCEPT ![u].pending = b]
           /\ \A u \in Threads \ {t} : ip'[u] = ip[u] /\ mode'[u] = mode[u]
<1>1. DOMAIN descriptor[t] = DOMAIN NoThread
    BY DEF Typed
<1>2. CASE \/ SetFlag(t) \/ ClearFlag(t) \/ AwaitFlag(t) \/ Zassert(t) \/ TestedCancel(t)
           \/ Slept(t) \/ Again(t) \/ NameThread(t) \/ Ask(t) \/ Locked(t) \/ Unlock(t)
           \/ Wait(t) \/ Wake(t) \/ Signal(t)
    BY <1>2
       DEF SetFlag, ClearFlag, AwaitFlag, Zassert, TestedCancel, Slept, Again, NameThread, Ask,
           Locked, Unlock, Wait, Wake, Signal, Enter, Advance, threads, Typed
<1>3. CASE PushHandler(t) \/ PopHandler(t) \/ SetCancelState(t) \/ DetachSelf(t)
  <2>1. /\ \E d : DOMAIN d = DOMAIN descriptor[t] /\ descriptor' = [descriptor EXCEPT ![t] = d]
        /\ mode' = mode /\ ip' = [ip EXCEPT ![t] = @ + 1]
      BY <1>3, Fields DEF PushHandler, PopHandler, SetCancelState, DetachSelf, Advance, Typed
  <2> QED BY <1>1, <2>1 DEF Typed
<1>4. CASE Exiting(t) \/ ReturnFrom(t) \/ Canceled(t)
  <2>1. PICK v : End(t, v)
      BY <1>4 DEF Exiting, ReturnFrom, Canceled, EndWithHandlers
  <2>2. /\ \E d : DOMAIN d = DOMAIN NoThread /\ descriptor' = [descriptor EXCEPT ![t] = d]
        /\ mode' = mode /\ ip' = [ip EXCEPT ![t] = 1]
    <3> DEFINE d == IF descriptor[t].detached THEN NoThread
                    ELSE [NoThread EXCEPT !.status = "ended", !.result = v]
    <3>1. descriptor' = [descriptor EXCEPT ![t] = d] /\ mode' = mode /\ ip' = [ip EXCEPT ![t] = 1]
        BY <2>1 DEF End
    <3>2. DOMAIN d = DOMAIN NoThread
        BY DEF NoThread
    <3> QED BY <3>1, <3>2
  <2> QED BY <2>2 DEF Typed
<1>5. CASE CancelThread(t)
    BY <1>5 DEF CancelThread, Advance, Typed
<1> QED BY <1>2, <1>3, <1>4, <1>5 DEF Step

LEMMA StepKeepsOthers ==
    ASSUME Typed, NEW t \in Threads, Step(t)
    PROVE  /\ \A u \in Threads : DOMAIN descriptor'[u] = DOMAIN NoThread
           /\ \A u \in Threads \ {t} :
                 /\ descriptor'[u].status = descriptor[u].status
                 /\ descriptor'[u].detached = descriptor[u].detached
                 /\ ip'[u] = ip[u] /\ mode'[u] = mode[u]
<1>1. \A u \in Threads \ {t} : ip'[u] = ip[u] /\ mode'[u] = mode[u]
    BY DescriptorOfStep
<1>2. CASE descriptor' = descriptor
    BY <1>1, <1>2 DEF Typed
<1>3. CASE \E d : DOMAIN d = DOMAIN NoThread /\ descriptor' = [descriptor EXCEPT ![t] = d]
    BY <1>1, <1>3 DEF Typed
<1>4. ASSUME NEW v, NEW b, descriptor' = [descriptor EXCEPT ![v].pending = b]
      PROVE  \A u \in Threads : /\ DOMAIN descriptor'[u] = DOMAIN NoThread
                                /\ descriptor'[u].status = descriptor[u].status
                                /\ descriptor'[u].detached = descriptor[u].detached
  <2>1. ASSUME NEW u \in Threads
        PROVE  /\ DOMAIN descriptor'[u] = DOMAIN NoThread
               /\ descriptor'[u].status = descriptor[u].status
               /\ descriptor'[u].detached = descriptor[u].detached
    <3>1. /\ DOMAIN descriptor[u] = DOMAIN NoThread
          /\ "status" \in DOMAIN descriptor[u] /\ "detached" \in DOMAIN descriptor[u]
        BY Fields DEF Typed
    <3>2. descriptor'[u] = IF u = v THEN [descriptor[u] EXCEPT !.pending = b] ELSE descriptor[u]
        BY <1>4 DEF Typed
    <3> QED BY <3>1, <3>2
  <2> QED BY <2>1
<1> QED BY <1>1, <1>2, <1>3, <1>4, DescriptorOfStep

\* The threads of the other tests have nothing to do with the mutex.
LEMMA OtherStep ==
    ASSUME Typed, NEW t \in Threads \ {Main, "named"}, mode[t] = "run", Step(t)
    PROVE  UNCHANGED <<sync, mode>>
<1>1. Runs(t, Instruction(t).op)
    BY StepOfRunning
<1>2. Apart(Instruction(t))
    BY <1>1, WorkerRuns
<1>3. ~Locked(t) /\ ~Wake(t)
    BY DEF Locked, Wake, Enter
<1>4. \A o \in SyncOps : ~Runs(t, o)
    BY <1>2 DEF Runs, Apart, SyncOps
<1>5. ~Ask(t) /\ ~Unlock(t) /\ ~Wait(t) /\ ~Signal(t)
    BY <1>4 DEF Ask, Unlock, Wait, Signal, SyncOps
<1> QED BY <1>3, <1>5
        DEF Step, SetFlag, ClearFlag, AwaitFlag, Zassert, PushHandler, PopHandler, Exiting,
            ReturnFrom, Canceled, TestedCancel, Slept, Again, SetCancelState, CancelThread,
            DetachSelf, NameThread, EndWithHandlers, End

\* Main does not end, and marks other threads as cancelled at most.
LEMMA StepOfMain ==
    ASSUME Typed, Step(Main)
    PROVE  \/ descriptor' = descriptor
           \/ \E u, b : descriptor' = [descriptor EXCEPT ![u].pending = b]
<1>1. \A o : Runs(Main, o) =>
          o \notin {"exit", "exit_if", "return", "return_if", "test_cancel", "sleep", "again",
                    "push", "pop", "cancel_state", "detach"}
    BY MainGoes
<1>2. /\ ~Exiting(Main) /\ ~ReturnFrom(Main) /\ ~Canceled(Main)
      /\ ~PushHandler(Main) /\ ~PopHandler(Main) /\ ~SetCancelState(Main) /\ ~DetachSelf(Main)
    BY <1>1
       DEF Exiting, ReturnFrom, Returning, Canceled, PushHandler, PopHandler, SetCancelState,
       DetachSelf
<1>3. CASE CancelThread(Main)
    BY <1>3 DEF CancelThread
<1>4. CASE ~CancelThread(Main)
    BY <1>2, <1>4
       DEF Step, SetFlag, ClearFlag, AwaitFlag, Zassert, TestedCancel, Slept, Again, NameThread,
           Ask, Locked, Unlock, Wait, Wake, Signal, threads
<1> QED BY <1>3, <1>4

LEMMA MainStays ==
    ASSUME Typed, MainThread, descriptor[Main].status = "running"
    PROVE  /\ descriptor'[Main].status = "running"
           /\ \A u \in Threads : DOMAIN descriptor'[u] = DOMAIN NoThread
           /\ \A u \in Threads \ {Main} : ip'[u] = ip[u] /\ mode'[u] = mode[u]
           /\ ~descriptor["named"].detached => ~descriptor'["named"].detached
<1> USE MainAndNamed
<1>0. \A u \in Threads : "status" \in DOMAIN descriptor[u] /\ "detached" \in DOMAIN descriptor[u]
    BY Fields DEF Typed
<1>1. CASE Step(Main)
  <2>1. \A u \in Threads : DOMAIN descriptor'[u] = DOMAIN NoThread
      BY <1>1, StepKeepsOthers
  <2>2. ASSUME NEW u \in {Main, "named"}
        PROVE  descriptor'[u].status = descriptor[u].status
               /\ descriptor'[u].detached = descriptor[u].detached
    <3>1. CASE descriptor' = descriptor
        BY <3>1
    <3>2. ASSUME NEW v, NEW b, descriptor' = [descriptor EXCEPT ![v].pending = b]
          PROVE  descriptor'[u].status = descriptor[u].status
                 /\ descriptor'[u].detached = descriptor[u].detached
      <4>1. descriptor'[u] = IF u = v THEN [descriptor[u] EXCEPT !.pending = b] ELSE descriptor[u]
          BY <3>2 DEF Typed
      <4> QED BY <4>1, <1>0
    <3> QED BY <1>1, <3>1, <3>2, StepOfMain
  <2> QED BY <1>1, <2>1, <2>2, StepKeepsOthers
<1>2. CASE CreateThread
  <2>1. /\ descriptor' = [descriptor EXCEPT ![On(Main)].status = "running"]
        /\ mode' = mode /\ ip' = [ip EXCEPT ![Main] = @ + 1]
      BY <1>2 DEF CreateThread, Advance
  <2>2. ASSUME NEW u \in Threads
        PROVE  /\ DOMAIN descriptor'[u] = DOMAIN NoThread
               /\ descriptor'[u].status \in {descriptor[u].status, "running"}
               /\ descriptor'[u].detached = descriptor[u].detached
    <3>1. descriptor'[u] = IF u = On(Main) THEN [descriptor[u] EXCEPT !.status = "running"]
                           ELSE descriptor[u]
        BY <2>1 DEF Typed
    <3> QED BY <3>1, <1>0 DEF Typed
  <2> QED BY <2>1, <2>2 DEF Typed
<1>3. CASE JoinThread
  <2>1. /\ descriptor[On(Main)].status = "ended"
        /\ descriptor' = [descriptor EXCEPT ![On(Main)] = NoThread]
        /\ mode' = mode /\ ip' = [ip EXCEPT ![Main] = @ + 1]
      BY <1>3 DEF JoinThread, Advance
  <2>2. On(Main) # Main /\ ~NoThread.detached
      BY <2>1 DEF NoThread
  <2> QED BY <2>1, <2>2 DEF Typed
<1> QED BY <1>1, <1>2, <1>3 DEF MainThread

\* The steps of main in the test of the names.
LEMMA MainMovesInTest ==
    ASSUME Typed, MainThread, NEW k \in 0..8, ip[Main] = NameTestBegin + k
    PROVE  /\ mode[Main] = "ask" =>
                 /\ Owns(Main) /\ mode' = [mode EXCEPT ![Main] = "run"]
                 /\ ip' = [ip EXCEPT ![Main] = @ + 1] /\ UNCHANGED <<sync, descriptor>>
           /\ mode[Main] = "asleep" =>
                 /\ Main \notin ToSet(cvar0) /\ lock' = Append(lock, Main)
                 /\ mode' = [mode EXCEPT ![Main] = "ask"]
                 /\ UNCHANGED <<cvar0, cvar1, ip, descriptor>>
           /\ mode[Main] = "run" /\ k = 0 =>
                 /\ lock' = Append(lock, Main) /\ mode' = [mode EXCEPT ![Main] = "ask"]
                 /\ UNCHANGED <<cvar0, cvar1, ip, descriptor>>
           /\ mode[Main] = "run" /\ k = 1 =>
                 /\ descriptor' = [descriptor EXCEPT !["named"].status = "running"]
                 /\ ip' = [ip EXCEPT ![Main] = @ + 1] /\ UNCHANGED <<sync, mode>>
           /\ mode[Main] = "run" /\ k = 2 =>
                 /\ Owns(Main) /\ lock' = Tail(lock) /\ cvar0' = Append(cvar0, Main)
                 /\ mode' = [mode EXCEPT ![Main] = "asleep"]
                 /\ UNCHANGED <<cvar1, ip, descriptor>>
           /\ mode[Main] = "run" /\ k \in {3, 4, 8} =>
                 /\ ip' = [ip EXCEPT ![Main] = @ + 1] /\ UNCHANGED <<sync, mode, descriptor>>
           /\ mode[Main] = "run" /\ k = 5 =>
                 /\ ip' = [ip EXCEPT ![Main] = @ + 1]
                 /\ UNCHANGED <<lock, cvar0, mode, descriptor>>
                 /\ cvar1 # {} => \E u \in cvar1 : cvar1' = cvar1 \ {u}
           /\ mode[Main] = "run" /\ k = 6 =>
                 /\ Owns(Main) /\ lock' = Tail(lock) /\ ip' = [ip EXCEPT ![Main] = @ + 1]
                 /\ UNCHANGED <<cvar0, cvar1, mode, descriptor>>
           /\ mode[Main] = "run" /\ k = 7 =>
                 /\ descriptor["named"].status = "ended"
                 /\ descriptor' = [descriptor EXCEPT !["named"] = NoThread]
                 /\ ip' = [ip EXCEPT ![Main] = @ + 1] /\ UNCHANGED <<sync, mode>>
<1> USE MainAndNamed
<1>1. CASE mode[Main] # "run"
  <2>1. ~CreateThread /\ ~JoinThread
      BY <1>1 DEF CreateThread, JoinThread, Runs
  <2>2. (mode[Main] = "ask" /\ Locked(Main)) \/ (mode[Main] = "asleep" /\ Wake(Main))
      BY <1>1, <2>1, StepOfWaiting DEF MainThread
  <2> QED BY <1>1, <2>2 DEF Locked, Wake, Enter, Advance, threads
<1>2. CASE mode[Main] = "run"
  <2>1. /\ Instruction(Main).op = MainCall(k) /\ \A op : Runs(Main, op) => op = MainCall(k)
        /\ k \in {1, 7} => On(Main) = "named"
      BY MainInTest
  <2>2. /\ k \notin {1, 7} => Step(Main)
        /\ k = 1 => CreateThread \/ Step(Main)
        /\ k = 7 => JoinThread \/ Step(Main)
      BY <2>1 DEF MainThread, CreateThread, JoinThread, MainCall
  <2>3. CASE k = 1
    <3>1. CreateThread
        BY <1>2, <2>1, <2>2, <2>3, StepOfRunning DEF MainCall
    <3> QED BY <1>2, <2>1, <2>3, <3>1 DEF CreateThread, Advance
  <2>4. CASE k = 7
    <3>1. JoinThread
        BY <1>2, <2>1, <2>2, <2>4, StepOfRunning DEF MainCall
    <3> QED BY <1>2, <2>1, <2>4, <3>1 DEF JoinThread, Advance
  <2>5. CASE k = 0
    <3>1. Ask(Main)
        BY <1>2, <2>1, <2>2, <2>5, StepOfRunning DEF MainCall
    <3> QED BY <1>2, <2>5, <3>1 DEF Ask, Enter, threads
  <2>6. CASE k = 2
    <3>1. Wait(Main) /\ ~Runs(Main, "wait_cvar1")
        BY <1>2, <2>1, <2>2, <2>6, StepOfRunning DEF MainCall
    <3> QED BY <1>2, <2>6, <3>1 DEF Wait, Enter, threads
  <2>7. CASE k = 3
    <3>1. NameThread(Main)
        BY <1>2, <2>1, <2>2, <2>7, StepOfRunning DEF MainCall
    <3> QED BY <1>2, <2>7, <3>1 DEF NameThread, Advance, threads
  <2>8. CASE k \in {4, 8}
    <3>1. Zassert(Main)
        BY <1>2, <2>1, <2>2, <2>8, StepOfRunning DEF MainCall
    <3> QED BY <1>2, <2>8, <3>1 DEF Zassert, Advance, threads
  <2>9. CASE k = 5
    <3>1. Signal(Main) /\ ~Runs(Main, "signal_cvar0")
        BY <1>2, <2>1, <2>2, <2>9, StepOfRunning DEF MainCall
    <3> QED BY <1>2, <2>9, <3>1 DEF Signal, Advance, threads
  <2>10. CASE k = 6
    <3>1. Unlock(Main)
        BY <1>2, <2>1, <2>2, <2>10, StepOfRunning DEF MainCall
    <3> QED BY <1>2, <2>10, <3>1 DEF Unlock, Advance, threads
  <2> QED BY <2>3, <2>4, <2>5, <2>6, <2>7, <2>8, <2>9, <2>10
<1> QED BY <1>1, <1>2

\* The steps of the thread it names.
LEMMA NamedMovesInTest ==
    ASSUME Typed, Step("named"), NEW n \in 1..9, ip["named"] = n,
           ~descriptor["named"].detached
    PROVE  /\ mode["named"] = "ask" =>
                 /\ Owns("named") /\ mode' = [mode EXCEPT !["named"] = "run"]
                 /\ ip' = [ip EXCEPT !["named"] = @ + 1] /\ UNCHANGED <<sync, descriptor>>
           /\ mode["named"] = "asleep" =>
                 /\ "named" \notin cvar1 /\ lock' = Append(lock, "named")
                 /\ mode' = [mode EXCEPT !["named"] = "ask"]
                 /\ UNCHANGED <<cvar0, cvar1, ip, descriptor>>
           /\ mode["named"] = "run" => descriptor["named"].status = "running"
           /\ mode["named"] = "run" /\ n = 1 =>
                 /\ lock' = Append(lock, "named") /\ mode' = [mode EXCEPT !["named"] = "ask"]
                 /\ UNCHANGED <<cvar0, cvar1, ip, descriptor>>
           /\ mode["named"] = "run" /\ n = 2 =>
                 /\ ip' = [ip EXCEPT !["named"] = @ + 1]
                 /\ UNCHANGED <<lock, cvar1, mode, descriptor>>
                 /\ cvar0 # <<>> => cvar0' = Tail(cvar0)
           /\ mode["named"] = "run" /\ n = 3 =>
                 /\ Owns("named") /\ lock' = Tail(lock) /\ cvar1' = cvar1 \cup {"named"}
                 /\ mode' = [mode EXCEPT !["named"] = "asleep"]
                 /\ UNCHANGED <<cvar0, ip, descriptor>>
           /\ mode["named"] = "run" /\ n \in 4..7 =>
                 /\ ip' = [ip EXCEPT !["named"] = @ + 1] /\ UNCHANGED <<sync, mode, descriptor>>
           /\ mode["named"] = "run" /\ n = 8 =>
                 /\ Owns("named") /\ lock' = Tail(lock) /\ ip' = [ip EXCEPT !["named"] = @ + 1]
                 /\ UNCHANGED <<cvar0, cvar1, mode, descriptor>>
           /\ mode["named"] = "run" /\ n = 9 =>
                 /\ descriptor'["named"].status = "ended" /\ ~descriptor'["named"].detached
                 /\ ip' = [ip EXCEPT !["named"] = 1] /\ UNCHANGED <<sync, mode>>
<1> USE MainAndNamed
<1>1. CASE mode["named"] # "run"
  <2>1. (mode["named"] = "ask" /\ Locked("named")) \/ (mode["named"] = "asleep" /\ Wake("named"))
      BY <1>1, StepOfWaiting
  <2> QED BY <1>1, <2>1 DEF Locked, Wake, Enter, Advance, threads
<1>2. CASE mode["named"] = "run"
  <2>1. /\ Instruction("named").op = NamedCall(n)
        /\ \A op : Runs("named", op) => op = NamedCall(n)
      BY NamedInTest
  <2>2. descriptor["named"].status = "running"
      BY <1>2, StepOfRunning DEF Runs
  <2>3. CASE n = 1
    <3>1. Ask("named")
        BY <1>2, <2>1, <2>3, StepOfRunning DEF NamedCall
    <3> QED BY <1>2, <2>2, <2>3, <3>1 DEF Ask, Enter, threads
  <2>4. CASE n = 2
    <3>1. Signal("named") /\ ~Runs("named", "signal_cvar1")
        BY <1>2, <2>1, <2>4, StepOfRunning DEF NamedCall
    <3> QED BY <1>2, <2>2, <2>4, <3>1 DEF Signal, Advance, threads
  <2>5. CASE n = 3
    <3>1. Wait("named") /\ ~Runs("named", "wait_cvar0")
        BY <1>2, <2>1, <2>5, StepOfRunning DEF NamedCall
    <3> QED BY <1>2, <2>2, <2>5, <3>1 DEF Wait, Enter, threads
  <2>6. CASE n \in {4, 6}
    <3>1. Zassert("named")
        BY <1>2, <2>1, <2>6, StepOfRunning DEF NamedCall
    <3> QED BY <1>2, <2>2, <2>6, <3>1 DEF Zassert, Advance, threads
  <2>7. CASE n = 5
    <3>1. NameThread("named")
        BY <1>2, <2>1, <2>7, StepOfRunning DEF NamedCall
    <3> QED BY <1>2, <2>2, <2>7, <3>1 DEF NameThread, Advance, threads
  <2>8. CASE n = 7
    <3>1. SetFlag("named")
        BY <1>2, <2>1, <2>8, StepOfRunning DEF NamedCall
    <3> QED BY <1>2, <2>2, <2>8, <3>1 DEF SetFlag, Advance, threads
  <2>9. CASE n = 8
    <3>1. Unlock("named")
        BY <1>2, <2>1, <2>9, StepOfRunning DEF NamedCall
    <3> QED BY <1>2, <2>2, <2>9, <3>1 DEF Unlock, Advance, threads
  <2>10. CASE n = 9
    <3>1. ReturnFrom("named")
        BY <1>2, <2>1, <2>10, StepOfRunning DEF NamedCall
    <3>2. PICK v : End("named", v)
        BY <3>1 DEF ReturnFrom
    <3>3. /\ descriptor'["named"] = [NoThread EXCEPT !.status = "ended", !.result = v]
          /\ ip' = [ip EXCEPT !["named"] = 1] /\ UNCHANGED <<sync, mode>>
        BY <3>2 DEF End, Typed
    <3>4. descriptor'["named"].status = "ended" /\ ~descriptor'["named"].detached
        BY <3>3 DEF NoThread
    <3> QED BY <1>2, <2>2, <2>10, <3>3, <3>4
  <2> QED BY <2>3, <2>4, <2>5, <2>6, <2>7, <2>8, <2>9, <2>10
<1> QED BY <1>1, <1>2

LEMMA SleepsAlone == \A x : x \in ToSet(<<x>>)
BY DEF ToSet

\* Each of the two steps from one line of the phases to another, or cannot step.
LEMMA MainFromAlone ==
    ASSUME Typed, MainAlone, MainThread, ~descriptor["named"].detached
    PROVE  MainAlone' \/ MainSleeps'
<1> USE MainAndNamed, NameTestBeginsBehind, ShortSequences, SleepsAlone
<1>1. CASE Named("none") /\ Meeting(0, "run", 1, "run", <<>>, <<>>, {})
  <2>0. mode' = [mode EXCEPT ![Main] = "ask"] /\ lock' = <<Main>> /\ UNCHANGED <<ip, cvar0, cvar1>>
      BY <1>1, MainMovesInTest DEF Meeting
  <2>1. Meeting(0, "ask", 1, "run", <<Main>>, <<>>, {})'
      BY <1>1, <2>0 DEF Meeting, Typed
  <2>2. Named("none")'
      BY <1>1, MainMovesInTest, Fields DEF Meeting, Named, Typed
  <2> QED BY <2>1, <2>2 DEF MainAlone
<1>2. CASE Named("none") /\ Meeting(0, "ask", 1, "run", <<Main>>, <<>>, {})
  <2>1. ip' = [ip EXCEPT ![Main] = @ + 1]
      BY <1>2, MainMovesInTest DEF Meeting
  <2>2. ip'[Main] = NameTestBegin + 1 /\ ip'["named"] = 1
      BY <1>2, <2>1 DEF Meeting, Typed
  <2>3. Meeting(1, "run", 1, "run", <<Main>>, <<>>, {})'
      BY <1>2, <2>2, MainMovesInTest DEF Meeting, Owns, Typed, sync
  <2>4. Named("none")'
      BY <1>2, MainMovesInTest, Fields DEF Meeting, Named, Typed
  <2> QED BY <2>3, <2>4 DEF MainAlone
<1>3. CASE Named("none") /\ Meeting(1, "run", 1, "run", <<Main>>, <<>>, {})
  <2>1. ip' = [ip EXCEPT ![Main] = @ + 1]
      BY <1>3, MainMovesInTest DEF Meeting
  <2>2. ip'[Main] = NameTestBegin + 2 /\ ip'["named"] = 1
      BY <1>3, <2>1 DEF Meeting, Typed
  <2>3. Meeting(2, "run", 1, "run", <<Main>>, <<>>, {})'
      BY <1>3, <2>2, MainMovesInTest DEF Meeting, Owns, Typed, sync
  <2>4. Named("running")'
      BY <1>3, MainMovesInTest, Fields DEF Meeting, Named, Typed
  <2> QED BY <2>3, <2>4 DEF MainSleeps
<1> QED BY <1>1, <1>2, <1>3 DEF MainAlone

LEMMA MainFromSleep ==
    ASSUME Typed, MainSleeps, MainThread, ~descriptor["named"].detached
    PROVE  MainSleeps'
<1> USE MainAndNamed, NameTestBeginsBehind, ShortSequences, SleepsAlone
<1>1. CASE Named("running") /\ Meeting(2, "run", 1, "run", <<Main>>, <<>>, {})
  <2>1. Meeting(2, "asleep", 1, "run", <<>>, <<Main>>, {})'
      BY <1>1, MainMovesInTest DEF Meeting, Owns, Typed, sync
  <2>2. Named("running")'
      BY <1>1, MainMovesInTest, Fields DEF Meeting, Named, Typed
  <2> QED BY <2>1, <2>2 DEF MainSleeps
<1>2. CASE Named("running") /\ Meeting(2, "run", 1, "ask", <<Main, "named">>, <<>>, {})
  <2>1. Meeting(2, "asleep", 1, "ask", <<"named">>, <<Main>>, {})'
      BY <1>2, MainMovesInTest DEF Meeting, Owns, Typed, sync
  <2>2. Named("running")'
      BY <1>2, MainMovesInTest, Fields DEF Meeting, Named, Typed
  <2> QED BY <2>1, <2>2 DEF MainSleeps
<1>3. CASE Named("running") /\ Meeting(2, "asleep", 1, "run", <<>>, <<Main>>, {})
  <2>1. mode[Main] = "asleep" /\ ip[Main] = NameTestBegin + 2 /\ cvar0 = <<Main>>
      BY <1>3 DEF Meeting
  <2> QED BY <2>1, MainMovesInTest
<1>4. CASE Named("running") /\ Meeting(2, "asleep", 1, "ask", <<"named">>, <<Main>>, {})
    BY <1>4, MainMovesInTest DEF Meeting, Named, Owns
<1>5. CASE Named("running") /\ Meeting(2, "asleep", 2, "run", <<"named">>, <<Main>>, {})
    BY <1>5, MainMovesInTest DEF Meeting, Named, Owns
<1> QED BY <1>1, <1>2, <1>3, <1>4, <1>5 DEF MainSleeps

LEMMA NamedFromSleep ==
    ASSUME Typed, MainSleeps, Step("named"), ~descriptor["named"].detached
    PROVE  MainSleeps' \/ NamedSleeps'
<1> USE MainAndNamed, NameTestBeginsBehind, ShortSequences, SleepsAlone
<1>1. CASE Named("running") /\ Meeting(2, "run", 1, "run", <<Main>>, <<>>, {})
  <2>1. Meeting(2, "run", 1, "ask", <<Main, "named">>, <<>>, {})'
      BY <1>1, NamedMovesInTest DEF Meeting, Owns, Typed, sync
  <2>2. Named("running")'
      BY <1>1, NamedMovesInTest, Fields DEF Meeting, Named, Typed
  <2> QED BY <2>1, <2>2 DEF MainSleeps
<1>2. CASE Named("running") /\ Meeting(2, "run", 1, "ask", <<Main, "named">>, <<>>, {})
    BY <1>2, NamedMovesInTest DEF Meeting, Named, Owns
<1>3. CASE Named("running") /\ Meeting(2, "asleep", 1, "run", <<>>, <<Main>>, {})
  <2>1. Meeting(2, "asleep", 1, "ask", <<"named">>, <<Main>>, {})'
      BY <1>3, NamedMovesInTest DEF Meeting, Owns, Typed, sync
  <2>2. Named("running")'
      BY <1>3, NamedMovesInTest, Fields DEF Meeting, Named, Typed
  <2> QED BY <2>1, <2>2 DEF MainSleeps
<1>4. CASE Named("running") /\ Meeting(2, "asleep", 1, "ask", <<"named">>, <<Main>>, {})
  <2>1. ip' = [ip EXCEPT !["named"] = @ + 1]
      BY <1>4, NamedMovesInTest DEF Meeting
  <2>2. ip'[Main] = NameTestBegin + 2 /\ ip'["named"] = 2
      BY <1>4, <2>1 DEF Meeting, Typed
  <2>3. Meeting(2, "asleep", 2, "run", <<"named">>, <<Main>>, {})'
      BY <1>4, <2>2, NamedMovesInTest DEF Meeting, Owns, Typed, sync
  <2>4. Named("running")'
      BY <1>4, NamedMovesInTest, Fields DEF Meeting, Named, Typed
  <2> QED BY <2>3, <2>4 DEF MainSleeps
<1>5. CASE Named("running") /\ Meeting(2, "asleep", 2, "run", <<"named">>, <<Main>>, {})
  <2>1. ip' = [ip EXCEPT !["named"] = @ + 1]
      BY <1>5, NamedMovesInTest DEF Meeting
  <2>2. ip'[Main] = NameTestBegin + 2 /\ ip'["named"] = 3
      BY <1>5, <2>1 DEF Meeting, Typed
  <2>3. Meeting(2, "asleep", 3, "run", <<"named">>, <<>>, {})'
      BY <1>5, <2>2, NamedMovesInTest DEF Meeting, Owns, Typed, sync
  <2>4. Named("running")'
      BY <1>5, NamedMovesInTest, Fields DEF Meeting, Named, Typed
  <2> QED BY <2>3, <2>4 DEF NamedSleeps
<1> QED BY <1>1, <1>2, <1>3, <1>4, <1>5 DEF MainSleeps

LEMMA MainFromNamedSleeps ==
    ASSUME Typed, NamedSleeps, MainThread, ~descriptor["named"].detached
    PROVE  NamedEnds' \/ NamedSleeps'
<1> USE MainAndNamed, NameTestBeginsBehind, ShortSequences, SleepsAlone
<1>1. CASE Named("running") /\ Meeting(2, "asleep", 3, "run", <<"named">>, <<>>, {})
  <2>1. Meeting(2, "ask", 3, "run", <<"named", Main>>, <<>>, {})'
      BY <1>1, MainMovesInTest DEF Meeting, Owns, Typed, sync
  <2>2. Named("running")'
      BY <1>1, MainMovesInTest, Fields DEF Meeting, Named, Typed
  <2> QED BY <2>1, <2>2 DEF NamedSleeps
<1>2. CASE Named("running") /\ Meeting(2, "ask", 3, "run", <<"named", Main>>, <<>>, {})
    BY <1>2, MainMovesInTest DEF Meeting, Named, Owns
<1>3. CASE Named("running") /\ Meeting(2, "asleep", 3, "asleep", <<>>, <<>>, {"named"})
  <2>1. Meeting(2, "ask", 3, "asleep", <<Main>>, <<>>, {"named"})'
      BY <1>3, MainMovesInTest DEF Meeting, Owns, Typed, sync
  <2>2. Named("running")'
      BY <1>3, MainMovesInTest, Fields DEF Meeting, Named, Typed
  <2> QED BY <2>1, <2>2 DEF NamedSleeps
<1>4. CASE Named("running") /\ Meeting(2, "ask", 3, "asleep", <<Main>>, <<>>, {"named"})
  <2>1. ip' = [ip EXCEPT ![Main] = @ + 1]
      BY <1>4, MainMovesInTest DEF Meeting
  <2>2. ip'[Main] = NameTestBegin + 3 /\ ip'["named"] = 3
      BY <1>4, <2>1 DEF Meeting, Typed
  <2>3. Meeting(3, "run", 3, "asleep", <<Main>>, <<>>, {"named"})'
      BY <1>4, <2>2, MainMovesInTest DEF Meeting, Owns, Typed, sync
  <2>4. Named("running")'
      BY <1>4, MainMovesInTest, Fields DEF Meeting, Named, Typed
  <2> QED BY <2>3, <2>4 DEF NamedSleeps
<1>5. CASE Named("running") /\ Meeting(3, "run", 3, "asleep", <<Main>>, <<>>, {"named"})
  <2>1. ip' = [ip EXCEPT ![Main] = @ + 1]
      BY <1>5, MainMovesInTest DEF Meeting
  <2>2. ip'[Main] = NameTestBegin + 4 /\ ip'["named"] = 3
      BY <1>5, <2>1 DEF Meeting, Typed
  <2>3. Meeting(4, "run", 3, "asleep", <<Main>>, <<>>, {"named"})'
      BY <1>5, <2>2, MainMovesInTest DEF Meeting, Owns, Typed, sync
  <2>4. Named("running")'
      BY <1>5, MainMovesInTest, Fields DEF Meeting, Named, Typed
  <2> QED BY <2>3, <2>4 DEF NamedSleeps
<1>6. CASE Named("running") /\ Meeting(4, "run", 3, "asleep", <<Main>>, <<>>, {"named"})
  <2>1. ip' = [ip EXCEPT ![Main] = @ + 1]
      BY <1>6, MainMovesInTest DEF Meeting
  <2>2. ip'[Main] = NameTestBegin + 5 /\ ip'["named"] = 3
      BY <1>6, <2>1 DEF Meeting, Typed
  <2>3. Meeting(5, "run", 3, "asleep", <<Main>>, <<>>, {"named"})'
      BY <1>6, <2>2, MainMovesInTest DEF Meeting, Owns, Typed, sync
  <2>4. Named("running")'
      BY <1>6, MainMovesInTest, Fields DEF Meeting, Named, Typed
  <2> QED BY <2>3, <2>4 DEF NamedSleeps
<1>7. CASE Named("running") /\ Meeting(5, "run", 3, "asleep", <<Main>>, <<>>, {"named"})
  <2>1. ip' = [ip EXCEPT ![Main] = @ + 1]
      BY <1>7, MainMovesInTest DEF Meeting
  <2>2. ip'[Main] = NameTestBegin + 6 /\ ip'["named"] = 3
      BY <1>7, <2>1 DEF Meeting, Typed
  <2>3. Meeting(6, "run", 3, "asleep", <<Main>>, <<>>, {})'
      BY <1>7, <2>2, MainMovesInTest DEF Meeting, Owns, Typed, sync
  <2>4. Named("running")'
      BY <1>7, MainMovesInTest, Fields DEF Meeting, Named, Typed
  <2> QED BY <2>3, <2>4 DEF NamedEnds
<1> QED BY <1>1, <1>2, <1>3, <1>4, <1>5, <1>6, <1>7 DEF NamedSleeps

LEMMA NamedFromNamedSleeps ==
    ASSUME Typed, NamedSleeps, Step("named"), ~descriptor["named"].detached
    PROVE  NamedSleeps'
<1> USE MainAndNamed, NameTestBeginsBehind, ShortSequences, SleepsAlone
<1>1. CASE Named("running") /\ Meeting(2, "asleep", 3, "run", <<"named">>, <<>>, {})
  <2>1. Meeting(2, "asleep", 3, "asleep", <<>>, <<>>, {"named"})'
      BY <1>1, NamedMovesInTest DEF Meeting, Owns, Typed, sync
  <2>2. Named("running")'
      BY <1>1, NamedMovesInTest, Fields DEF Meeting, Named, Typed
  <2> QED BY <2>1, <2>2 DEF NamedSleeps
<1>2. CASE Named("running") /\ Meeting(2, "ask", 3, "run", <<"named", Main>>, <<>>, {})
  <2>1. Meeting(2, "ask", 3, "asleep", <<Main>>, <<>>, {"named"})'
      BY <1>2, NamedMovesInTest DEF Meeting, Owns, Typed, sync
  <2>2. Named("running")'
      BY <1>2, NamedMovesInTest, Fields DEF Meeting, Named, Typed
  <2> QED BY <2>1, <2>2 DEF NamedSleeps
<1>3. CASE Named("running") /\ Meeting(2, "asleep", 3, "asleep", <<>>, <<>>, {"named"})
    BY <1>3, NamedMovesInTest DEF Meeting, Named, Owns
<1>4. CASE Named("running") /\ Meeting(2, "ask", 3, "asleep", <<Main>>, <<>>, {"named"})
    BY <1>4, NamedMovesInTest DEF Meeting, Named, Owns
<1>5. CASE Named("running") /\ Meeting(3, "run", 3, "asleep", <<Main>>, <<>>, {"named"})
    BY <1>5, NamedMovesInTest DEF Meeting, Named, Owns
<1>6. CASE Named("running") /\ Meeting(4, "run", 3, "asleep", <<Main>>, <<>>, {"named"})
    BY <1>6, NamedMovesInTest DEF Meeting, Named, Owns
<1>7. CASE Named("running") /\ Meeting(5, "run", 3, "asleep", <<Main>>, <<>>, {"named"})
    BY <1>7, NamedMovesInTest DEF Meeting, Named, Owns
<1> QED BY <1>1, <1>2, <1>3, <1>4, <1>5, <1>6, <1>7 DEF NamedSleeps

LEMMA MainFromEnd ==
    ASSUME Typed, NamedEnds, MainThread, ~descriptor["named"].detached
    PROVE  NamedEnds' \/ NamedGone'
<1> USE MainAndNamed, NameTestBeginsBehind, ShortSequences, SleepsAlone
<1>1. CASE Named("running") /\ Meeting(6, "run", 3, "asleep", <<Main>>, <<>>, {})
  <2>1. ip' = [ip EXCEPT ![Main] = @ + 1]
      BY <1>1, MainMovesInTest DEF Meeting
  <2>2. ip'[Main] = NameTestBegin + 7 /\ ip'["named"] = 3
      BY <1>1, <2>1 DEF Meeting, Typed
  <2>3. Meeting(7, "run", 3, "asleep", <<>>, <<>>, {})'
      BY <1>1, <2>2, MainMovesInTest DEF Meeting, Owns, Typed, sync
  <2>4. Named("running")'
      BY <1>1, MainMovesInTest, Fields DEF Meeting, Named, Typed
  <2> QED BY <2>3, <2>4 DEF NamedEnds
<1>2. CASE Named("running") /\ Meeting(6, "run", 3, "ask", <<Main, "named">>, <<>>, {})
  <2>1. ip' = [ip EXCEPT ![Main] = @ + 1]
      BY <1>2, MainMovesInTest DEF Meeting
  <2>2. ip'[Main] = NameTestBegin + 7 /\ ip'["named"] = 3
      BY <1>2, <2>1 DEF Meeting, Typed
  <2>3. Meeting(7, "run", 3, "ask", <<"named">>, <<>>, {})'
      BY <1>2, <2>2, MainMovesInTest DEF Meeting, Owns, Typed, sync
  <2>4. Named("running")'
      BY <1>2, MainMovesInTest, Fields DEF Meeting, Named, Typed
  <2> QED BY <2>3, <2>4 DEF NamedEnds
<1>3. CASE Named("running") /\ Meeting(7, "run", 3, "asleep", <<>>, <<>>, {})
    BY <1>3, MainMovesInTest DEF Meeting, Named, Owns
<1>4. CASE Named("running") /\ Meeting(7, "run", 3, "ask", <<"named">>, <<>>, {})
    BY <1>4, MainMovesInTest DEF Meeting, Named, Owns
<1>5. CASE Named("running") /\ Meeting(7, "run", 4, "run", <<"named">>, <<>>, {})
    BY <1>5, MainMovesInTest DEF Meeting, Named, Owns
<1>6. CASE Named("running") /\ Meeting(7, "run", 5, "run", <<"named">>, <<>>, {})
    BY <1>6, MainMovesInTest DEF Meeting, Named, Owns
<1>7. CASE Named("running") /\ Meeting(7, "run", 6, "run", <<"named">>, <<>>, {})
    BY <1>7, MainMovesInTest DEF Meeting, Named, Owns
<1>8. CASE Named("running") /\ Meeting(7, "run", 7, "run", <<"named">>, <<>>, {})
    BY <1>8, MainMovesInTest DEF Meeting, Named, Owns
<1>9. CASE Named("running") /\ Meeting(7, "run", 8, "run", <<"named">>, <<>>, {})
    BY <1>9, MainMovesInTest DEF Meeting, Named, Owns
<1>10. CASE Named("running") /\ Meeting(7, "run", 9, "run", <<>>, <<>>, {})
    BY <1>10, MainMovesInTest DEF Meeting, Named, Owns
<1>11. CASE Named("ended") /\ Meeting(7, "run", 1, "run", <<>>, <<>>, {})
  <2>1. ip' = [ip EXCEPT ![Main] = @ + 1] /\ UNCHANGED <<sync, mode>>
        /\ descriptor' = [descriptor EXCEPT !["named"] = NoThread]
      BY <1>11, MainMovesInTest DEF Meeting
  <2>2. ip'[Main] >= NameTestBegin + 8 /\ Named("none")'
      BY <1>11, <2>1 DEF Meeting, Typed, Named, NoThread
  <2> QED BY <1>11, <2>1, <2>2 DEF NamedGone, Meeting, sync
<1> QED BY <1>1, <1>2, <1>3, <1>4, <1>5, <1>6, <1>7, <1>8, <1>9, <1>10, <1>11 DEF NamedEnds

LEMMA NamedFromEnd ==
    ASSUME Typed, NamedEnds, Step("named"), ~descriptor["named"].detached
    PROVE  NamedEnds'
<1> USE MainAndNamed, NameTestBeginsBehind, ShortSequences, SleepsAlone
<1>1. CASE Named("running") /\ Meeting(6, "run", 3, "asleep", <<Main>>, <<>>, {})
  <2>1. Meeting(6, "run", 3, "ask", <<Main, "named">>, <<>>, {})'
      BY <1>1, NamedMovesInTest DEF Meeting, Owns, Typed, sync
  <2>2. Named("running")'
      BY <1>1, NamedMovesInTest, Fields DEF Meeting, Named, Typed
  <2> QED BY <2>1, <2>2 DEF NamedEnds
<1>2. CASE Named("running") /\ Meeting(6, "run", 3, "ask", <<Main, "named">>, <<>>, {})
    BY <1>2, NamedMovesInTest DEF Meeting, Named, Owns
<1>3. CASE Named("running") /\ Meeting(7, "run", 3, "asleep", <<>>, <<>>, {})
  <2>1. Meeting(7, "run", 3, "ask", <<"named">>, <<>>, {})'
      BY <1>3, NamedMovesInTest DEF Meeting, Owns, Typed, sync
  <2>2. Named("running")'
      BY <1>3, NamedMovesInTest, Fields DEF Meeting, Named, Typed
  <2> QED BY <2>1, <2>2 DEF NamedEnds
<1>4. CASE Named("running") /\ Meeting(7, "run", 3, "ask", <<"named">>, <<>>, {})
  <2>1. ip' = [ip EXCEPT !["named"] = @ + 1]
      BY <1>4, NamedMovesInTest DEF Meeting
  <2>2. ip'[Main] = NameTestBegin + 7 /\ ip'["named"] = 4
      BY <1>4, <2>1 DEF Meeting, Typed
  <2>3. Meeting(7, "run", 4, "run", <<"named">>, <<>>, {})'
      BY <1>4, <2>2, NamedMovesInTest DEF Meeting, Owns, Typed, sync
  <2>4. Named("running")'
      BY <1>4, NamedMovesInTest, Fields DEF Meeting, Named, Typed
  <2>5. \E n \in 4..8 : Meeting(7, "run", n, "run", <<"named">>, <<>>, {})'
      BY <2>3
  <2> QED BY <2>3, <2>4, <2>5 DEF NamedEnds
<1>5. CASE Named("running") /\ Meeting(7, "run", 4, "run", <<"named">>, <<>>, {})
  <2>1. ip' = [ip EXCEPT !["named"] = @ + 1]
      BY <1>5, NamedMovesInTest DEF Meeting
  <2>2. ip'[Main] = NameTestBegin + 7 /\ ip'["named"] = 5
      BY <1>5, <2>1 DEF Meeting, Typed
  <2>3. Meeting(7, "run", 5, "run", <<"named">>, <<>>, {})'
      BY <1>5, <2>2, NamedMovesInTest DEF Meeting, Owns, Typed, sync
  <2>4. Named("running")'
      BY <1>5, NamedMovesInTest, Fields DEF Meeting, Named, Typed
  <2>5. \E n \in 4..8 : Meeting(7, "run", n, "run", <<"named">>, <<>>, {})'
      BY <2>3
  <2> QED BY <2>3, <2>4, <2>5 DEF NamedEnds
<1>6. CASE Named("running") /\ Meeting(7, "run", 5, "run", <<"named">>, <<>>, {})
  <2>1. ip' = [ip EXCEPT !["named"] = @ + 1]
      BY <1>6, NamedMovesInTest DEF Meeting
  <2>2. ip'[Main] = NameTestBegin + 7 /\ ip'["named"] = 6
      BY <1>6, <2>1 DEF Meeting, Typed
  <2>3. Meeting(7, "run", 6, "run", <<"named">>, <<>>, {})'
      BY <1>6, <2>2, NamedMovesInTest DEF Meeting, Owns, Typed, sync
  <2>4. Named("running")'
      BY <1>6, NamedMovesInTest, Fields DEF Meeting, Named, Typed
  <2>5. \E n \in 4..8 : Meeting(7, "run", n, "run", <<"named">>, <<>>, {})'
      BY <2>3
  <2> QED BY <2>3, <2>4, <2>5 DEF NamedEnds
<1>7. CASE Named("running") /\ Meeting(7, "run", 6, "run", <<"named">>, <<>>, {})
  <2>1. ip' = [ip EXCEPT !["named"] = @ + 1]
      BY <1>7, NamedMovesInTest DEF Meeting
  <2>2. ip'[Main] = NameTestBegin + 7 /\ ip'["named"] = 7
      BY <1>7, <2>1 DEF Meeting, Typed
  <2>3. Meeting(7, "run", 7, "run", <<"named">>, <<>>, {})'
      BY <1>7, <2>2, NamedMovesInTest DEF Meeting, Owns, Typed, sync
  <2>4. Named("running")'
      BY <1>7, NamedMovesInTest, Fields DEF Meeting, Named, Typed
  <2>5. \E n \in 4..8 : Meeting(7, "run", n, "run", <<"named">>, <<>>, {})'
      BY <2>3
  <2> QED BY <2>3, <2>4, <2>5 DEF NamedEnds
<1>8. CASE Named("running") /\ Meeting(7, "run", 7, "run", <<"named">>, <<>>, {})
  <2>1. ip' = [ip EXCEPT !["named"] = @ + 1]
      BY <1>8, NamedMovesInTest DEF Meeting
  <2>2. ip'[Main] = NameTestBegin + 7 /\ ip'["named"] = 8
      BY <1>8, <2>1 DEF Meeting, Typed
  <2>3. Meeting(7, "run", 8, "run", <<"named">>, <<>>, {})'
      BY <1>8, <2>2, NamedMovesInTest DEF Meeting, Owns, Typed, sync
  <2>4. Named("running")'
      BY <1>8, NamedMovesInTest, Fields DEF Meeting, Named, Typed
  <2>5. \E n \in 4..8 : Meeting(7, "run", n, "run", <<"named">>, <<>>, {})'
      BY <2>3
  <2> QED BY <2>3, <2>4, <2>5 DEF NamedEnds
<1>9. CASE Named("running") /\ Meeting(7, "run", 8, "run", <<"named">>, <<>>, {})
  <2>1. ip' = [ip EXCEPT !["named"] = @ + 1]
      BY <1>9, NamedMovesInTest DEF Meeting
  <2>2. ip'[Main] = NameTestBegin + 7 /\ ip'["named"] = 9
      BY <1>9, <2>1 DEF Meeting, Typed
  <2>3. Meeting(7, "run", 9, "run", <<>>, <<>>, {})'
      BY <1>9, <2>2, NamedMovesInTest DEF Meeting, Owns, Typed, sync
  <2>4. Named("running")'
      BY <1>9, NamedMovesInTest, Fields DEF Meeting, Named, Typed
  <2> QED BY <2>3, <2>4 DEF NamedEnds
<1>10. CASE Named("running") /\ Meeting(7, "run", 9, "run", <<>>, <<>>, {})
  <2>1. ip' = [ip EXCEPT !["named"] = 1]
      BY <1>10, NamedMovesInTest DEF Meeting
  <2>2. ip'[Main] = NameTestBegin + 7 /\ ip'["named"] = 1
      BY <1>10, <2>1 DEF Meeting, Typed
  <2>3. Meeting(7, "run", 1, "run", <<>>, <<>>, {})'
      BY <1>10, <2>2, NamedMovesInTest DEF Meeting, Owns, Typed, sync
  <2>4. Named("ended")'
      BY <1>10, NamedMovesInTest, Fields DEF Meeting, Named, Typed
  <2> QED BY <2>3, <2>4 DEF NamedEnds
<1>11. CASE Named("ended") /\ Meeting(7, "run", 1, "run", <<>>, <<>>, {})
    BY <1>11, NamedMovesInTest DEF Meeting, Named, Owns
<1> QED BY <1>1, <1>2, <1>3, <1>4, <1>5, <1>6, <1>7, <1>8, <1>9, <1>10, <1>11 DEF NamedEnds

\* Behind the test main does not touch what they shared.
LEMMA MainFromGone ==
    ASSUME Typed, NamedGone, MainThread
    PROVE  NamedGone'
<1> USE MainAndNamed, NameTestBeginsBehind
<1>1. /\ ip[Main] \in Int /\ ip[Main] >= NameTestBegin + 8 /\ mode[Main] = "run"
      /\ descriptor["named"].status = "none"
    BY DEF NamedGone, Named, Typed
<1>2. \A op : Runs(Main, op) => /\ op \notin SyncOps /\ (op = "create" => On(Main) # "named")
                                /\ op # "again"
    BY <1>1, MainBehindTest, MainGoes
<1>3. ASSUME UNCHANGED <<sync, mode>>, ip' = [ip EXCEPT ![Main] = @ + 1],
             descriptor'["named"].status = "none"
      PROVE  NamedGone'
  <2>1. ip'[Main] >= NameTestBegin + 8
      BY <1>1, <1>3 DEF Typed
  <2> QED BY <1>3, <2>1 DEF NamedGone, Named, sync
<1>4. CASE Step(Main)
  <2>1. descriptor'["named"].status = "none"
      BY <1>1, <1>4, StepKeepsOthers
  <2>2. ~Locked(Main) /\ ~Wake(Main)
      BY <1>1 DEF Locked, Wake, Enter
  <2>3. ~Ask(Main) /\ ~Unlock(Main) /\ ~Wait(Main) /\ ~Signal(Main) /\ ~Again(Main)
      BY <1>2 DEF Ask, Unlock, Wait, Signal, Again, SyncOps
  <2>4. ~Exiting(Main) /\ ~ReturnFrom(Main) /\ ~Canceled(Main)
      BY MainGoes DEF Exiting, ReturnFrom, Returning, Canceled
  <2>5. UNCHANGED <<sync, mode>> /\ ip' = [ip EXCEPT ![Main] = @ + 1]
      BY <1>4, <2>2, <2>3, <2>4
         DEF Step, SetFlag, ClearFlag, AwaitFlag, Zassert, PushHandler, PopHandler,
             TestedCancel, Slept, SetCancelState, CancelThread, DetachSelf, NameThread, Advance
  <2> QED BY <1>3, <2>1, <2>5
<1>5. CASE CreateThread
  <2>1. On(Main) # "named"
      BY <1>2, <1>5 DEF CreateThread
  <2> QED BY <1>1, <1>3, <1>5, <2>1 DEF CreateThread, Advance, Typed
<1>6. CASE JoinThread
  <2>1. On(Main) # "named"
      BY <1>1, <1>6 DEF JoinThread
  <2> QED BY <1>1, <1>3, <1>6, <2>1 DEF JoinThread, Advance, Typed
<1> QED BY <1>4, <1>5, <1>6 DEF MainThread

\* The thread does nothing where it does not exist.
LEMMA NamedStepsNot ==
    ASSUME Typed, mode["named"] = "run", descriptor["named"].status # "running"
    PROVE  ~Step("named")
BY MainAndNamed, StepOfRunning DEF Runs

LEMMA PhasesNext ==
    ASSUME Typed, Phases, ~descriptor["named"].detached,
           \A t \in Threads \ {Main, "named"} : mode[t] = "run", Next
    PROVE  Phases'
<1> USE MainAndNamed
<1>1. CASE MainThread
    BY <1>1, MainFromAlone, MainFromSleep, MainFromNamedSleeps, MainFromEnd, MainFromGone
       DEF Phases
<1>2. CASE Step("named")
  <2>1. ~MainAlone /\ ~NamedGone
      BY <1>2, NamedStepsNot DEF MainAlone, NamedGone, Named, Meeting
  <2> QED BY <1>2, <2>1, NamedFromSleep, NamedFromNamedSleeps, NamedFromEnd DEF Phases
<1>3. ASSUME NEW t \in Threads \ {Main, "named"}, Step(t)
      PROVE  Phases'
  <2>1. UNCHANGED <<sync, mode>>
      BY <1>3, OtherStep
  <2>2. /\ ip'[Main] = ip[Main] /\ ip'["named"] = ip["named"]
        /\ descriptor'["named"].status = descriptor["named"].status
      BY <1>3, StepKeepsOthers
  <2>3. \A k, m, n, mn, l, c0, c1 :
            Meeting(k, m, n, mn, l, c0, c1) => Meeting(k, m, n, mn, l, c0, c1)'
      BY <2>1, <2>2 DEF Meeting, sync
  <2>4. \A s : Named(s) => Named(s)'
      BY <2>2 DEF Named
  <2>5. (MainAlone => MainAlone') /\ (MainSleeps => MainSleeps')
      BY <2>3, <2>4 DEF MainAlone, MainSleeps
  <2>6. (NamedSleeps => NamedSleeps') /\ (NamedEnds => NamedEnds')
      BY <2>3, <2>4 DEF NamedSleeps, NamedEnds
  <2>7. NamedGone => NamedGone'
      BY <2>1, <2>2, <2>4 DEF NamedGone, sync
  <2> QED BY <2>5, <2>6, <2>7 DEF Phases
<1> QED BY <1>1, <1>2, <1>3 DEF Next, MainThread, Threads

\* The descriptors.
LEMMA DescriptorsNext ==
    ASSUME Typed, Next, descriptor[Main].status = "running"
    PROVE  /\ \A u \in Threads : DOMAIN descriptor'[u] = DOMAIN NoThread
           /\ descriptor'[Main].status = "running"
           /\ ~Step("named") /\ ~descriptor["named"].detached => ~descriptor'["named"].detached
<1> USE MainAndNamed
<1>1. CASE MainThread
    BY <1>1, MainStays
<1>2. ASSUME NEW t \in Threads \ {Main}, Step(t)
      PROVE  /\ \A u \in Threads : DOMAIN descriptor'[u] = DOMAIN NoThread
             /\ descriptor'[Main].status = "running"
             /\ t # "named" => descriptor'["named"].detached = descriptor["named"].detached
    BY <1>2, StepKeepsOthers
<1> QED BY <1>1, <1>2 DEF Next, MainThread, Threads, Workers, Main

LEMMA NamedStaysJoinable ==
    ASSUME Typed, Phases, ~descriptor["named"].detached, Step("named")
    PROVE  ~descriptor'["named"].detached
<1>1. mode["named"] = "run" => descriptor["named"].status = "running"
    BY NamedStepsNot
<1>2. PICK n \in 1..9 : ip["named"] = n
    BY <1>1 DEF Phases, MainAlone, MainSleeps, NamedSleeps, NamedEnds, NamedGone, Meeting, Named
<1>3. mode["named"] \in {"run", "ask", "asleep"}
    BY DEF Phases, MainAlone, MainSleeps, NamedSleeps, NamedEnds, NamedGone, Meeting
<1>4. descriptor' = descriptor \/ ~descriptor'["named"].detached
    BY <1>2, <1>3, NamedMovesInTest
<1> QED BY <1>4

\* test_pthread_execution leaves nobody asleep, and nobody that has the mutex.
LEMMA PartedNext ==
    ASSUME ExecutionIInv, \A t \in cvar1 : pc[t] = "parted", Execution!Next
    PROVE  (\A t \in cvar1 : pc[t] = "parted")'
<1>1. /\ cvar1 \in SUBSET Bouncers /\ DOMAIN pc = Everyone /\ Execution!Main \notin Bouncers
      /\ \A t \in Bouncers : t \in Everyone
    BY Identities DEF ExecutionIInv, Handover, Places, Everyone, Bouncers
<1>2. ASSUME NEW t \in Bouncers, Execution!Bounce(t)
      PROVE  (\A u \in cvar1 : pc[u] = "parted")'
    BY <1>1, <1>2
       DEF Execution!Bounce, Execution!AskFirst, Execution!TryLock, Execution!AskToBounce,
           Execution!Sleep, Execution!Delay, Execution!EndDelay, Execution!Wake,
           Execution!Claim,
           Execution!Signal, Execution!NextBounce, Execution!Go, Execution!handover
<1>3. ASSUME NEW t \in Bouncers, Execution!LineUp(t)
      PROVE  (\A u \in cvar1 : pc[u] = "parted")'
    BY <1>1, <1>3
       DEF Execution!LineUp, Execution!AskAgain, Execution!SetDone, Execution!Post,
           Execution!SleepForMain, Execution!WakeByMain, Execution!Leave, Execution!Arrive,
           Execution!Pass, Execution!SetBarrierDone, Execution!LastPost, Execution!Go,
           Execution!handover
<1>4. CASE Execution!MainThread
    BY <1>1, <1>4
       DEF Execution!MainThread, Execution!TestBounce, Execution!TestBarrier, Execution!SemWait,
           Execution!AskToWake, Execution!Broadcast, Execution!Release, Execution!Join,
           Execution!Go, Execution!handover
<1>5. CASE Execution!Finished
    BY <1>5 DEF Execution!Finished, Execution!vars, Execution!locals, Execution!handover
<1> QED BY <1>2, <1>3, <1>4, <1>5 DEF Execution!Next, Bouncers

LEMMA NothingLeft ==
    ASSUME ExecutionIInv, \A t \in cvar1 : pc[t] = "parted", Execution!Done
    PROVE  lock = <<>> /\ cvar0 = <<>> /\ cvar1 = {}
<1>1. \A t \in Everyone : pc[t] = "ended"
    BY DEF ExecutionIInv, Barrier, Execution!Done, Everyone
<1>2. \A k \in 1..Len(lock) : FALSE
    BY <1>1 DEF ExecutionIInv, Queue, Queued
<1>3. \A k \in 1..Len(cvar0) : FALSE
    BY <1>1 DEF ExecutionIInv, Sleepers, Everyone
<1>4. lock \in Seq(Everyone) /\ cvar0 \in Seq(Bouncers) /\ cvar1 \in SUBSET Bouncers
    BY DEF ExecutionIInv, Queue, Sleepers, Handover
<1>5. Len(lock) = 0 /\ Len(cvar0) = 0
    BY <1>2, <1>3, <1>4
<1> QED BY <1>1, <1>4, <1>5 DEF Everyone


-----------------------------------------------------------------------------
\* The invariant is preserved, before, in and behind test_pthread_execution.
LEMMA NameIInvEarly ==
    ASSUME SuiteIInv, NameIInv, SuiteIInv', ip[Main] <= ExecutionAt, TestStep
    PROVE  NameIInv'
<1> USE MainAndNamed
<1>0. Typed /\ ip[Main] \in Int /\ ExecutionAt \in Int
    BY ExecutionAtIsNat DEF SuiteIInv, NameIInv, Typed
<1>1. NotNamed /\ Next /\ UNCHANGED executionVars
    BY DEF SuiteIInv, TestStep
<1>2. /\ ip'[Main] <= ExecutionAt /\ ip'[Main] \in {ip[Main], ip[Main] + 1}
  <2>1. /\ ip'[Main] \in {ip[Main], ip[Main] + 1}
        /\ ip[Main] = ExecutionAt => ip'[Main] = ip[Main]
      BY <1>1, MainGoesOn DEF SuiteIInv
  <2> QED BY <1>0, <2>1
<1>3. NotNamed'
    BY <1>2 DEF SuiteIInv
<1>4. UNCHANGED sync
  <2>1. ASSUME NEW t \in Threads, Step(t) PROVE UNCHANGED sync
      BY <2>1, <1>1, StepBeforeExecution DEF SuiteIInv
  <2> QED BY <2>1, <1>1, CreateBeforeExecution, JoinBeforeExecution
          DEF SuiteIInv, Next, MainThread, Threads
<1>5. ~Step("named")
    BY <1>0, <1>1, NamedStepsNot, NamedDoesNotRun DEF NotNamed
<1>6. ip'["named"] = ip["named"]
  <2>1. CASE MainThread
      BY <1>0, <2>1, MainStays DEF NameIInv
  <2>2. ASSUME NEW t \in Workers, Step(t) PROVE ip'["named"] = ip["named"]
      BY <1>0, <1>5, <2>2, StepKeepsOthers DEF Threads
  <2> QED BY <1>1, <2>1, <2>2 DEF Next
<1>7. /\ \A t \in Threads : DOMAIN descriptor'[t] = DOMAIN NoThread
      /\ descriptor'[Main].status = "running" /\ ~descriptor'["named"].detached
    BY <1>0, <1>1, <1>5, DescriptorsNext DEF NameIInv
<1>8. \A t \in Threads \ {Main, "named"} : mode'[t] = "run"
    BY <1>3 DEF NotNamed
<1>9. /\ cvar1' = cvar1 /\ pc' = pc
    BY <1>1, <1>4 DEF sync, executionVars
<1>10. ip'[Main] = ExecutionAt => \A t \in cvar1' : pc'[t] = "parted"
  <2>1. CASE ip[Main] = ExecutionAt
      BY <1>9, <2>1 DEF NameIInv
  <2>2. CASE ip[Main] < ExecutionAt
      BY <1>9, <2>2 DEF SuiteIInv, Execution!Init
  <2> QED BY <1>0, <2>1, <2>2
<1>11. ~(ip'[Main] > ExecutionAt)
    BY <1>0, <1>2
<1> QED BY <1>6, <1>7, <1>8, <1>10, <1>11 DEF NameIInv

LEMMA NameIInvLate ==
    ASSUME SuiteIInv, NameIInv, ip[Main] > ExecutionAt, TestStep
    PROVE  NameIInv'
<1> USE MainAndNamed
<1>0. Typed /\ ip[Main] \in Int /\ ExecutionAt \in Int /\ Next
    BY ExecutionAtIsNat DEF SuiteIInv, NameIInv, Typed, TestStep
<1>1. Phases /\ ~descriptor["named"].detached
      /\ \A t \in Threads \ {Main, "named"} : mode[t] = "run"
    BY DEF NameIInv
<1>2. Phases'
    BY <1>0, <1>1, PhasesNext
<1>3. /\ \A t \in Threads : DOMAIN descriptor'[t] = DOMAIN NoThread
      /\ descriptor'[Main].status = "running" /\ ~descriptor'["named"].detached
    BY <1>0, <1>1, DescriptorsNext, NamedStaysJoinable DEF NameIInv
<1>4. ASSUME NEW t \in Threads \ {Main, "named"} PROVE mode'[t] = "run"
  <2>1. CASE MainThread
      BY <1>0, <1>1, <2>1, MainStays DEF NameIInv
  <2>2. ASSUME NEW u \in Threads, u # Main, Step(u) PROVE mode'[t] = "run"
    <3>1. CASE u = t
        BY <1>1, <1>0, <2>2, <3>1, OtherStep
    <3>2. CASE u # t
        BY <1>1, <1>0, <2>2, <3>2, StepKeepsOthers
    <3> QED BY <3>1, <3>2
  <2> QED BY <1>0, <2>1, <2>2 DEF Next, MainThread, Threads, Workers, Main
<1>5. ip'[Main] > ExecutionAt
  <2>1. ip'[Main] \in {ip[Main], ip[Main] + 1}
      BY <1>0, MainGoesOn DEF SuiteIInv
  <2> QED BY <1>0, <2>1
<1>6. ~(ip'[Main] <= ExecutionAt) /\ ip'[Main] # ExecutionAt
  <2>1. ip'[Main] \in Int
      BY <1>0, MainGoesOn DEF SuiteIInv
  <2> QED BY <1>0, <1>5, <2>1
<1> QED BY <1>2, <1>3, <1>4, <1>6 DEF NameIInv

LEMMA NameIInvNext ==
    ASSUME SuiteIInv, NameIInv, SuiteIInv', [SuiteNext]_suiteVars
    PROVE  NameIInv'
<1> USE MainAndNamed
<1>0. ip[Main] \in Int /\ ExecutionAt \in Nat /\ NameTestBegin = ExecutionAt + 1
    BY NameTestBeginsBehind, ExecutionAtIsNat DEF SuiteIInv
<1>1. CASE ExecutionStep
  <2>1. ip[Main] = ExecutionAt /\ UNCHANGED testVars /\ Execution!Next
      BY <1>1, ExecutingIsAt DEF ExecutionStep
  <2>2. (\A t \in cvar1 : pc[t] = "parted")'
      BY <2>1, PartedNext DEF SuiteIInv, NameIInv
  <2>3. UNCHANGED <<ip, mode, descriptor>>
      BY <2>1 DEF testVars, threads
  <2>4. ~(ip'[Main] > ExecutionAt)
      BY <1>0, <2>1, <2>3
  <2> QED BY <2>2, <2>3, <2>4 DEF NameIInv
<1>2. CASE ExecutionEnds
  <2>1. /\ ip[Main] = ExecutionAt /\ Execution!Done /\ UNCHANGED <<sync, mode, descriptor>>
        /\ ip' = [ip EXCEPT ![Main] = @ + 1]
      BY <1>2, ExecutingIsAt DEF ExecutionEnds, Advance, threads
  <2>2. lock = <<>> /\ cvar0 = <<>> /\ cvar1 = {}
      BY <2>1, NothingLeft DEF SuiteIInv, NameIInv
  <2>3. NotNamed /\ ip["named"] = 1 /\ Named("none")
      BY <1>0, <2>1, NamedDoesNotRun DEF SuiteIInv, NameIInv, Named
  <2>4. ip'[Main] = NameTestBegin + 0 /\ ip'["named"] = 1
      BY <1>0, <2>1, <2>3 DEF SuiteIInv
  <2>5. Meeting(0, "run", 1, "run", <<>>, <<>>, {})' /\ Named("none")'
      BY <2>1, <2>2, <2>3, <2>4 DEF Meeting, NotNamed, Named, sync
  <2>6. Phases'
      BY <2>5 DEF Phases, MainAlone
  <2>7. ~(ip'[Main] <= ExecutionAt) /\ ip'[Main] # ExecutionAt
      BY <1>0, <2>4
  <2> QED BY <2>1, <2>6, <2>7 DEF NameIInv
<1>3. CASE JoinsEnd
  <2>1. /\ Runs(Main, "joins") /\ UNCHANGED <<sync, mode, descriptor>>
        /\ ip' = [ip EXCEPT ![Main] = @ + 1] /\ ip[Main] > ExecutionAt /\ mode[Main] = "run"
      BY <1>3, ExecutingIsAt DEF JoinsEnd, Joining, Advance, threads, Runs
  <2>2. \A k \in 0..8 : ip[Main] # NameTestBegin + k
      BY <2>1, MainInTest DEF MainCall
  <2>3. NamedGone
      BY <1>0, <2>1, <2>2
         DEF NameIInv, Phases, MainAlone, MainSleeps, NamedSleeps, NamedEnds, Meeting
  <2>4. ip'[Main] = ip[Main] + 1
      BY <2>1 DEF SuiteIInv
  <2>5. NamedGone'
      BY <1>0, <2>1, <2>3, <2>4 DEF NamedGone, Named, sync
  <2>6. ~(ip'[Main] <= ExecutionAt) /\ ip'[Main] # ExecutionAt
      BY <1>0, <2>1, <2>4
  <2> QED BY <2>1, <2>5, <2>6 DEF NameIInv, Phases
<1>4. CASE UNCHANGED <<vars, executionVars>>
  <2>1. UNCHANGED <<ip, mode, descriptor, lock, cvar0, cvar1, pc>>
      BY <1>4 DEF vars, sync, threads, executionVars
  <2>2. Phases => Phases'
      BY <2>1
         DEF Phases, MainAlone, MainSleeps, NamedSleeps, NamedEnds, NamedGone, Named, Meeting
  <2> QED BY <2>1, <2>2 DEF NameIInv
<1>5. CASE JoinStep \/ Finished \/ UNCHANGED suiteVars
    BY <1>4, <1>5 DEF JoinStep, Finished, suiteVars
<1>6. CASE TestStep
    BY <1>0, <1>6, NameIInvEarly, NameIInvLate
<1> QED BY <1>1, <1>2, <1>3, <1>5, <1>6 DEF SuiteNext

LEMMA InitNameIInv == SuiteInit => NameIInv
<1> SUFFICES ASSUME SuiteInit PROVE NameIInv
    OBVIOUS
<1> USE MainAndNamed
<1>1. /\ \A t \in Threads : DOMAIN descriptor[t] = DOMAIN NoThread /\ mode[t] = "run"
      /\ descriptor[Main].status = "running" /\ ~descriptor["named"].detached
      /\ ip[Main] = 1 /\ ip["named"] = 1 /\ cvar1 = {}
    BY DEF SuiteInit, Init, NoThread
<1>2. ~(ip[Main] > ExecutionAt)
    BY <1>1, NameTestBeginsBehind, MainBegins DEF Begins
<1> QED BY <1>1, <1>2 DEF NameIInv

\* The suite from the first test to the last: what is shared is passed on
\* unused, by test_pthread_execution as well as by the test of the names.
THEOREM AlwaysNameIInv == Spec => [](SuiteIInv /\ NameIInv)
<1>1. SuiteInit => SuiteIInv /\ NameIInv
    BY InitSuiteIInv, InitNameIInv
<1>2. SuiteIInv /\ NameIInv /\ [SuiteNext]_suiteVars => (SuiteIInv /\ NameIInv)'
    BY SuiteNextKeeps, NameIInvNext
<1> QED BY <1>1, <1>2, PTL DEF Spec

\* Outside of the two tests that use the mutex and the condition variables the
\* mutex is free and nobody sleeps.
THEOREM AlwaysSyncFree == Spec => []SyncFreeBetweenTests
<1>1. SuiteIInv /\ NameIInv => SyncFreeBetweenTests
  <2> SUFFICES ASSUME SuiteIInv, NameIInv, ~Executing, ~InNameTest
               PROVE  lock = <<>> /\ cvar0 = <<>> /\ cvar1 = {}
      BY DEF SyncFreeBetweenTests
  <2>0. ip[Main] \in Int /\ ExecutionAt \in Nat /\ NameTestBegin = ExecutionAt + 1
      BY MainAndNamed, NameTestBeginsBehind, ExecutionAtIsNat DEF SuiteIInv
  <2>1. CASE ip[Main] < ExecutionAt
      BY <2>1 DEF SuiteIInv, Execution!Init
  <2>2. CASE ip[Main] = ExecutionAt
    <3>1. mode[Main] = "run" /\ descriptor[Main].status = "running"
        BY <2>0, <2>2, MainAndNamed DEF SuiteIInv, NameIInv, NotNamed
    <3>2. Programs[Main] = MainProgram
        BY DEF Programs, Threads, Terminating, Main
    <3>3. ip[Main] \in DOMAIN MainProgram /\ MainProgram[ip[Main]].op = "execution"
        BY <2>2, MainBegins DEF Begins, Sequence
    <3>4. Executing
        BY <3>1, <3>2, <3>3 DEF Executing, Runs, Instruction
    <3> QED BY <3>4
  <2>3. CASE ip[Main] > ExecutionAt
    <3>1. Phases
        BY <2>3 DEF NameIInv
    <3>2. CASE NamedGone
        BY <3>2 DEF NamedGone
    <3>3. CASE Meeting(0, "run", 1, "run", <<>>, <<>>, {})
        BY <3>3 DEF Meeting
    <3>4. CASE ~NamedGone /\ ~Meeting(0, "run", 1, "run", <<>>, <<>>, {})
      <4>1. PICK k \in 0..7 : ip[Main] = NameTestBegin + k /\ (k = 0 => mode[Main] = "ask")
          BY <3>1, <3>4 DEF Phases, MainAlone, MainSleeps, NamedSleeps, NamedEnds, Meeting
      <4>2. Len(NameTest) - 2 = 7
          BY NameTestCalls
      <4>3. InNameTest
        <5> DEFINE n == ip[Main] - NameTestBegin
        <5>1. n = k
            BY <2>0, <4>1
        <5>2. n \in 0..Len(NameTest) - 2 /\ (n = 0 => mode[Main] # "run")
            BY <4>1, <4>2, <5>1
        <5> QED BY <5>2 DEF InNameTest
      <4> QED BY <4>3
    <3> QED BY <3>2, <3>3, <3>4
  <2> QED BY <2>0, <2>1, <2>2, <2>3
<1> QED BY <1>1, AlwaysNameIInv, PTL

-----------------------------------------------------------------------------
(* MainProgram, place by place                                              *)

Holds(s, n) == Sequence(s) /\ Len(s) = n
From(s, m, b, n) == \A k \in 1..n : s[m + k] = b[k]

LEMMA Appended ==
    ASSUME NEW m \in Nat, NEW n \in Nat, NEW a, NEW b, Holds(a, m), Holds(b, n)
    PROVE  Holds(a \o b, m + n) /\ From(a \o b, 0, a, m) /\ From(a \o b, m, b, n)
<1>1. /\ Sequence(a \o b)
      /\ m \in Nat /\ n \in Nat /\ Len(a \o b) = m + n
      /\ \A k \in 1..m + n :
            \/ k \in 1..m /\ (a \o b)[k] = a[k]
            \/ k - m \in 1..n /\ (a \o b)[k] = b[k - m]
    BY Concatenation DEF Holds
<1>2. ASSUME NEW k \in 1..m PROVE (a \o b)[k] = a[k]
  <2>1. k \in 1..m + n /\ ~(k - m \in 1..n)
      BY <1>1
  <2> QED BY <1>1, <2>1
<1>3. ASSUME NEW k \in 1..n PROVE (a \o b)[m + k] = b[k]
  <2>1. m + k \in 1..m + n /\ ~(m + k \in 1..m) /\ (m + k) - m = k
      BY <1>1
  <2> QED BY <1>1, <2>1
<1> QED BY <1>1, <1>2, <1>3 DEF Holds, From

\* The tests behind that of the names, taken together.
CancelTests ==
    <<Create("self"), Join("self", "CANCELED"), Check("ignored"), CheckNot("failed"),
      Clear("ENABLED"), Clear("SET"), Create("ext1"), Await("ENABLED"),
      Cancel("ext1", "ok"), Set("SET"), Join("ext1", "CANCELED"),
      Check("ignored"), CheckNot("failed"),
      Create("ext2"), Cancel("ext2", "ok"), Join("ext2", "CANCELED"), CheckNot("failed")>>

LEMMA CancelTestsAre ==
    Holds(TestcancelTests, 17) /\ \A k \in 1..17 : TestcancelTests[k] = CancelTests[k]
<1> DEFINE self == <<Create("self"), Join("self", "CANCELED"), Check("ignored"),
                     CheckNot("failed")>>
           ext2 == <<Create("ext2"), Cancel("ext2", "ok"), Join("ext2", "CANCELED"),
                     CheckNot("failed")>>
           both == self \o CancelExt1Test
<1>1. Holds(self, 4)
  <2>1. self \in Seq({self[k] : k \in DOMAIN self}) /\ Len(self) = 4
      OBVIOUS
  <2> QED BY <2>1 DEF Holds, Sequence
<1>2. Holds(CancelExt1Test, 9)
  <2>1. CancelExt1Test \in Seq({CancelExt1Test[k] : k \in DOMAIN CancelExt1Test})
        /\ Len(CancelExt1Test) = 9
      BY DEF CancelExt1Test
  <2> QED BY <2>1 DEF Holds, Sequence
<1>3. Holds(ext2, 4)
  <2>1. ext2 \in Seq({ext2[k] : k \in DOMAIN ext2}) /\ Len(ext2) = 4
      OBVIOUS
  <2> QED BY <2>1 DEF Holds, Sequence
<1>4. /\ \A k \in 1..4 : self[k] = CancelTests[k]
      /\ \A k \in 1..9 : CancelExt1Test[k] = CancelTests[4 + k]
      /\ \A k \in 1..4 : ext2[k] = CancelTests[13 + k]
    BY DEF CancelTests, CancelExt1Test
<1>5. TestcancelTests = both \o ext2
    BY DEF TestcancelTests
<1> HIDE DEF self, ext2
<1>6. Holds(both, 13) /\ From(both, 0, self, 4) /\ From(both, 4, CancelExt1Test, 9)
  <2>1. Holds(both, 4 + 9) /\ From(both, 0, self, 4) /\ From(both, 4, CancelExt1Test, 9)
      BY <1>1, <1>2, Appended
  <2> QED BY <2>1
<1> HIDE DEF both
<1>7. /\ Holds(TestcancelTests, 17)
      /\ From(TestcancelTests, 0, both, 13) /\ From(TestcancelTests, 13, ext2, 4)
  <2>1. /\ Holds(both \o ext2, 13 + 4)
        /\ From(both \o ext2, 0, both, 13) /\ From(both \o ext2, 13, ext2, 4)
      BY <1>3, <1>6, Appended
  <2> QED BY <1>5, <2>1
<1>8. \A k \in 1..13 : TestcancelTests[k] = both[k]
    BY <1>7 DEF From
<1>9. ASSUME NEW k \in 1..17 PROVE TestcancelTests[k] = CancelTests[k]
  <2>1. CASE k \in 1..4
      BY <1>4, <1>6, <1>8, <2>1 DEF From
  <2>2. CASE k \in 5..13
    <3>1. k - 4 \in 1..9 /\ 4 + (k - 4) = k /\ k \in 1..13
        BY <2>2
    <3> QED BY <1>4, <1>6, <1>8, <3>1 DEF From
  <2>3. CASE k \in 14..17
    <3>1. k - 13 \in 1..4 /\ 13 + (k - 13) = k
        BY <2>3
    <3> QED BY <1>4, <1>7, <3>1 DEF From
  <2> QED BY <2>1, <2>2, <2>3
<1> QED BY <1>7, <1>9

LEMMA MainProgramPlaces ==
    /\ ExecutionAt = 4 * MaxThreads + 18 /\ Len(MainProgram) = ExecutionAt + 34
    /\ \A k \in 1..17 : MainProgram[k] = CleanupTests[k]
    /\ \A k \in 1..4 * MaxThreads :
          MainProgram[17 + k] = IF k % 2 = 1 THEN Create("leak") ELSE Join("leak", "NULL")
    /\ MainProgram[ExecutionAt] = Call("execution")
    /\ \A k \in 1..9 : MainProgram[ExecutionAt + k] = NameTest[k]
    /\ \A k \in 1..7 : MainProgram[ExecutionAt + 9 + k] = TerminationTest[k]
    /\ \A k \in 1..17 : MainProgram[ExecutionAt + 16 + k] = CancelTests[k]
    /\ MainProgram[ExecutionAt + 34] = Call("joins")
<1> DEFINE F == 4 * MaxThreads
           p1 == CleanupTests \o DescriptorLeakTest
           p2 == p1 \o <<Call("execution")>>
           p3 == p2 \o NameTest
           p4 == p3 \o TerminationTest
           p5 == p4 \o TestcancelTests
<1>1. Holds(CleanupTests, 17)
  <2>1. Len(CleanupTests) = 17
      BY DEF CleanupTests
  <2> QED BY <2>1, CleanupTestsAreEarly DEF Holds
<1>2. /\ F \in Nat /\ Holds(DescriptorLeakTest, F)
      /\ \A k \in 1..F :
            DescriptorLeakTest[k] = IF k % 2 = 1 THEN Create("leak") ELSE Join("leak", "NULL")
  <2>1. 4 * MaxThreads \in Nat
      OBVIOUS
  <2>2. Len(DescriptorLeakTest) = 4 * MaxThreads
      BY <2>1 DEF DescriptorLeakTest
  <2> QED BY <2>1, <2>2, LeakTestIsEarly DEF DescriptorLeakTest, Holds
<1>3. ExecutionAt = F + 18
    BY <1>1, <1>2 DEF ExecutionAt, Holds
<1>4. ASSUME NEW op \in {"execution", "joins"}
      PROVE  Holds(<<Call(op)>>, 1) /\ <<Call(op)>>[1] = Call(op)
  <2>1. <<Call(op)>> \in Seq({Call(op)})
      OBVIOUS
  <2> QED BY <2>1 DEF Holds, Sequence
<1>5. Holds(NameTest, 9)
    BY NameTestCalls DEF Holds
<1>6. Holds(TerminationTest, 7)
  <2>1. TerminationTest \in Seq({TerminationTest[k] : k \in DOMAIN TerminationTest})
        /\ Len(TerminationTest) = 7
      BY DEF TerminationTest
  <2> QED BY <2>1 DEF Holds, Sequence
<1>7. MainProgram = p5 \o <<Call("joins")>>
    BY DEF MainProgram
<1> HIDE DEF F
<1>8. Holds(p1, F + 17) /\ From(p1, 0, CleanupTests, 17) /\ From(p1, 17, DescriptorLeakTest, F)
  <2>1. 17 + F = F + 17
      BY <1>2
  <2>2. Holds(p1, 17 + F) /\ From(p1, 0, CleanupTests, 17) /\ From(p1, 17, DescriptorLeakTest, F)
      BY <1>1, <1>2, Appended
  <2> QED BY <2>1, <2>2
<1> HIDE DEF p1
<1>9. Holds(p2, F + 18) /\ From(p2, 0, p1, F + 17) /\ p2[F + 18] = Call("execution")
  <2>1. F + 17 \in Nat /\ F + 17 + 1 = F + 18
      BY <1>2
  <2>2. /\ Holds(p2, F + 17 + 1)
        /\ From(p2, 0, p1, F + 17) /\ From(p2, F + 17, <<Call("execution")>>, 1)
      BY <1>4, <1>8, <2>1, Appended
  <2> HIDE DEF p2
  <2>3. p2[F + 17 + 1] = <<Call("execution")>>[1]
      BY <2>2 DEF From
  <2> QED BY <1>4, <2>1, <2>2, <2>3
<1> HIDE DEF p2
<1>10. Holds(p3, F + 27) /\ From(p3, 0, p2, F + 18) /\ From(p3, F + 18, NameTest, 9)
  <2>1. F + 18 \in Nat /\ F + 18 + 9 = F + 27
      BY <1>2
  <2>2. Holds(p3, F + 18 + 9) /\ From(p3, 0, p2, F + 18) /\ From(p3, F + 18, NameTest, 9)
      BY <1>5, <1>9, <2>1, Appended
  <2> QED BY <2>1, <2>2
<1> HIDE DEF p3
<1>11. Holds(p4, F + 34) /\ From(p4, 0, p3, F + 27) /\ From(p4, F + 27, TerminationTest, 7)
  <2>1. F + 27 \in Nat /\ F + 27 + 7 = F + 34
      BY <1>2
  <2>2. Holds(p4, F + 27 + 7) /\ From(p4, 0, p3, F + 27) /\ From(p4, F + 27, TerminationTest, 7)
      BY <1>6, <1>10, <2>1, Appended
  <2> QED BY <2>1, <2>2
<1> HIDE DEF p4
<1>12. Holds(p5, F + 51) /\ From(p5, 0, p4, F + 34) /\ From(p5, F + 34, TestcancelTests, 17)
  <2>1. F + 34 \in Nat /\ F + 34 + 17 = F + 51
      BY <1>2
  <2>2. /\ Holds(p5, F + 34 + 17)
        /\ From(p5, 0, p4, F + 34) /\ From(p5, F + 34, TestcancelTests, 17)
      BY <1>11, <2>1, CancelTestsAre, Appended
  <2> QED BY <2>1, <2>2
<1> HIDE DEF p5
<1>13. /\ Holds(MainProgram, F + 52)
       /\ From(MainProgram, 0, p5, F + 51) /\ MainProgram[F + 52] = Call("joins")
  <2>1. F + 51 \in Nat /\ F + 51 + 1 = F + 52
      BY <1>2
  <2>2. /\ Holds(MainProgram, F + 51 + 1)
        /\ From(MainProgram, 0, p5, F + 51) /\ From(MainProgram, F + 51, <<Call("joins")>>, 1)
      BY <1>4, <1>7, <1>12, <2>1, Appended
  <2>3. MainProgram[F + 51 + 1] = <<Call("joins")>>[1]
      BY <2>2 DEF From
  <2> QED BY <1>4, <2>1, <2>2, <2>3
<1> USE DEF From
<1>14. ASSUME NEW k \in 1..F + 34 PROVE MainProgram[k] = p4[k]
  <2>1. k \in 1..F + 51
      BY <1>2
  <2> QED BY <1>12, <1>13, <2>1
<1>15. ASSUME NEW k \in 1..F + 27 PROVE MainProgram[k] = p3[k]
  <2>1. k \in 1..F + 34
      BY <1>2
  <2> QED BY <1>11, <1>14, <2>1
<1>16. ASSUME NEW k \in 1..F + 18 PROVE MainProgram[k] = p2[k]
  <2>1. k \in 1..F + 27
      BY <1>2
  <2> QED BY <1>10, <1>15, <2>1
<1>17. ASSUME NEW k \in 1..F + 17 PROVE MainProgram[k] = p1[k]
  <2>1. k \in 1..F + 18
      BY <1>2
  <2> QED BY <1>9, <1>16, <2>1
<1>18. ASSUME NEW k \in 1..17 PROVE MainProgram[k] = CleanupTests[k]
  <2>1. k \in 1..F + 17
      BY <1>2
  <2> QED BY <1>8, <1>17, <2>1
<1>19. ASSUME NEW k \in 1..F
       PROVE  MainProgram[17 + k] = IF k % 2 = 1 THEN Create("leak") ELSE Join("leak", "NULL")
  <2>1. 17 + k \in 1..F + 17
      BY <1>2
  <2>2. MainProgram[17 + k] = DescriptorLeakTest[k]
      BY <1>8, <1>17, <2>1
  <2> QED BY <1>2, <2>2
<1>20. MainProgram[F + 18] = Call("execution")
  <2>1. F + 18 \in 1..F + 18
      BY <1>2
  <2> QED BY <1>9, <1>16, <2>1
<1>21. ASSUME NEW k \in 1..9 PROVE MainProgram[F + 18 + k] = NameTest[k]
  <2>1. F + 18 + k \in 1..F + 27
      BY <1>2
  <2> QED BY <1>10, <1>15, <2>1
<1>22. ASSUME NEW k \in 1..7 PROVE MainProgram[F + 27 + k] = TerminationTest[k]
  <2>1. F + 27 + k \in 1..F + 34
      BY <1>2
  <2> QED BY <1>11, <1>14, <2>1
<1>23. ASSUME NEW k \in 1..17 PROVE MainProgram[F + 34 + k] = CancelTests[k]
  <2>1. F + 34 + k \in 1..F + 51
      BY <1>2
  <2> QED BY <1>12, <1>13, <2>1, CancelTestsAre
<1>24. /\ F + 18 + 34 = F + 52
       /\ \A k \in 1..7 : F + 18 + 9 + k = F + 27 + k
       /\ \A k \in 1..17 : F + 18 + 16 + k = F + 34 + k
    BY <1>2
<1>25. /\ \A k \in 1..7 : MainProgram[ExecutionAt + 9 + k] = TerminationTest[k]
       /\ \A k \in 1..17 : MainProgram[ExecutionAt + 16 + k] = CancelTests[k]
    BY <1>3, <1>22, <1>23, <1>24
<1> QED BY <1>3, <1>13, <1>18, <1>19, <1>20, <1>21, <1>24, <1>25 DEF F, Holds

-----------------------------------------------------------------------------
(* What main creates and joins, and where                                   *)

\* What is done with thread t at place p.
Creates(t, p) == MainProgram[p].op = "create" /\ MainProgram[p].on = t
JoinsThere(t, p) == MainProgram[p].op = "join" /\ MainProgram[p].on = t

Passes(call) == call.op \notin {"create", "join", "joins"}

\* Who else can have a descriptor where one is created: only the threads of
\* test_pthread_termination.
AtMostThree(p) ==
    \/ \A t \in Workers : Lives(t, p) => t \in {"term0", "term1", "term2"}
    \/ \A t \in Workers : Lives(t, p) => t \in {"term2", "term3"}

\* Who can have a descriptor at place p.
LiveAt(p, T) == \A t \in Workers : Lives(t, p) <=> t \in T

\* A thread is created where it had none, next to at most three others, and
\* none of them is forgotten but where it is joined.
WellPaired(p) ==
    /\ MainProgram[p].op \in {"create", "join"} => MainProgram[p].on \in Workers
    /\ \A t \in Workers : Creates(t, p) => ~Lives(t, p) /\ Lives(t, p + 1) /\ AtMostThree(p)
    /\ \A t \in Workers : Lives(t, p) => Lives(t, p + 1) \/ JoinsThere(t, p)
    /\ MainProgram[p].op = "joins" => \A t \in Workers : Lives(t, p) => t \in {"term2", "term3"}

LEMMA WorkerNames ==
    Workers = {"explicit", "pexit", "cancelsync", "return", "leak", "named", "self", "ext1",
               "ext2", "term0", "term1", "term2", "term3"}
BY DEF Workers, Terminating

\* A place where a thread is created, one where a thread is joined, and one
\* where neither happens.
LEMMA CreatePlace ==
    ASSUME NEW p, NEW q, q = p + 1, NEW c \in Workers, NEW T, NEW U, MainProgram[p] = Create(c),
           LiveAt(p, T), LiveAt(q, U), T \subseteq U, c \in U, c \notin T,
           T \subseteq {"term0", "term1", "term2"} \/ T \subseteq {"term2", "term3"}
    PROVE  WellPaired(p)
<1>1. MainProgram[p].op = "create" /\ MainProgram[p].on = c
    BY CallOps
<1>2. AtMostThree(p)
    BY DEF AtMostThree, LiveAt
<1> QED BY <1>1, <1>2 DEF WellPaired, Creates, JoinsThere, LiveAt

LEMMA JoinPlace ==
    ASSUME NEW p, NEW q, q = p + 1, NEW c \in Workers, NEW w, NEW T, NEW U,
           MainProgram[p] = Join(c, w), LiveAt(p, T), LiveAt(q, U), T \subseteq U \cup {c}
    PROVE  WellPaired(p)
<1>1. MainProgram[p].op = "join" /\ MainProgram[p].on = c
    BY CallOps
<1> QED BY <1>1 DEF WellPaired, Creates, JoinsThere, LiveAt

LEMMA OtherPlace ==
    ASSUME NEW p, NEW q, q = p + 1, NEW T, NEW U, Passes(MainProgram[p]),
           LiveAt(p, T), LiveAt(q, U), T \subseteq U
    PROVE  WellPaired(p)
BY DEF Passes, WellPaired, Creates, JoinsThere, LiveAt

LEMMA LastPlace ==
    ASSUME NEW p, NEW q, q = p + 1, NEW T, NEW U, MainProgram[p] = Call("joins"),
           LiveAt(p, T), LiveAt(q, U), T \subseteq U, T \subseteq {"term2", "term3"}
    PROVE  WellPaired(p)
<1>1. MainProgram[p].op = "joins"
    BY CallOps
<1> QED BY <1>1 DEF WellPaired, Creates, JoinsThere, LiveAt

-----------------------------------------------------------------------------
(* Who can have a descriptor at each place                                  *)

LEMMA LiveEarly ==
    /\ LiveAt(1, {})
    /\ LiveAt(2, {"explicit"})
    /\ LiveAt(3, {})
    /\ LiveAt(4, {})
    /\ LiveAt(5, {"pexit"})
    /\ LiveAt(6, {})
    /\ LiveAt(7, {})
    /\ LiveAt(8, {})
    /\ LiveAt(9, {"cancelsync"})
    /\ LiveAt(10, {"cancelsync"})
    /\ LiveAt(11, {})
    /\ LiveAt(12, {})
    /\ LiveAt(13, {})
    /\ LiveAt(14, {})
    /\ LiveAt(15, {"return"})
    /\ LiveAt(16, {})
    /\ LiveAt(17, {})
    /\ LiveAt(18, {})
<1>1. ExecutionAt \in Nat /\ ExecutionAt > 18
    BY MainProgramPlaces
<1> QED BY <1>1, WorkerNames DEF LiveAt, Lives

LEMMA LiveLate ==
    /\ LiveAt(ExecutionAt + 0, {})
    /\ LiveAt(ExecutionAt + 1, {})
    /\ LiveAt(ExecutionAt + 2, {})
    /\ LiveAt(ExecutionAt + 3, {"named"})
    /\ LiveAt(ExecutionAt + 4, {"named"})
    /\ LiveAt(ExecutionAt + 5, {"named"})
    /\ LiveAt(ExecutionAt + 6, {"named"})
    /\ LiveAt(ExecutionAt + 7, {"named"})
    /\ LiveAt(ExecutionAt + 8, {"named"})
    /\ LiveAt(ExecutionAt + 9, {})
    /\ LiveAt(ExecutionAt + 10, {})
    /\ LiveAt(ExecutionAt + 11, {"term0"})
    /\ LiveAt(ExecutionAt + 12, {"term0", "term1"})
    /\ LiveAt(ExecutionAt + 13, {"term0", "term1", "term2"})
    /\ LiveAt(ExecutionAt + 14, {"term0", "term1", "term2", "term3"})
    /\ LiveAt(ExecutionAt + 15, {"term1", "term2", "term3"})
    /\ LiveAt(ExecutionAt + 16, {"term2", "term3"})
    /\ LiveAt(ExecutionAt + 17, {"term2", "term3"})
    /\ LiveAt(ExecutionAt + 18, {"term2", "term3", "self"})
    /\ LiveAt(ExecutionAt + 19, {"term2", "term3"})
    /\ LiveAt(ExecutionAt + 20, {"term2", "term3"})
    /\ LiveAt(ExecutionAt + 21, {"term2", "term3"})
    /\ LiveAt(ExecutionAt + 22, {"term2", "term3"})
    /\ LiveAt(ExecutionAt + 23, {"term2", "term3"})
    /\ LiveAt(ExecutionAt + 24, {"term2", "term3", "ext1"})
    /\ LiveAt(ExecutionAt + 25, {"term2", "term3", "ext1"})
    /\ LiveAt(ExecutionAt + 26, {"term2", "term3", "ext1"})
    /\ LiveAt(ExecutionAt + 27, {"term2", "term3", "ext1"})
    /\ LiveAt(ExecutionAt + 28, {"term2", "term3"})
    /\ LiveAt(ExecutionAt + 29, {"term2", "term3"})
    /\ LiveAt(ExecutionAt + 30, {"term2", "term3"})
    /\ LiveAt(ExecutionAt + 31, {"term2", "term3", "ext2"})
    /\ LiveAt(ExecutionAt + 32, {"term2", "term3", "ext2"})
    /\ LiveAt(ExecutionAt + 33, {"term2", "term3"})
    /\ LiveAt(ExecutionAt + 34, {"term2", "term3"})
    /\ LiveAt(ExecutionAt + 35, {"term2", "term3"})
<1>1. ExecutionAt \in Nat /\ ExecutionAt > 18
    BY MainProgramPlaces
<1> QED BY <1>1, WorkerNames DEF LiveAt, Lives

-----------------------------------------------------------------------------
(* Every place of MainProgram                                               *)

LEMMA PassingCalls ==
    /\ \A op \in {"execution", "lock", "wait_cvar0", "signal_cvar1", "unlock"} : Passes(Call(op))
    /\ \A x, y : /\ Passes(SetName(x, y)) /\ Passes(CheckName(x, y)) /\ Passes(Set(x))
                 /\ Passes(Clear(x)) /\ Passes(Await(x)) /\ Passes(Check(x))
                 /\ Passes(CheckNot(x)) /\ Passes(Cancel(x, y))
BY DEF Passes, Call, SetName, CheckName, Set, Clear, Await, Check, CheckNot, Cancel, Do

LEMMA CleanupCalls ==
    /\ MainProgram[1] = Create("explicit")
    /\ MainProgram[2] = Join("explicit", "NULL")
    /\ MainProgram[3] = Set("CLEANUP_DONE")
    /\ MainProgram[4] = Create("pexit")
    /\ MainProgram[5] = Join("pexit", "executed")
    /\ MainProgram[6] = Check("pexit0")
    /\ MainProgram[7] = Check("pexit1")
    /\ MainProgram[8] = Create("cancelsync")
    /\ MainProgram[9] = Cancel("cancelsync", "ok")
    /\ MainProgram[10] = Join("cancelsync", "CANCELED")
    /\ MainProgram[11] = Check("cancelsync0")
    /\ MainProgram[12] = Check("cancelsync1")
    /\ MainProgram[13] = Set("CLEANUP_DONE")
    /\ MainProgram[14] = Create("return")
    /\ MainProgram[15] = Join("return", "executed")
    /\ MainProgram[16] = CheckNot("return0")
    /\ MainProgram[17] = CheckNot("return1")
<1>1. \A p \in 1..17 : MainProgram[p] = CleanupTests[p]
    BY MainProgramPlaces
<1> QED BY <1>1 DEF CleanupTests

LEMMA CleanupPairs == \A p \in 1..17 : WellPaired(p)
<1>3. "explicit" \in Workers /\ "pexit" \in Workers /\ "cancelsync" \in Workers
      /\ "return" \in Workers
    BY WorkerNames
<1>4. WellPaired(1)
  <2>1. LiveAt(1, {}) /\ LiveAt(2, {"explicit"})
      BY LiveEarly
  <2>2. 2 = 1 + 1
      OBVIOUS
  <2> QED BY CleanupCalls, <1>3, <2>1, <2>2, CreatePlace
<1>5. WellPaired(2)
  <2>1. LiveAt(2, {"explicit"}) /\ LiveAt(3, {})
      BY LiveEarly
  <2>2. 3 = 2 + 1
      OBVIOUS
  <2> QED BY CleanupCalls, <1>3, <2>1, <2>2, JoinPlace
<1>6. WellPaired(3)
  <2>1. LiveAt(3, {}) /\ LiveAt(4, {})
      BY LiveEarly
  <2>2. 4 = 3 + 1
      OBVIOUS
  <2> QED BY CleanupCalls, <1>3, <2>1, <2>2, PassingCalls, OtherPlace
<1>7. WellPaired(4)
  <2>1. LiveAt(4, {}) /\ LiveAt(5, {"pexit"})
      BY LiveEarly
  <2>2. 5 = 4 + 1
      OBVIOUS
  <2> QED BY CleanupCalls, <1>3, <2>1, <2>2, CreatePlace
<1>8. WellPaired(5)
  <2>1. LiveAt(5, {"pexit"}) /\ LiveAt(6, {})
      BY LiveEarly
  <2>2. 6 = 5 + 1
      OBVIOUS
  <2> QED BY CleanupCalls, <1>3, <2>1, <2>2, JoinPlace
<1>9. WellPaired(6)
  <2>1. LiveAt(6, {}) /\ LiveAt(7, {})
      BY LiveEarly
  <2>2. 7 = 6 + 1
      OBVIOUS
  <2> QED BY CleanupCalls, <1>3, <2>1, <2>2, PassingCalls, OtherPlace
<1>10. WellPaired(7)
  <2>1. LiveAt(7, {}) /\ LiveAt(8, {})
      BY LiveEarly
  <2>2. 8 = 7 + 1
      OBVIOUS
  <2> QED BY CleanupCalls, <1>3, <2>1, <2>2, PassingCalls, OtherPlace
<1>11. WellPaired(8)
  <2>1. LiveAt(8, {}) /\ LiveAt(9, {"cancelsync"})
      BY LiveEarly
  <2>2. 9 = 8 + 1
      OBVIOUS
  <2> QED BY CleanupCalls, <1>3, <2>1, <2>2, CreatePlace
<1>12. WellPaired(9)
  <2>1. LiveAt(9, {"cancelsync"}) /\ LiveAt(10, {"cancelsync"})
      BY LiveEarly
  <2>2. 10 = 9 + 1
      OBVIOUS
  <2> QED BY CleanupCalls, <1>3, <2>1, <2>2, PassingCalls, OtherPlace
<1>13. WellPaired(10)
  <2>1. LiveAt(10, {"cancelsync"}) /\ LiveAt(11, {})
      BY LiveEarly
  <2>2. 11 = 10 + 1
      OBVIOUS
  <2> QED BY CleanupCalls, <1>3, <2>1, <2>2, JoinPlace
<1>14. WellPaired(11)
  <2>1. LiveAt(11, {}) /\ LiveAt(12, {})
      BY LiveEarly
  <2>2. 12 = 11 + 1
      OBVIOUS
  <2> QED BY CleanupCalls, <1>3, <2>1, <2>2, PassingCalls, OtherPlace
<1>15. WellPaired(12)
  <2>1. LiveAt(12, {}) /\ LiveAt(13, {})
      BY LiveEarly
  <2>2. 13 = 12 + 1
      OBVIOUS
  <2> QED BY CleanupCalls, <1>3, <2>1, <2>2, PassingCalls, OtherPlace
<1>16. WellPaired(13)
  <2>1. LiveAt(13, {}) /\ LiveAt(14, {})
      BY LiveEarly
  <2>2. 14 = 13 + 1
      OBVIOUS
  <2> QED BY CleanupCalls, <1>3, <2>1, <2>2, PassingCalls, OtherPlace
<1>17. WellPaired(14)
  <2>1. LiveAt(14, {}) /\ LiveAt(15, {"return"})
      BY LiveEarly
  <2>2. 15 = 14 + 1
      OBVIOUS
  <2> QED BY CleanupCalls, <1>3, <2>1, <2>2, CreatePlace
<1>18. WellPaired(15)
  <2>1. LiveAt(15, {"return"}) /\ LiveAt(16, {})
      BY LiveEarly
  <2>2. 16 = 15 + 1
      OBVIOUS
  <2> QED BY CleanupCalls, <1>3, <2>1, <2>2, JoinPlace
<1>19. WellPaired(16)
  <2>1. LiveAt(16, {}) /\ LiveAt(17, {})
      BY LiveEarly
  <2>2. 17 = 16 + 1
      OBVIOUS
  <2> QED BY CleanupCalls, <1>3, <2>1, <2>2, PassingCalls, OtherPlace
<1>20. WellPaired(17)
  <2>1. LiveAt(17, {}) /\ LiveAt(18, {})
      BY LiveEarly
  <2>2. 18 = 17 + 1
      OBVIOUS
  <2> QED BY CleanupCalls, <1>3, <2>1, <2>2, PassingCalls, OtherPlace
<1> QED BY <1>4, <1>5, <1>6, <1>7, <1>8, <1>9, <1>10, <1>11, <1>12, <1>13, <1>14, <1>15,
           <1>16, <1>17, <1>18, <1>19, <1>20

LEMMA LeakPairs == \A k \in 1..4 * MaxThreads : WellPaired(17 + k)
<1> DEFINE F == 4 * MaxThreads
           Leaker(k) == IF k % 2 = 0 THEN {"leak"} ELSE {}
<1>1. F \in Nat /\ ExecutionAt = F + 18 /\ F % 2 = 0
  <2>1. \A j \in Nat : (2 * j) % 2 = 0
      OBVIOUS
  <2>2. 2 * MaxThreads \in Nat /\ F = 2 * (2 * MaxThreads)
      OBVIOUS
  <2> QED BY <2>1, <2>2, MainProgramPlaces
<1> HIDE DEF F
<1>2. ASSUME NEW k \in 1..F + 1 PROVE LiveAt(17 + k, Leaker(k))
  <2>1. k \in Int /\ k >= 1 /\ k <= F + 1 /\ (17 + k) - 17 = k
      BY <1>1
  <2>2. k % 2 = 0 => 17 + k \in 18..ExecutionAt - 1
    <3>1. CASE k = F + 1
        BY <1>1, <3>1
    <3>2. CASE k # F + 1
        BY <1>1, <2>1, <3>2
    <3> QED BY <3>1, <3>2
  <2>3. \A t \in Workers : Lives(t, 17 + k) <=> t = "leak" /\ k % 2 = 0
    <3> DEFINE p == 17 + k
    <3>1. /\ p \in Int /\ ExecutionAt \in Int /\ p > 17 /\ p <= ExecutionAt
          /\ p \in 18..ExecutionAt - 1 /\ (p - 17) % 2 = 0 <=> k % 2 = 0
        BY <1>1, <2>1, <2>2
    <3> HIDE DEF p
    <3>2. \A t \in Workers : Lives(t, p) <=> t = "leak" /\ k % 2 = 0
        BY <3>1, WorkerNames DEF Lives
    <3> QED BY <3>2 DEF p
  <2> QED BY <2>3 DEF LiveAt
<1>3. ASSUME NEW k \in 1..F PROVE WellPaired(17 + k)
  <2>1. k \in 1..F + 1 /\ k + 1 \in 1..F + 1 /\ 17 + (k + 1) = (17 + k) + 1 /\ k \in Int
      BY <1>1
  <2>2. LiveAt(17 + k, Leaker(k)) /\ LiveAt((17 + k) + 1, Leaker(k + 1))
    <3>1. LiveAt(17 + (k + 1), Leaker(k + 1))
        BY <1>2, <2>1
    <3> QED BY <1>2, <2>1, <3>1
  <2>3. /\ MainProgram[17 + k] = IF k % 2 = 1 THEN Create("leak") ELSE Join("leak", "NULL")
        /\ "leak" \in Workers
      BY MainProgramPlaces, WorkerNames DEF F
  <2>4. CASE k % 2 = 1
    <3>1. Leaker(k) = {} /\ Leaker(k + 1) = {"leak"}
        BY <2>1, <2>4
    <3> HIDE DEF Leaker
    <3> QED BY <2>2, <2>3, <2>4, <3>1, CreatePlace
  <2>5. CASE k % 2 = 0
    <3>1. Leaker(k) = {"leak"} /\ Leaker(k + 1) = {}
        BY <2>1, <2>5
    <3> HIDE DEF Leaker
    <3>2. MainProgram[17 + k] = Join("leak", "NULL")
        BY <2>3, <2>5
    <3> QED BY <2>2, <2>3, <3>1, <3>2, JoinPlace
  <2> QED BY <2>1, <2>4, <2>5
<1> QED BY <1>3 DEF F

LEMMA LateCallsAre ==
    /\ MainProgram[ExecutionAt + 0] = Call("execution")
    /\ MainProgram[ExecutionAt + 1] = Call("lock")
    /\ MainProgram[ExecutionAt + 2] = Create("named")
    /\ MainProgram[ExecutionAt + 3] = Call("wait_cvar0")
    /\ MainProgram[ExecutionAt + 4] = SetName("named", "Create")
    /\ MainProgram[ExecutionAt + 5] = CheckName("named", "Create")
    /\ MainProgram[ExecutionAt + 6] = Call("signal_cvar1")
    /\ MainProgram[ExecutionAt + 7] = Call("unlock")
    /\ MainProgram[ExecutionAt + 8] = Join("named", "NULL")
    /\ MainProgram[ExecutionAt + 9] = Check("name")
    /\ MainProgram[ExecutionAt + 10] = Create("term0")
    /\ MainProgram[ExecutionAt + 11] = Create("term1")
    /\ MainProgram[ExecutionAt + 12] = Create("term2")
    /\ MainProgram[ExecutionAt + 13] = Create("term3")
    /\ MainProgram[ExecutionAt + 14] = Join("term0", "any")
    /\ MainProgram[ExecutionAt + 15] = Join("term1", "any")
    /\ MainProgram[ExecutionAt + 16] = Cancel("term0", "ESRCH")
    /\ MainProgram[ExecutionAt + 17] = Create("self")
    /\ MainProgram[ExecutionAt + 18] = Join("self", "CANCELED")
    /\ MainProgram[ExecutionAt + 19] = Check("ignored")
    /\ MainProgram[ExecutionAt + 20] = CheckNot("failed")
    /\ MainProgram[ExecutionAt + 21] = Clear("ENABLED")
    /\ MainProgram[ExecutionAt + 22] = Clear("SET")
    /\ MainProgram[ExecutionAt + 23] = Create("ext1")
    /\ MainProgram[ExecutionAt + 24] = Await("ENABLED")
    /\ MainProgram[ExecutionAt + 25] = Cancel("ext1", "ok")
    /\ MainProgram[ExecutionAt + 26] = Set("SET")
    /\ MainProgram[ExecutionAt + 27] = Join("ext1", "CANCELED")
    /\ MainProgram[ExecutionAt + 28] = Check("ignored")
    /\ MainProgram[ExecutionAt + 29] = CheckNot("failed")
    /\ MainProgram[ExecutionAt + 30] = Create("ext2")
    /\ MainProgram[ExecutionAt + 31] = Cancel("ext2", "ok")
    /\ MainProgram[ExecutionAt + 32] = Join("ext2", "CANCELED")
    /\ MainProgram[ExecutionAt + 33] = CheckNot("failed")
    /\ MainProgram[ExecutionAt + 34] = Call("joins")
<1>1. ExecutionAt \in Nat
    BY MainProgramPlaces
<1>2. /\ MainProgram[ExecutionAt + 0] = Call("execution")
      /\ MainProgram[ExecutionAt + 1] = Call("lock")
      /\ MainProgram[ExecutionAt + 2] = Create("named")
      /\ MainProgram[ExecutionAt + 3] = Call("wait_cvar0")
      /\ MainProgram[ExecutionAt + 4] = SetName("named", "Create")
      /\ MainProgram[ExecutionAt + 5] = CheckName("named", "Create")
      /\ MainProgram[ExecutionAt + 6] = Call("signal_cvar1")
      /\ MainProgram[ExecutionAt + 7] = Call("unlock")
      /\ MainProgram[ExecutionAt + 8] = Join("named", "NULL")
      /\ MainProgram[ExecutionAt + 9] = Check("name")
      /\ MainProgram[ExecutionAt + 10] = Create("term0")
      /\ MainProgram[ExecutionAt + 11] = Create("term1")
      /\ MainProgram[ExecutionAt + 12] = Create("term2")
      /\ MainProgram[ExecutionAt + 13] = Create("term3")
      /\ MainProgram[ExecutionAt + 14] = Join("term0", "any")
      /\ MainProgram[ExecutionAt + 15] = Join("term1", "any")
      /\ MainProgram[ExecutionAt + 16] = Cancel("term0", "ESRCH")
  <2>1. ExecutionAt + 0 = ExecutionAt /\ \A k \in 1..7 : ExecutionAt + (9 + k) = ExecutionAt + 9 + k
      BY <1>1
  <2>2. \A k \in 1..7 : MainProgram[ExecutionAt + (9 + k)] = TerminationTest[k]
      BY <2>1, MainProgramPlaces
  <2> QED BY <2>1, <2>2, MainProgramPlaces DEF NameTest, TerminationTest
<1>3. /\ MainProgram[ExecutionAt + 17] = Create("self")
      /\ MainProgram[ExecutionAt + 18] = Join("self", "CANCELED")
      /\ MainProgram[ExecutionAt + 19] = Check("ignored")
      /\ MainProgram[ExecutionAt + 20] = CheckNot("failed")
      /\ MainProgram[ExecutionAt + 21] = Clear("ENABLED")
      /\ MainProgram[ExecutionAt + 22] = Clear("SET")
      /\ MainProgram[ExecutionAt + 23] = Create("ext1")
      /\ MainProgram[ExecutionAt + 24] = Await("ENABLED")
      /\ MainProgram[ExecutionAt + 25] = Cancel("ext1", "ok")
      /\ MainProgram[ExecutionAt + 26] = Set("SET")
      /\ MainProgram[ExecutionAt + 27] = Join("ext1", "CANCELED")
      /\ MainProgram[ExecutionAt + 28] = Check("ignored")
      /\ MainProgram[ExecutionAt + 29] = CheckNot("failed")
      /\ MainProgram[ExecutionAt + 30] = Create("ext2")
      /\ MainProgram[ExecutionAt + 31] = Cancel("ext2", "ok")
      /\ MainProgram[ExecutionAt + 32] = Join("ext2", "CANCELED")
      /\ MainProgram[ExecutionAt + 33] = CheckNot("failed")
      /\ MainProgram[ExecutionAt + 34] = Call("joins")
  <2>1. \A k \in 1..17 : ExecutionAt + (16 + k) = ExecutionAt + 16 + k
      BY <1>1
  <2>2. \A k \in 1..17 : MainProgram[ExecutionAt + (16 + k)] = CancelTests[k]
      BY <2>1, MainProgramPlaces
  <2> QED BY <2>2, MainProgramPlaces DEF CancelTests
<1> QED BY <1>2, <1>3

LEMMA LatePairs == \A k \in 0..34 : WellPaired(ExecutionAt + k)
<1>1. ExecutionAt \in Nat
    BY MainProgramPlaces
<1>4. WellPaired(ExecutionAt + 0)
  <2>1. LiveAt(ExecutionAt + 0, {})
      BY LiveLate
  <2>2. LiveAt(ExecutionAt + 1, {})
      BY LiveLate
  <2>3. ExecutionAt + 1 = (ExecutionAt + 0) + 1
      BY <1>1
  <2> QED BY LateCallsAre, <2>1, <2>2, <2>3, PassingCalls, OtherPlace
<1>5. WellPaired(ExecutionAt + 1)
  <2>1. LiveAt(ExecutionAt + 1, {})
      BY LiveLate
  <2>2. LiveAt(ExecutionAt + 2, {})
      BY LiveLate
  <2>3. ExecutionAt + 2 = (ExecutionAt + 1) + 1
      BY <1>1
  <2> QED BY LateCallsAre, <2>1, <2>2, <2>3, PassingCalls, OtherPlace
<1>6. WellPaired(ExecutionAt + 2)
  <2>1. LiveAt(ExecutionAt + 2, {})
      BY LiveLate
  <2>2. LiveAt(ExecutionAt + 3, {"named"})
      BY LiveLate
  <2>3. ExecutionAt + 3 = (ExecutionAt + 2) + 1
      BY <1>1
  <2> QED BY LateCallsAre, <2>1, <2>2, <2>3, CreatePlace, WorkerNames
<1>7. WellPaired(ExecutionAt + 3)
  <2>1. LiveAt(ExecutionAt + 3, {"named"})
      BY LiveLate
  <2>2. LiveAt(ExecutionAt + 4, {"named"})
      BY LiveLate
  <2>3. ExecutionAt + 4 = (ExecutionAt + 3) + 1
      BY <1>1
  <2> QED BY LateCallsAre, <2>1, <2>2, <2>3, PassingCalls, OtherPlace
<1>8. WellPaired(ExecutionAt + 4)
  <2>1. LiveAt(ExecutionAt + 4, {"named"})
      BY LiveLate
  <2>2. LiveAt(ExecutionAt + 5, {"named"})
      BY LiveLate
  <2>3. ExecutionAt + 5 = (ExecutionAt + 4) + 1
      BY <1>1
  <2> QED BY LateCallsAre, <2>1, <2>2, <2>3, PassingCalls, OtherPlace
<1>9. WellPaired(ExecutionAt + 5)
  <2>1. LiveAt(ExecutionAt + 5, {"named"})
      BY LiveLate
  <2>2. LiveAt(ExecutionAt + 6, {"named"})
      BY LiveLate
  <2>3. ExecutionAt + 6 = (ExecutionAt + 5) + 1
      BY <1>1
  <2> QED BY LateCallsAre, <2>1, <2>2, <2>3, PassingCalls, OtherPlace
<1>10. WellPaired(ExecutionAt + 6)
  <2>1. LiveAt(ExecutionAt + 6, {"named"})
      BY LiveLate
  <2>2. LiveAt(ExecutionAt + 7, {"named"})
      BY LiveLate
  <2>3. ExecutionAt + 7 = (ExecutionAt + 6) + 1
      BY <1>1
  <2> QED BY LateCallsAre, <2>1, <2>2, <2>3, PassingCalls, OtherPlace
<1>11. WellPaired(ExecutionAt + 7)
  <2>1. LiveAt(ExecutionAt + 7, {"named"})
      BY LiveLate
  <2>2. LiveAt(ExecutionAt + 8, {"named"})
      BY LiveLate
  <2>3. ExecutionAt + 8 = (ExecutionAt + 7) + 1
      BY <1>1
  <2> QED BY LateCallsAre, <2>1, <2>2, <2>3, PassingCalls, OtherPlace
<1>12. WellPaired(ExecutionAt + 8)
  <2>1. LiveAt(ExecutionAt + 8, {"named"})
      BY LiveLate
  <2>2. LiveAt(ExecutionAt + 9, {})
      BY LiveLate
  <2>3. ExecutionAt + 9 = (ExecutionAt + 8) + 1
      BY <1>1
  <2> QED BY LateCallsAre, <2>1, <2>2, <2>3, JoinPlace, WorkerNames
<1>13. WellPaired(ExecutionAt + 9)
  <2>1. LiveAt(ExecutionAt + 9, {})
      BY LiveLate
  <2>2. LiveAt(ExecutionAt + 10, {})
      BY LiveLate
  <2>3. ExecutionAt + 10 = (ExecutionAt + 9) + 1
      BY <1>1
  <2> QED BY LateCallsAre, <2>1, <2>2, <2>3, PassingCalls, OtherPlace
<1>14. WellPaired(ExecutionAt + 10)
  <2>1. LiveAt(ExecutionAt + 10, {})
      BY LiveLate
  <2>2. LiveAt(ExecutionAt + 11, {"term0"})
      BY LiveLate
  <2>3. ExecutionAt + 11 = (ExecutionAt + 10) + 1
      BY <1>1
  <2> QED BY LateCallsAre, <2>1, <2>2, <2>3, CreatePlace, WorkerNames
<1>15. WellPaired(ExecutionAt + 11)
  <2>1. LiveAt(ExecutionAt + 11, {"term0"})
      BY LiveLate
  <2>2. LiveAt(ExecutionAt + 12, {"term0", "term1"})
      BY LiveLate
  <2>3. ExecutionAt + 12 = (ExecutionAt + 11) + 1
      BY <1>1
  <2> QED BY LateCallsAre, <2>1, <2>2, <2>3, CreatePlace, WorkerNames
<1>16. WellPaired(ExecutionAt + 12)
  <2>1. LiveAt(ExecutionAt + 12, {"term0", "term1"})
      BY LiveLate
  <2>2. LiveAt(ExecutionAt + 13, {"term0", "term1", "term2"})
      BY LiveLate
  <2>3. ExecutionAt + 13 = (ExecutionAt + 12) + 1
      BY <1>1
  <2> QED BY LateCallsAre, <2>1, <2>2, <2>3, CreatePlace, WorkerNames
<1>17. WellPaired(ExecutionAt + 13)
  <2>1. LiveAt(ExecutionAt + 13, {"term0", "term1", "term2"})
      BY LiveLate
  <2>2. LiveAt(ExecutionAt + 14, {"term0", "term1", "term2", "term3"})
      BY LiveLate
  <2>3. ExecutionAt + 14 = (ExecutionAt + 13) + 1
      BY <1>1
  <2> QED BY LateCallsAre, <2>1, <2>2, <2>3, CreatePlace, WorkerNames
<1>18. WellPaired(ExecutionAt + 14)
  <2>1. LiveAt(ExecutionAt + 14, {"term0", "term1", "term2", "term3"})
      BY LiveLate
  <2>2. LiveAt(ExecutionAt + 15, {"term1", "term2", "term3"})
      BY LiveLate
  <2>3. ExecutionAt + 15 = (ExecutionAt + 14) + 1
      BY <1>1
  <2> QED BY LateCallsAre, <2>1, <2>2, <2>3, JoinPlace, WorkerNames
<1>19. WellPaired(ExecutionAt + 15)
  <2>1. LiveAt(ExecutionAt + 15, {"term1", "term2", "term3"})
      BY LiveLate
  <2>2. LiveAt(ExecutionAt + 16, {"term2", "term3"})
      BY LiveLate
  <2>3. ExecutionAt + 16 = (ExecutionAt + 15) + 1
      BY <1>1
  <2> QED BY LateCallsAre, <2>1, <2>2, <2>3, JoinPlace, WorkerNames
<1>20. WellPaired(ExecutionAt + 16)
  <2>1. LiveAt(ExecutionAt + 16, {"term2", "term3"})
      BY LiveLate
  <2>2. LiveAt(ExecutionAt + 17, {"term2", "term3"})
      BY LiveLate
  <2>3. ExecutionAt + 17 = (ExecutionAt + 16) + 1
      BY <1>1
  <2> QED BY LateCallsAre, <2>1, <2>2, <2>3, PassingCalls, OtherPlace
<1>21. WellPaired(ExecutionAt + 17)
  <2>1. LiveAt(ExecutionAt + 17, {"term2", "term3"})
      BY LiveLate
  <2>2. LiveAt(ExecutionAt + 18, {"term2", "term3", "self"})
      BY LiveLate
  <2>3. ExecutionAt + 18 = (ExecutionAt + 17) + 1
      BY <1>1
  <2> QED BY LateCallsAre, <2>1, <2>2, <2>3, CreatePlace, WorkerNames
<1>22. WellPaired(ExecutionAt + 18)
  <2>1. LiveAt(ExecutionAt + 18, {"term2", "term3", "self"})
      BY LiveLate
  <2>2. LiveAt(ExecutionAt + 19, {"term2", "term3"})
      BY LiveLate
  <2>3. ExecutionAt + 19 = (ExecutionAt + 18) + 1
      BY <1>1
  <2> QED BY LateCallsAre, <2>1, <2>2, <2>3, JoinPlace, WorkerNames
<1>23. WellPaired(ExecutionAt + 19)
  <2>1. LiveAt(ExecutionAt + 19, {"term2", "term3"})
      BY LiveLate
  <2>2. LiveAt(ExecutionAt + 20, {"term2", "term3"})
      BY LiveLate
  <2>3. ExecutionAt + 20 = (ExecutionAt + 19) + 1
      BY <1>1
  <2> QED BY LateCallsAre, <2>1, <2>2, <2>3, PassingCalls, OtherPlace
<1>24. WellPaired(ExecutionAt + 20)
  <2>1. LiveAt(ExecutionAt + 20, {"term2", "term3"})
      BY LiveLate
  <2>2. LiveAt(ExecutionAt + 21, {"term2", "term3"})
      BY LiveLate
  <2>3. ExecutionAt + 21 = (ExecutionAt + 20) + 1
      BY <1>1
  <2> QED BY LateCallsAre, <2>1, <2>2, <2>3, PassingCalls, OtherPlace
<1>25. WellPaired(ExecutionAt + 21)
  <2>1. LiveAt(ExecutionAt + 21, {"term2", "term3"})
      BY LiveLate
  <2>2. LiveAt(ExecutionAt + 22, {"term2", "term3"})
      BY LiveLate
  <2>3. ExecutionAt + 22 = (ExecutionAt + 21) + 1
      BY <1>1
  <2> QED BY LateCallsAre, <2>1, <2>2, <2>3, PassingCalls, OtherPlace
<1>26. WellPaired(ExecutionAt + 22)
  <2>1. LiveAt(ExecutionAt + 22, {"term2", "term3"})
      BY LiveLate
  <2>2. LiveAt(ExecutionAt + 23, {"term2", "term3"})
      BY LiveLate
  <2>3. ExecutionAt + 23 = (ExecutionAt + 22) + 1
      BY <1>1
  <2> QED BY LateCallsAre, <2>1, <2>2, <2>3, PassingCalls, OtherPlace
<1>27. WellPaired(ExecutionAt + 23)
  <2>1. LiveAt(ExecutionAt + 23, {"term2", "term3"})
      BY LiveLate
  <2>2. LiveAt(ExecutionAt + 24, {"term2", "term3", "ext1"})
      BY LiveLate
  <2>3. ExecutionAt + 24 = (ExecutionAt + 23) + 1
      BY <1>1
  <2> QED BY LateCallsAre, <2>1, <2>2, <2>3, CreatePlace, WorkerNames
<1>28. WellPaired(ExecutionAt + 24)
  <2>1. LiveAt(ExecutionAt + 24, {"term2", "term3", "ext1"})
      BY LiveLate
  <2>2. LiveAt(ExecutionAt + 25, {"term2", "term3", "ext1"})
      BY LiveLate
  <2>3. ExecutionAt + 25 = (ExecutionAt + 24) + 1
      BY <1>1
  <2> QED BY LateCallsAre, <2>1, <2>2, <2>3, PassingCalls, OtherPlace
<1>29. WellPaired(ExecutionAt + 25)
  <2>1. LiveAt(ExecutionAt + 25, {"term2", "term3", "ext1"})
      BY LiveLate
  <2>2. LiveAt(ExecutionAt + 26, {"term2", "term3", "ext1"})
      BY LiveLate
  <2>3. ExecutionAt + 26 = (ExecutionAt + 25) + 1
      BY <1>1
  <2> QED BY LateCallsAre, <2>1, <2>2, <2>3, PassingCalls, OtherPlace
<1>30. WellPaired(ExecutionAt + 26)
  <2>1. LiveAt(ExecutionAt + 26, {"term2", "term3", "ext1"})
      BY LiveLate
  <2>2. LiveAt(ExecutionAt + 27, {"term2", "term3", "ext1"})
      BY LiveLate
  <2>3. ExecutionAt + 27 = (ExecutionAt + 26) + 1
      BY <1>1
  <2> QED BY LateCallsAre, <2>1, <2>2, <2>3, PassingCalls, OtherPlace
<1>31. WellPaired(ExecutionAt + 27)
  <2>1. LiveAt(ExecutionAt + 27, {"term2", "term3", "ext1"})
      BY LiveLate
  <2>2. LiveAt(ExecutionAt + 28, {"term2", "term3"})
      BY LiveLate
  <2>3. ExecutionAt + 28 = (ExecutionAt + 27) + 1
      BY <1>1
  <2> QED BY LateCallsAre, <2>1, <2>2, <2>3, JoinPlace, WorkerNames
<1>32. WellPaired(ExecutionAt + 28)
  <2>1. LiveAt(ExecutionAt + 28, {"term2", "term3"})
      BY LiveLate
  <2>2. LiveAt(ExecutionAt + 29, {"term2", "term3"})
      BY LiveLate
  <2>3. ExecutionAt + 29 = (ExecutionAt + 28) + 1
      BY <1>1
  <2> QED BY LateCallsAre, <2>1, <2>2, <2>3, PassingCalls, OtherPlace
<1>33. WellPaired(ExecutionAt + 29)
  <2>1. LiveAt(ExecutionAt + 29, {"term2", "term3"})
      BY LiveLate
  <2>2. LiveAt(ExecutionAt + 30, {"term2", "term3"})
      BY LiveLate
  <2>3. ExecutionAt + 30 = (ExecutionAt + 29) + 1
      BY <1>1
  <2> QED BY LateCallsAre, <2>1, <2>2, <2>3, PassingCalls, OtherPlace
<1>34. WellPaired(ExecutionAt + 30)
  <2>1. LiveAt(ExecutionAt + 30, {"term2", "term3"})
      BY LiveLate
  <2>2. LiveAt(ExecutionAt + 31, {"term2", "term3", "ext2"})
      BY LiveLate
  <2>3. ExecutionAt + 31 = (ExecutionAt + 30) + 1
      BY <1>1
  <2> QED BY LateCallsAre, <2>1, <2>2, <2>3, CreatePlace, WorkerNames
<1>35. WellPaired(ExecutionAt + 31)
  <2>1. LiveAt(ExecutionAt + 31, {"term2", "term3", "ext2"})
      BY LiveLate
  <2>2. LiveAt(ExecutionAt + 32, {"term2", "term3", "ext2"})
      BY LiveLate
  <2>3. ExecutionAt + 32 = (ExecutionAt + 31) + 1
      BY <1>1
  <2> QED BY LateCallsAre, <2>1, <2>2, <2>3, PassingCalls, OtherPlace
<1>36. WellPaired(ExecutionAt + 32)
  <2>1. LiveAt(ExecutionAt + 32, {"term2", "term3", "ext2"})
      BY LiveLate
  <2>2. LiveAt(ExecutionAt + 33, {"term2", "term3"})
      BY LiveLate
  <2>3. ExecutionAt + 33 = (ExecutionAt + 32) + 1
      BY <1>1
  <2> QED BY LateCallsAre, <2>1, <2>2, <2>3, JoinPlace, WorkerNames
<1>37. WellPaired(ExecutionAt + 33)
  <2>1. LiveAt(ExecutionAt + 33, {"term2", "term3"})
      BY LiveLate
  <2>2. LiveAt(ExecutionAt + 34, {"term2", "term3"})
      BY LiveLate
  <2>3. ExecutionAt + 34 = (ExecutionAt + 33) + 1
      BY <1>1
  <2> QED BY LateCallsAre, <2>1, <2>2, <2>3, PassingCalls, OtherPlace
<1>38. WellPaired(ExecutionAt + 34)
  <2>1. LiveAt(ExecutionAt + 34, {"term2", "term3"})
      BY LiveLate
  <2>2. LiveAt(ExecutionAt + 35, {"term2", "term3"})
      BY LiveLate
  <2>3. ExecutionAt + 35 = (ExecutionAt + 34) + 1
      BY <1>1
  <2> QED BY LateCallsAre, <2>1, <2>2, <2>3, LastPlace
<1> QED BY <1>4, <1>5, <1>6, <1>7, <1>8, <1>9, <1>10, <1>11, <1>12, <1>13, <1>14, <1>15,
           <1>16, <1>17, <1>18, <1>19, <1>20, <1>21, <1>22, <1>23, <1>24, <1>25, <1>26,
           <1>27, <1>28, <1>29, <1>30, <1>31, <1>32, <1>33, <1>34, <1>35, <1>36, <1>37,
           <1>38

LEMMA EveryPlace == \A p \in 1..Len(MainProgram) : WellPaired(p)
<1> DEFINE F == 4 * MaxThreads
<1>1. F \in Nat /\ ExecutionAt = F + 18 /\ Len(MainProgram) = ExecutionAt + 34
    BY MainProgramPlaces
<1>2. /\ \A k \in 1..F : WellPaired(17 + k)
      /\ \A k \in 0..34 : WellPaired(ExecutionAt + k)
    BY LeakPairs, LatePairs
<1> HIDE DEF F
<1>3. ASSUME NEW p \in 1..Len(MainProgram) PROVE WellPaired(p)
  <2>1. CASE p \in 1..17
      BY <2>1, CleanupPairs
  <2>2. CASE p \in 18..F + 17
    <3>1. p - 17 \in 1..F /\ 17 + (p - 17) = p
        BY <1>1, <2>2
    <3> QED BY <1>2, <3>1
  <2>3. CASE p \in ExecutionAt..ExecutionAt + 34
    <3>1. p - ExecutionAt \in 0..34 /\ ExecutionAt + (p - ExecutionAt) = p
        BY <1>1, <2>3
    <3> QED BY <1>2, <3>1
  <2> QED BY <1>1, <2>1, <2>2, <2>3
<1> QED BY <1>3

-----------------------------------------------------------------------------
(* The pool                                                                 *)

\* What each step does to it.
LEMMA EndGivesBack ==
    ASSUME Typed, NEW t \in Workers, NEW v, descriptor[t].status = "running", End(t, v)
    PROVE  \/ Alive' = Alive /\ used' = used
           \/ t \in Alive /\ Alive' = Alive \ {t} /\ used' = used - 1
<1>1. /\ t \in Threads /\ t \in Alive
      /\ \A u \in Workers : u \in Threads
      /\ \A u \in Workers \ {t} : descriptor'[u] = descriptor[u]
    BY DEF End, Typed, Threads, Alive
<1>2. CASE descriptor[t].detached
  <2>1. descriptor'[t].status = "none" /\ used' = used - 1
      BY <1>1, <1>2 DEF End, Typed, NoThread
  <2> QED BY <1>1, <2>1 DEF Alive
<1>3. CASE ~descriptor[t].detached
  <2>1. descriptor'[t].status = "ended" /\ used' = used
      BY <1>1, <1>3 DEF End, Typed, NoThread
  <2> QED BY <1>1, <2>1 DEF Alive
<1> QED BY <1>2, <1>3

LEMMA WorkerInPool ==
    ASSUME Typed, NEW t \in Workers, Step(t)
    PROVE  \/ Alive' = Alive /\ used' = used
           \/ t \in Alive /\ Alive' = Alive \ {t} /\ used' = used - 1
<1>0. t \in Threads /\ DOMAIN descriptor[t] = DOMAIN NoThread
      /\ \A u \in Workers : u \in Threads
    BY DEF Threads, Typed
<1>1. CASE \/ SetFlag(t) \/ ClearFlag(t) \/ AwaitFlag(t) \/ Zassert(t) \/ TestedCancel(t)
           \/ Slept(t) \/ Again(t) \/ NameThread(t) \/ Ask(t) \/ Locked(t) \/ Unlock(t)
           \/ Wait(t) \/ Wake(t) \/ Signal(t)
    BY <1>1
       DEF SetFlag, ClearFlag, AwaitFlag, Zassert, TestedCancel, Slept, Again, NameThread, Ask,
           Locked, Unlock, Wait, Wake, Signal, threads, Alive
<1>2. CASE PushHandler(t) \/ PopHandler(t) \/ SetCancelState(t) \/ DetachSelf(t)
           \/ CancelThread(t)
  <2>1. /\ used' = used
        /\ \A u \in Workers : descriptor'[u].status = descriptor[u].status
      BY <1>0, <1>2, Fields
         DEF PushHandler, PopHandler, SetCancelState, DetachSelf, CancelThread, Typed
  <2> QED BY <2>1 DEF Alive
<1>3. CASE Exiting(t) \/ ReturnFrom(t) \/ Canceled(t)
  <2>1. descriptor[t].status = "running" /\ \E v : End(t, v)
      BY <1>3 DEF Exiting, ReturnFrom, Returning, Canceled, EndWithHandlers, Runs
  <2> QED BY <2>1, EndGivesBack
<1> QED BY <1>1, <1>2, <1>3 DEF Step

LEMMA MainStepInPool ==
    ASSUME Typed, Step(Main)
    PROVE  Alive' = Alive /\ used' = used
<1>1. \A o : Runs(Main, o) =>
          o \notin {"exit", "exit_if", "return", "return_if", "test_cancel", "sleep"}
    BY MainGoes
<1>2. ~Exiting(Main) /\ ~ReturnFrom(Main) /\ ~Canceled(Main)
    BY <1>1 DEF Exiting, ReturnFrom, Returning, Canceled
<1>3. used' = used
    BY <1>2
       DEF Step, SetFlag, ClearFlag, AwaitFlag, Zassert, PushHandler, PopHandler, TestedCancel,
           Slept, Again, SetCancelState, CancelThread, DetachSelf, NameThread, Ask, Locked,
           Unlock, Wait, Wake, Signal, threads
<1>4. \A u \in Workers : descriptor'[u].status = descriptor[u].status
    BY MainAndNamed, StepKeepsOthers DEF Threads, Workers, Terminating, Main
<1> QED BY <1>3, <1>4 DEF Alive

\* Main joins, and creates, by these actions only.
LEMMA MainStepDoesNotJoin ==
    ASSUME SuiteIInv, NameIInv, Step(Main)
    PROVE  \A t \in Workers : Lives(t, ip[Main]) => Lives(t, ip[Main] + 1)
<1>0. Programs[Main] = MainProgram
    BY DEF Programs, Threads, Terminating, Main
<1>1. ip[Main] \in 1..Len(MainProgram) /\ Instruction(Main).op # "join"
  <2>1. CASE mode[Main] = "run"
    <3>1. /\ Runs(Main, Instruction(Main).op)
          /\ Instruction(Main).op \notin {"create", "join"}
        BY <2>1, MainAndNamed, StepOfRunning
    <3> QED BY <3>1, MainRuns
  <2>2. CASE mode[Main] # "run"
    <3>1. ip[Main] \in Int /\ ExecutionAt \in Nat
        BY MainAndNamed, ExecutionAtIsNat DEF SuiteIInv
    <3>2. ip[Main] > ExecutionAt
        BY <2>2, <3>1, MainAndNamed DEF SuiteIInv, NotNamed
    <3>3. PICK k \in 0..7 : ip[Main] = NameTestBegin + k /\ k \in {0, 2}
        BY <2>2, <3>2
           DEF NameIInv, Phases, MainAlone, MainSleeps, NamedSleeps, NamedEnds, NamedGone,
               Meeting
    <3>4. Instruction(Main).op = MainCall(k)
        BY <3>3, MainInTest
    <3>5. NameTestBegin + k \in 1..Len(MainProgram)
      <4>1. Len(MainProgram) = ExecutionAt + 34
          BY MainProgramPlaces
      <4> QED BY <3>1, <3>3, <4>1, NameTestBeginsBehind
    <3> QED BY <3>3, <3>4, <3>5 DEF MainCall
  <2> QED BY <2>1, <2>2
<1>2. MainProgram[ip[Main]].op # "join"
    BY <1>0, <1>1 DEF Instruction
<1> QED BY <1>1, <1>2, EveryPlace DEF WellPaired, JoinsThere

LEMMA ThreeAtMost ==
    ASSUME NEW x, NEW y, NEW z
    PROVE  IsFiniteSet({x, y, z}) /\ Cardinality({x, y, z}) <= 3
<1> DEFINE AtMost(S, n) == IsFiniteSet(S) /\ Cardinality(S) \in Nat /\ Cardinality(S) <= n
<1>1. ASSUME NEW S, NEW e, NEW n \in Nat, AtMost(S, n) PROVE AtMost(S \cup {e}, n + 1)
  <2>1. IsFiniteSet(S \cup {e}) /\ Cardinality(S \cup {e}) \in {Cardinality(S), Cardinality(S) + 1}
      BY <1>1, FS_AddElement
  <2> QED BY <1>1, <2>1
<1>2. AtMost({}, 0)
    BY FS_EmptySet
<1>3. {} \cup {x} = {x} /\ {x} \cup {y} = {x, y} /\ {x, y} \cup {z} = {x, y, z}
      /\ 0 + 1 = 1 /\ 1 + 1 = 2 /\ 2 + 1 = 3
    OBVIOUS
<1> HIDE DEF AtMost
<1>4. AtMost({} \cup {x}, 0 + 1)
    BY <1>1, <1>2
<1>5. AtMost({x} \cup {y}, 1 + 1)
    BY <1>1, <1>3, <1>4
<1>6. AtMost({x, y} \cup {z}, 2 + 1)
    BY <1>1, <1>3, <1>5
<1>7. AtMost({x, y, z}, 3)
    BY <1>3, <1>6
<1> QED BY <1>7 DEF AtMost

LEMMA WorkersAreFinite == IsFiniteSet(Workers)
<1>1. Workers = {"explicit", "pexit", "cancelsync"} \cup {"return", "leak", "named"}
                \cup {"self", "ext1", "ext2"} \cup {"term0", "term1", "term2"}
                \cup {"term3", "term3", "term3"}
    BY WorkerNames
<1> QED BY <1>1, ThreeAtMost, FS_Union

LEMMA PoolIInvTestStep ==
    ASSUME SuiteIInv, NameIInv, PoolIInv, Next
    PROVE  PoolIInv'
<1>0. Typed /\ ip[Main] \in Int /\ IsFiniteSet(Alive) /\ Alive \subseteq Workers
  <2>1. IsFiniteSet(Workers) /\ Alive \subseteq Workers
      BY WorkersAreFinite DEF Alive
  <2> QED BY <2>1, FS_Subset, MainAndNamed DEF SuiteIInv, NameIInv, Typed
<1>1. ASSUME NEW t \in Workers, Step(t) PROVE PoolIInv'
  <2>1. ip'[Main] = ip[Main]
      BY <1>0, <1>1, MainAndNamed, StepKeepsOthers DEF Threads, Workers, Terminating, Main
  <2>2. CASE Alive' = Alive /\ used' = used
      BY <2>1, <2>2 DEF PoolIInv
  <2>3. CASE t \in Alive /\ Alive' = Alive \ {t} /\ used' = used - 1
    <3>1. Cardinality(Alive') = Cardinality(Alive) - 1
        BY <1>0, <2>3, FS_RemoveElement
    <3> QED BY <2>1, <2>3, <3>1 DEF PoolIInv
  <2> QED BY <1>0, <1>1, <2>2, <2>3, WorkerInPool
<1>2. CASE Step(Main)
  <2>1. ip'[Main] \in {ip[Main], ip[Main] + 1}
      BY MainGoesOn DEF SuiteIInv
  <2> QED BY <1>0, <1>2, <2>1, MainStepInPool, MainStepDoesNotJoin DEF PoolIInv
<1>3. CASE CreateThread
  <2> DEFINE p == ip[Main]
             t == On(Main)
  <2>1. /\ p \in 1..Len(MainProgram) /\ Creates(t, p) /\ t \in Workers /\ WellPaired(p)
    <3>1. /\ p \in 1..Len(MainProgram) /\ MainProgram[p].op = "create"
          /\ Instruction(Main) = MainProgram[p]
        BY <1>3, MainRuns DEF CreateThread
    <3>2. WellPaired(p)
        BY <3>1, EveryPlace
    <3> QED BY <3>1, <3>2 DEF WellPaired, Creates, On
  <2>2. /\ ip'[Main] = p + 1 /\ used' = used + 1
        /\ t \in Threads /\ descriptor' = [descriptor EXCEPT ![t].status = "running"]
      BY <1>0, <1>3, <2>1, MainAndNamed DEF CreateThread, Advance, Typed, Threads
  <2> HIDE DEF p, t
  <2>3. t \notin Alive
      BY <2>1 DEF PoolIInv, WellPaired, p
  <2>4. Alive' = Alive \cup {t}
    <3>1. /\ \A u \in Workers : u \in Threads
          /\ descriptor'[t].status = "running"
          /\ \A u \in Workers \ {t} : descriptor'[u] = descriptor[u]
        BY <1>0, <2>2, Fields DEF Typed, Threads
    <3> QED BY <2>1, <3>1 DEF Alive
  <2>5. Cardinality(Alive') = Cardinality(Alive) + 1
      BY <1>0, <2>3, <2>4, FS_AddElement
  <2>6. \A u \in Workers : Lives(u, p) => Lives(u, p + 1)
      BY <2>1 DEF WellPaired, Creates, JoinsThere
  <2> QED BY <1>0, <2>1, <2>2, <2>4, <2>5, <2>6 DEF PoolIInv, WellPaired, p
<1>4. CASE JoinThread
  <2> DEFINE p == ip[Main]
             t == On(Main)
  <2>1. /\ p \in 1..Len(MainProgram) /\ t \in Workers /\ WellPaired(p)
        /\ MainProgram[p].on = t
    <3>1. /\ p \in 1..Len(MainProgram) /\ MainProgram[p].op = "join"
          /\ Instruction(Main) = MainProgram[p]
        BY <1>4, MainRuns DEF JoinThread
    <3>2. WellPaired(p)
        BY <3>1, EveryPlace
    <3> QED BY <3>1, <3>2 DEF WellPaired, On
  <2>2. /\ ip'[Main] = p + 1 /\ used' = used - 1 /\ descriptor[t].status = "ended"
        /\ t \in Threads /\ descriptor' = [descriptor EXCEPT ![t] = NoThread]
      BY <1>0, <1>4, <2>1, MainAndNamed DEF JoinThread, Advance, Typed, Threads
  <2> HIDE DEF p, t
  <2>3. t \in Alive
      BY <2>1, <2>2 DEF Alive
  <2>4. Alive' = Alive \ {t}
    <3>1. /\ \A u \in Workers : u \in Threads
          /\ descriptor'[t].status = "none"
          /\ \A u \in Workers \ {t} : descriptor'[u] = descriptor[u]
        BY <1>0, <2>2 DEF Typed, Threads, NoThread
    <3> QED BY <2>1, <3>1 DEF Alive
  <2>5. Cardinality(Alive') = Cardinality(Alive) - 1
      BY <1>0, <2>3, <2>4, FS_RemoveElement
  <2>6. \A u \in Workers \ {t} : Lives(u, p) => Lives(u, p + 1)
      BY <2>1 DEF WellPaired, JoinsThere
  <2> QED BY <1>0, <2>2, <2>4, <2>5, <2>6 DEF PoolIInv, p
<1> QED BY <1>1, <1>2, <1>3, <1>4 DEF Next, MainThread

LEMMA PoolIInvNext ==
    ASSUME SuiteIInv, NameIInv, PoolIInv, [SuiteNext]_suiteVars
    PROVE  PoolIInv'
<1>1. CASE UNCHANGED <<ip, descriptor, used>>
    BY <1>1 DEF PoolIInv, Alive
<1>2. CASE ExecutionEnds \/ JoinsEnd
  <2>1. /\ UNCHANGED threads /\ ip'[Main] = ip[Main] + 1
        /\ \/ Runs(Main, "execution")
           \/ Runs(Main, "joins")
      BY <1>2, MainAndNamed
         DEF ExecutionEnds, JoinsEnd, Executing, Joining, Advance, SuiteIInv
  <2>2. ip[Main] \in 1..Len(MainProgram) /\ MainProgram[ip[Main]].op \in {"execution", "joins"}
      BY <2>1, MainRuns
  <2>3. \A t \in Workers : Lives(t, ip[Main]) => Lives(t, ip[Main] + 1)
      BY <2>2, EveryPlace DEF WellPaired, JoinsThere
  <2> QED BY <2>1, <2>3 DEF PoolIInv, Alive, threads
<1>3. CASE TestStep
    BY <1>3, PoolIInvTestStep DEF TestStep
<1>4. CASE ExecutionStep \/ JoinStep \/ Finished \/ UNCHANGED suiteVars
    BY <1>1, <1>4 DEF ExecutionStep, JoinStep, Finished, suiteVars, vars, testVars, threads
<1> QED BY <1>2, <1>3, <1>4 DEF SuiteNext

LEMMA InitPoolIInv == SuiteInit => PoolIInv
<1> SUFFICES ASSUME SuiteInit PROVE PoolIInv
    OBVIOUS
<1>1. Alive = {} /\ used = 0
  <2>1. \A t \in Workers : descriptor[t].status = "none"
      BY DEF SuiteInit, Init, NoThread, Threads, Workers, Terminating, Main
  <2> QED BY <2>1 DEF Alive, SuiteInit, Init
<1> QED BY <1>1, FS_EmptySet DEF PoolIInv

\* The pool has given out a descriptor for each thread that runs or has still
\* to be joined, and to no other, and where main is says which these can be.
THEOREM AlwaysPoolIInv == Spec => []PoolIInv
<1>1. SuiteInit => PoolIInv
    BY InitPoolIInv
<1>2. SuiteIInv /\ NameIInv /\ PoolIInv /\ [SuiteNext]_suiteVars => PoolIInv'
    BY PoolIInvNext
<1> QED BY <1>1, <1>2, AlwaysNameIInv, PTL DEF Spec

\* A pool of four descriptors is enough for every test to have the threads it
\* creates, whenever the detached ones of test_pthread_termination end, if it
\* is enough for the N_THR_E threads of test_pthread_execution.
THEOREM AlwaysPoolSuffices ==
    ASSUME MaxThreads >= 4, N_THR_E <= MaxThreads
    PROVE  Spec => []PoolSuffices
<1>1. ASSUME PoolIInv PROVE PoolSuffices
  <2>1. ASSUME NEW x, NEW y, NEW z, Alive \subseteq {x, y, z}
        PROVE  used <= 3
    <3>1. IsFiniteSet({x, y, z}) /\ Cardinality({x, y, z}) <= 3
        BY ThreeAtMost
    <3>2. /\ Cardinality(Alive) <= Cardinality({x, y, z}) /\ used = Cardinality(Alive)
          /\ Cardinality(Alive) \in Nat /\ Cardinality({x, y, z}) \in Nat
        BY <1>1, <2>1, <3>1, FS_Subset, FS_CardinalityType DEF PoolIInv
    <3> QED BY <3>1, <3>2
  <2>2. ASSUME Runs(Main, "create") PROVE used <= 3
    <3>1. ip[Main] \in 1..Len(MainProgram) /\ MainProgram[ip[Main]].op = "create"
        BY <2>2, MainRuns
    <3>2. AtMostThree(ip[Main])
        BY <3>1, EveryPlace DEF WellPaired, Creates
    <3>3. \/ Alive \subseteq {"term0", "term1", "term2"}
          \/ Alive \subseteq {"term2", "term3", "term3"}
        BY <1>1, <3>2 DEF PoolIInv, AtMostThree, Alive
    <3> QED BY <2>1, <3>3
  <2>3. ASSUME Executing PROVE used = 0
    <3>1. ip[Main] = ExecutionAt + 0
        BY <2>3, ExecutingIsAt, ExecutionAtIsNat
    <3>2. Alive = {}
        BY <1>1, <3>1, LiveLate DEF PoolIInv, LiveAt, Alive
    <3> QED BY <1>1, <3>2, FS_EmptySet DEF PoolIInv
  <2>4. ASSUME Joining PROVE used <= 3
    <3>1. ip[Main] \in 1..Len(MainProgram) /\ MainProgram[ip[Main]].op = "joins"
        BY <2>4, MainRuns DEF Joining
    <3>2. Alive \subseteq {"term2", "term3", "term3"}
        BY <1>1, <3>1, EveryPlace DEF PoolIInv, WellPaired, Alive
    <3> QED BY <2>1, <3>2
  <2>5. used \in Nat /\ MaxThreads \in Int /\ N_THR_E \in Int
      BY <1>1, WorkersAreFinite, FS_Subset, FS_CardinalityType
         DEF PoolIInv, Alive, Execution!BounceAssumption
  <2> QED BY <2>2, <2>3, <2>4, <2>5 DEF PoolSuffices
<1> QED BY <1>1, AlwaysPoolIInv, PTL

-----------------------------------------------------------------------------
(* What each thread is checked for: the tests of clean-up, descriptors,     *)
(* names, termination and cancellation.                                     *)

\* The last place that each thread comes to.
LastOf(t) ==
    CASE t = "leak" -> 1
      [] t \in {"pexit", "return", "ext2", "term0"} -> 3
      [] t \in {"cancelsync", "term1"} -> 4
      [] t = "term2" -> 5
      [] t = "term3" -> 6
      [] t = "explicit" -> 7
      [] t = "self" -> 8
      [] OTHER -> 9

\* What a thread has made of its descriptor where it is: its cancel state,
\* whether it is detached, whether it has cancelled itself, and its handlers.
StateAt(t, n) ==
    IF \/ t \in {"term1", "term3"} /\ n >= 2
       \/ t = "self" /\ n \in 2..6
       \/ t = "ext1" /\ n \in 2..5
    THEN "disabled" ELSE "enabled"

DetachedAt(t, n) == (t = "term2" /\ n >= 2) \/ (t = "term3" /\ n >= 3)

CancelsItself(t, n) ==
    \/ t = "term0" /\ n >= 2
    \/ t = "term1" /\ n >= 3
    \/ t = "term2" /\ n >= 4
    \/ t = "term3" /\ n >= 5
    \/ t = "self" /\ n >= 6

Handlers(t) ==
    CASE t = "explicit" -> <<"explicit0", "explicit1">>
      [] t = "pexit" -> <<"pexit0", "pexit1">>
      [] t = "cancelsync" -> <<"cancelsync0", "cancelsync1">>
      [] t = "return" -> <<"return0", "return1">>
      [] OTHER -> <<>>

HandlersAt(t, n) ==
    IF t \notin {"explicit", "pexit", "cancelsync", "return"} \/ n = 1 THEN <<>>
    ELSE IF t = "explicit" /\ n >= 5 THEN <<>>
    ELSE IF n = 2 \/ (t = "explicit" /\ n = 4) THEN <<Handlers(t)[1]>>
    ELSE Handlers(t)

\* The flags that a thread has set where it is, and when it has ended.
FlagsAt(t, n) ==
    CASE t = "explicit" /\ n >= 5 -> {"explicit0"}
      [] t = "named" /\ n >= 8 -> {"name"}
      [] t = "self" /\ n >= 5 -> {"ignored"}
      [] t = "ext1" /\ n \in 5..6 -> {"ignored"}
      [] t = "ext1" /\ n >= 7 -> {"ignored", "ENABLED"}
      [] OTHER -> {}

Left(t) ==
    CASE t = "pexit" -> {"pexit0", "pexit1"}
      [] t = "cancelsync" -> {"cancelsync0", "cancelsync1"}
      [] t = "named" -> {"name"}
      [] t \in {"self", "ext1"} -> {"ignored"}
      [] OTHER -> {}

\* The flags that it may set and clear on its way, those that nobody ever sets,
\* and the results that it may have.
Sets(t) == FlagsAt(t, 9) \cup Left(t)
Clears(t) == IF t \in {"self", "ext1", "ext2"} THEN {"ignored", "failed"} ELSE {}
NeverSet == {"explicit1", "return0", "return1", "failed"}
Results(t) ==
    CASE t \in {"pexit", "return"} -> {"executed"}
      [] t \in {"cancelsync", "self", "ext1", "ext2"} -> {"CANCELED"}
      [] t \in Terminating -> {"p1", "CANCELED"}
      [] OTHER -> {"NULL"}

\* Main has cancelled the thread.
MainCancels(t, p) ==
    \/ t = "cancelsync" /\ p >= 10
    \/ t = "ext1" /\ p >= ExecutionAt + 26
    \/ t = "ext2" /\ p >= ExecutionAt + 32

\* The descriptor of a thread, and the flags it has set.
WorkerInv(t) ==
    LET d == descriptor[t]
        n == ip[t] IN
    /\ n \in 1..LastOf(t)
    /\ d.status \in {"none", "running", "ended"}
    /\ d.detached \in BOOLEAN /\ d.pending \in BOOLEAN
    /\ d.status = "running" =>
          /\ d.result = "NULL" /\ d.state = StateAt(t, n) /\ d.cleanup = HandlersAt(t, n)
          /\ d.detached <=> DetachedAt(t, n)
          /\ d.pending <=> CancelsItself(t, n) \/ MainCancels(t, ip[Main])
          /\ FlagsAt(t, n) \subseteq flags
    /\ d.status # "running" =>
          /\ n = 1 /\ d.state = "enabled" /\ ~d.detached /\ ~d.pending /\ d.cleanup = <<>>
          /\ d.result \in IF d.status = "ended" THEN Results(t) ELSE {"NULL"}
    /\ d.status = "ended" =>
          /\ Left(t) \subseteq flags
          /\ t \in {"cancelsync", "ext1", "ext2"} => MainCancels(t, ip[Main])

\* Main is not ahead of those that it waits for or cancels, and the other way
\* round: ext1 waits for main behind its own flag.
MeetingInv ==
    LET p == ip[Main]
        e == ExecutionAt
        There(t) == descriptor[t].status = "running" IN
    /\ p = 9 => There("cancelsync")
    /\ p = e + 31 => There("ext2")
    /\ p \in e + 22..e + 25 /\ "ENABLED" \in flags => There("ext1") /\ ip["ext1"] >= 7
    /\ p \in e + 23..e + 26 => "SET" \notin flags
    /\ There("ext1") /\ ip["ext1"] >= 8 => p >= e + 27

\* The flags that are set where main is.
MainFlags(p) ==
    LET e == ExecutionAt IN
    (IF p >= 4 THEN {"CLEANUP_DONE"} ELSE {})
    \cup (IF p >= 6 THEN {"pexit0", "pexit1"} ELSE {})
    \cup (IF p >= 11 THEN {"cancelsync0", "cancelsync1"} ELSE {})
    \cup (IF p = e + 9 THEN {"name"} ELSE {})
    \cup (IF p = e + 25 THEN {"ENABLED"} ELSE {})
    \cup (IF p \in {e + 19, e + 28} THEN {"ignored"} ELSE {})

\* The name of the thread that is named.
NamesInv ==
    /\ ip[Main] >= ExecutionAt + 5 /\ descriptor["named"].status = "running" /\ ip["named"] <= 5 =>
          name["named"] = "Create"
    /\ ip["named"] = 6 => name["named"] = "Changed"

\* Main and its own descriptor.
MainInv ==
    /\ ip[Main] \in 1..Len(MainProgram) + 1
    /\ mode \in [Threads -> {"run", "ask", "asleep"}]
    /\ name \in [Threads -> {"", "Create", "Changed"}]
    /\ descriptor[Main] = [NoThread EXCEPT !.status = "running"]

ChecksIInv ==
    /\ MainInv /\ MeetingInv /\ NamesInv
    /\ \A t \in Workers : WorkerInv(t)
    /\ flags \subseteq Flags \ NeverSet
    /\ MainFlags(ip[Main]) \subseteq flags

\* The programs of the threads say nothing of the constants.
HIDE SuiteAssumption

-----------------------------------------------------------------------------
(* The programs of the other threads, place by place                        *)

Program(t, s) ==
    /\ DOMAIN Programs[t] = 1..Len(s)
    /\ \A n \in 1..Len(s) : Programs[t][n] = s[n]

LEMMA ShortPrograms ==
    /\ Program("explicit", <<Push("explicit0"), Push("explicit1"), Pop("false"), Pop("true"),
                             Check("explicit0"), CheckNot("explicit1"), Return("NULL")>>)
    /\ Program("pexit", <<Push("pexit0"), Push("pexit1"), ExitIf("CLEANUP_DONE", "executed"),
                          Pop("false"), Pop("false"), Unreachable>>)
    /\ Program("return", <<Push("return0"), Push("return1"),
                           ReturnIf("CLEANUP_DONE", "executed"),
                           Pop("true"), Pop("true"), Unreachable>>)
    /\ Program("leak", <<Return("NULL")>>)
    /\ Program("named", NamedProgram)
    /\ Program("self", SelfProgram)
    /\ Program("ext1", Ext1Program)
<1>1. /\ Programs["explicit"] = ExplicitProgram /\ Programs["pexit"] = PexitProgram
      /\ Programs["return"] = ReturnProgram /\ Programs["leak"] = <<Return("NULL")>>
      /\ Programs["named"] = NamedProgram
      /\ Programs["self"] = SelfProgram /\ Programs["ext1"] = Ext1Program
    BY DEF Programs, Threads, Workers, Terminating, Main
<1>2. Program("explicit", ExplicitProgram)
    BY <1>1 DEF Program, ExplicitProgram
<1>3. Program("pexit", PexitProgram)
    BY <1>1 DEF Program, PexitProgram
<1>4. Program("return", ReturnProgram)
    BY <1>1 DEF Program, ReturnProgram
<1>5. Program("leak", <<Return("NULL")>>)
    BY <1>1 DEF Program
<1>6. Program("named", NamedProgram)
    BY <1>1 DEF Program, NamedProgram
<1>7. Program("self", SelfProgram)
    BY <1>1 DEF Program, SelfProgram
<1>8. Program("ext1", Ext1Program)
    BY <1>1 DEF Program, Ext1Program
<1> QED BY <1>2, <1>3, <1>4, <1>5, <1>6, <1>7, <1>8 DEF ExplicitProgram, PexitProgram, ReturnProgram

LEMMA CancelsyncPlaces ==
    Program("cancelsync", <<Push("cancelsync0"), Push("cancelsync1"), TestCancel, Call("again")>>)
<1> DEFINE a == <<Push("cancelsync0"), Push("cancelsync1")>>
<1>1. Programs["cancelsync"] = a \o TestCancelForEver
    BY DEF Programs, Threads, Workers, Terminating, Main, CancelsyncProgram
<1>2. DOMAIN (a \o TestCancelForEver) = 1..4
    BY DEF TestCancelForEver
<1>3. /\ (a \o TestCancelForEver)[1] = Push("cancelsync0")
      /\ (a \o TestCancelForEver)[2] = Push("cancelsync1")
      /\ (a \o TestCancelForEver)[3] = TestCancel
      /\ (a \o TestCancelForEver)[4] = Call("again")
    BY DEF TestCancelForEver
<1> HIDE DEF a
<1> QED BY <1>1, <1>2, <1>3 DEF Program

LEMMA Ext2Places == Program("ext2", <<Clear("failed"), TestCancel, Call("again")>>)
<1> DEFINE a == <<Clear("failed")>>
<1>1. Programs["ext2"] = a \o TestCancelForEver
    BY DEF Programs, Threads, Workers, Terminating, Main, Ext2Program
<1>2. DOMAIN (a \o TestCancelForEver) = 1..3
    BY DEF TestCancelForEver
<1>3. /\ (a \o TestCancelForEver)[1] = Clear("failed")
      /\ (a \o TestCancelForEver)[2] = TestCancel
      /\ (a \o TestCancelForEver)[3] = Call("again")
    BY DEF TestCancelForEver
<1> HIDE DEF a
<1> QED BY <1>1, <1>2, <1>3 DEF Program

LEMMA TermPlaces ==
    /\ Program("term0", <<Cancel("term0", "ok"), Call("sleep"), Exit("p1")>>)
    /\ Program("term1", <<CancelState("disabled"), Cancel("term1", "ok"), Call("sleep"),
                          Exit("p1")>>)
    /\ Program("term2", <<Detach("ok"), Detach("EINVAL"), Cancel("term2", "ok"), Call("sleep"),
                          Exit("p1")>>)
    /\ Program("term3", <<CancelState("disabled"), Detach("ok"), Detach("EINVAL"),
                          Cancel("term3", "ok"), Call("sleep"), Exit("p1")>>)
<1> DEFINE s == <<CancelState("disabled")>>
           d == <<Detach("ok"), Detach("EINVAL")>>
           c(t) == <<Cancel(t, "ok"), Call("sleep"), Exit("p1")>>
<1>1. Programs["term0"] = <<>> \o <<>> \o c("term0")
    BY DEF Programs, Threads, Workers, Terminating, Main, TermProgram
<1>2. Programs["term1"] = s \o <<>> \o c("term1")
    BY DEF Programs, Threads, Workers, Terminating, Main, TermProgram
<1>3. Programs["term2"] = <<>> \o d \o c("term2")
    BY DEF Programs, Threads, Workers, Terminating, Main, TermProgram
<1>4. Programs["term3"] = s \o d \o c("term3")
    BY DEF Programs, Threads, Workers, Terminating, Main, TermProgram
<1>5. DOMAIN (<<>> \o <<>> \o c("term0")) = 1..3
      /\ \A n \in 1..3 : (<<>> \o <<>> \o c("term0"))[n] = c("term0")[n]
    OBVIOUS
<1>6. /\ DOMAIN (s \o <<>> \o c("term1")) = 1..4
      /\ (s \o <<>> \o c("term1"))[1] = s[1]
      /\ \A n \in 1..3 : (s \o <<>> \o c("term1"))[1 + n] = c("term1")[n]
    OBVIOUS
<1>7. /\ DOMAIN (<<>> \o d \o c("term2")) = 1..5
      /\ \A n \in 1..2 : (<<>> \o d \o c("term2"))[n] = d[n]
      /\ \A n \in 1..3 : (<<>> \o d \o c("term2"))[2 + n] = c("term2")[n]
    OBVIOUS
<1>8. /\ DOMAIN (s \o d \o c("term3")) = 1..6
      /\ (s \o d \o c("term3"))[1] = s[1]
      /\ \A n \in 1..2 : (s \o d \o c("term3"))[1 + n] = d[n]
      /\ \A n \in 1..3 : (s \o d \o c("term3"))[3 + n] = c("term3")[n]
    OBVIOUS
<1>9. Program("term0", c("term0"))
    BY <1>1, <1>5 DEF Program
<1>10. Program("term1", <<s[1], c("term1")[1], c("term1")[2], c("term1")[3]>>)
    BY <1>2, <1>6 DEF Program
<1>11. Program("term2", <<d[1], d[2], c("term2")[1], c("term2")[2], c("term2")[3]>>)
    BY <1>3, <1>7 DEF Program
<1>12. Program("term3", <<s[1], d[1], d[2], c("term3")[1], c("term3")[2], c("term3")[3]>>)
    BY <1>4, <1>8 DEF Program
<1> QED BY <1>9, <1>10, <1>11, <1>12

\* What a thread other than main may do.
WorkerOps == {"set", "clear", "await", "check", "check_not", "check_name", "set_name", "push",
              "pop", "exit", "exit_if", "return", "return_if", "test_cancel", "sleep", "again",
              "cancel_state", "cancel", "detach", "lock", "unlock", "signal_cvar0", "wait_cvar1"}
Leaving == {"exit", "exit_if", "return", "return_if"}

\* The instruction at place n makes of the table above at n what it has at n + 1.
GoesOn(t, n, c) ==
    /\ n + 1 <= LastOf(t)
    /\ StateAt(t, n + 1) = IF c.op = "cancel_state" THEN c.on ELSE StateAt(t, n)
    /\ DetachedAt(t, n + 1) <=> c.op = "detach" \/ DetachedAt(t, n)
    /\ CancelsItself(t, n + 1) <=> c.op = "cancel" \/ CancelsItself(t, n)
    /\ HandlersAt(t, n + 1) = CASE c.op = "push" -> Append(HandlersAt(t, n), c.on)
                                [] c.op = "pop" -> Front(HandlersAt(t, n))
                                [] OTHER -> HandlersAt(t, n)
    /\ FlagsAt(t, n + 1) \subseteq
          FlagsAt(t, n) \cup (IF c.op = "set" THEN {c.on} ELSE {})
                        \cup (IF c.op = "pop" /\ c.on = "true" THEN {Last(HandlersAt(t, n))} ELSE {})
    /\ c.op = "clear" => c.on \notin FlagsAt(t, n + 1)

\* It goes back to where nothing was different.
GoesBack(t, n) ==
    /\ n - 1 \in 1..LastOf(t)
    /\ StateAt(t, n - 1) = StateAt(t, n) /\ HandlersAt(t, n - 1) = HandlersAt(t, n)
    /\ FlagsAt(t, n - 1) = FlagsAt(t, n)
    /\ DetachedAt(t, n - 1) <=> DetachedAt(t, n)
    /\ CancelsItself(t, n - 1) <=> CancelsItself(t, n)

\* It sets and clears nothing but what is the thread's.
OwnFlags(t, n, c) ==
    /\ c.op = "set" => c.on \in Sets(t)
    /\ c.op = "clear" => c.on \in Clears(t)
    /\ c.op = "pop" /\ c.on = "true" => Last(HandlersAt(t, n)) \in Sets(t) \ {"ENABLED"}
    /\ c.op = "set" /\ c.on = "ENABLED" => t = "ext1" /\ n = 6

\* It is an end as it should be, cancellation included.
Ends(t, n, c) ==
    /\ c.op \in {"exit", "exit_if", "test_cancel", "sleep"} =>
          /\ ToSet(HandlersAt(t, n)) \subseteq Sets(t) \ {"ENABLED"}
          /\ StateAt(t, n) = "enabled" \/ c.op \in Leaving =>
                Left(t) \subseteq FlagsAt(t, n) \cup ToSet(HandlersAt(t, n))
    /\ c.op \in {"return", "return_if"} => Left(t) \subseteq FlagsAt(t, n)
    /\ c.op \in {"exit", "return"} => c.on \in Results(t)
    /\ c.op \in {"exit_if", "return_if"} => c.want \in Results(t)
    /\ c.op \in {"test_cancel", "sleep"} => "CANCELED" \in Results(t)
    /\ c.op \in Leaving => t \notin {"cancelsync", "ext1", "ext2"}

\* What is checked holds by the place of the thread.
Checked(t, n, c) ==
    /\ c.op = "check" => c.on \in FlagsAt(t, n)
    /\ c.op = "check_not" => c.on \in NeverSet
    /\ c.op = "detach" => (c.want = "EINVAL" <=> DetachedAt(t, n))
    /\ c.op = "cancel" => c.on = t /\ c.want = "ok"
    /\ c.op \in {"exit_if", "return_if"} => t \in {"pexit", "return"} /\ c.on = "CLEANUP_DONE"
    /\ c.op = "await" => t = "ext1" /\ n = 7 /\ c.on = "SET"
    /\ t = "ext1" /\ n = 7 => c.op = "await"
    /\ c.op = "set_name" => t = "named" /\ n = 5 /\ c.on = "named" /\ c.want = "Changed"
    /\ c.op = "again" => t \in {"cancelsync", "ext2"}
    /\ t = "named" /\ n = 5 => c.op = "set_name"
    /\ c.op = "check_name" =>
          t = "named" /\ c.on = "named" /\ c.want = (IF n <= 4 THEN "Create" ELSE "Changed")
          /\ n \in {4, 6}

\* The last look of a thread at its cancellation.
CertainlyCancelled(t, n, c) ==
    /\ c.op = "test_cancel" /\ n = LastOf(t) /\ StateAt(t, n) = "enabled"
    /\ CancelsItself(t, n) \/ (t = "ext1" /\ n >= 8)

WellKept(t, n) ==
    LET c == Programs[t][n] IN
    /\ n \in DOMAIN Programs[t]
    /\ c.op \in WorkerOps
    /\ c.op \notin Leaving \cup {"again"} => GoesOn(t, n, c) \/ CertainlyCancelled(t, n, c)
    /\ c.op = "again" => GoesBack(t, n)
    /\ OwnFlags(t, n, c) /\ Ends(t, n, c) /\ Checked(t, n, c)
    /\ FlagsAt(t, n) \subseteq Sets(t)

LEMMA CallFields ==
    /\ \A op : Call(op).op = op
    /\ TestCancel.op = "test_cancel"
    /\ \A x, y :
          /\ Set(x).op = "set" /\ Set(x).on = x
          /\ Clear(x).op = "clear" /\ Clear(x).on = x
          /\ Await(x).op = "await" /\ Await(x).on = x
          /\ Check(x).op = "check" /\ Check(x).on = x
          /\ CheckNot(x).op = "check_not" /\ CheckNot(x).on = x
          /\ Push(x).op = "push" /\ Push(x).on = x
          /\ Pop(x).op = "pop" /\ Pop(x).on = x
          /\ Create(x).op = "create" /\ Create(x).on = x
          /\ Join(x, y).op = "join" /\ Join(x, y).on = x /\ Join(x, y).want = y
          /\ Cancel(x, y).op = "cancel" /\ Cancel(x, y).on = x /\ Cancel(x, y).want = y
          /\ Detach(x).op = "detach" /\ Detach(x).want = x
          /\ Exit(x).op = "exit" /\ Exit(x).on = x
          /\ Return(x).op = "return" /\ Return(x).on = x
          /\ ExitIf(x, y).op = "exit_if" /\ ExitIf(x, y).on = x /\ ExitIf(x, y).want = y
          /\ ReturnIf(x, y).op = "return_if" /\ ReturnIf(x, y).on = x /\ ReturnIf(x, y).want = y
          /\ CancelState(x).op = "cancel_state" /\ CancelState(x).on = x
          /\ SetName(x, y).op = "set_name" /\ SetName(x, y).on = x /\ SetName(x, y).want = y
          /\ CheckName(x, y).op = "check_name" /\ CheckName(x, y).on = x /\ CheckName(x, y).want = y
BY DEF Call, TestCancel, Set, Clear, Await, Check, CheckNot, Push, Pop, Create, Join, Cancel,
       Detach, Exit, Return, ExitIf, ReturnIf, CancelState, SetName, CheckName, Do

LEMMA HandlerSequences ==
    /\ \A x : /\ Append(<<>>, x) = <<x>> /\ Front(<<x>>) = <<>> /\ Last(<<x>>) = x
    /\ \A x, y : /\ Append(<<x>>, y) = <<x, y>> /\ Front(<<x, y>>) = <<x>>
                 /\ Last(<<x, y>>) = y /\ ToSet(<<x, y>>) = {x, y}
    /\ ToSet(<<>>) = {}
<1>1. \A x : Front(<<x>>) = <<>> /\ Last(<<x>>) = x
    BY DEF Front, Last
<1>2. ASSUME NEW x, NEW y PROVE Front(<<x, y>>) = <<x>>
  <2>1. /\ SubSeq(<<x, y>>, 1, 1) \in Seq({x, y}) /\ Len(SubSeq(<<x, y>>, 1, 1)) = 1
        /\ SubSeq(<<x, y>>, 1, 1)[1] = x
      OBVIOUS
  <2>2. <<x>> \in Seq({x, y}) /\ Len(<<x>>) = 1 /\ <<x>>[1] = x
      OBVIOUS
  <2>3. \A k \in 1..1 : SubSeq(<<x, y>>, 1, 1)[k] = <<x>>[k]
      BY <2>1, <2>2
  <2>4. SubSeq(<<x, y>>, 1, 1) = <<x>>
      BY <2>1, <2>2, <2>3, SeqEqual
  <2>5. Len(<<x, y>>) - 1 = 1
      OBVIOUS
  <2> QED BY <2>4, <2>5 DEF Front
<1>3. \A x, y : Last(<<x, y>>) = y
    BY DEF Last
<1>4. \A x, y : ToSet(<<x, y>>) = {x, y}
    BY DEF ToSet
<1>5. ToSet(<<>>) = {}
    BY DEF ToSet
<1> QED BY <1>1, <1>2, <1>3, <1>4, <1>5, ShortSequences

USE DEF LastOf, StateAt, DetachedAt, CancelsItself, Handlers, HandlersAt, FlagsAt

LEMMA ExplicitKept == \A n \in 1..LastOf("explicit") : WellKept("explicit", n)
<1> USE CallFields, HandlerSequences, ShortPrograms DEF Program, WellKept, GoesOn, GoesBack,
        OwnFlags, Ends, Checked, CertainlyCancelled, WorkerOps, Leaving, Results, Left, Sets,
        Clears, NeverSet, Terminating
<1>1. WellKept("explicit", 1)
    BY SMTT(60)
<1>2. WellKept("explicit", 2)
    BY SMTT(60)
<1>3. WellKept("explicit", 3)
    BY SMTT(60)
<1>4. WellKept("explicit", 4)
    BY SMTT(60)
<1>5. WellKept("explicit", 5)
    BY SMTT(60)
<1>6. WellKept("explicit", 6)
    BY SMTT(60)
<1>7. WellKept("explicit", 7)
    BY SMTT(60)
<1> HIDE DEF WellKept
<1> QED BY <1>1, <1>2, <1>3, <1>4, <1>5, <1>6, <1>7

LEMMA PexitKept == \A n \in 1..LastOf("pexit") : WellKept("pexit", n)
<1> USE CallFields, HandlerSequences, ShortPrograms DEF Program, WellKept, GoesOn, GoesBack,
        OwnFlags, Ends, Checked, CertainlyCancelled, WorkerOps, Leaving, Results, Left, Sets,
        Clears, NeverSet, Terminating
<1>1. WellKept("pexit", 1)
    BY SMTT(60)
<1>2. WellKept("pexit", 2)
    BY SMTT(60)
<1>3. WellKept("pexit", 3)
    BY SMTT(60)
<1> HIDE DEF WellKept
<1> QED BY <1>1, <1>2, <1>3

LEMMA CancelsyncKept == \A n \in 1..LastOf("cancelsync") : WellKept("cancelsync", n)
<1> USE CallFields, HandlerSequences, CancelsyncPlaces DEF Program, WellKept, GoesOn, GoesBack,
        OwnFlags, Ends, Checked, CertainlyCancelled, WorkerOps, Leaving, Results, Left, Sets,
        Clears, NeverSet, Terminating
<1>1. WellKept("cancelsync", 1)
    BY SMTT(60)
<1>2. WellKept("cancelsync", 2)
    BY SMTT(60)
<1>3. WellKept("cancelsync", 3)
    BY SMTT(60)
<1>4. WellKept("cancelsync", 4)
    BY SMTT(60)
<1> HIDE DEF WellKept
<1> QED BY <1>1, <1>2, <1>3, <1>4

LEMMA ReturnKept == \A n \in 1..LastOf("return") : WellKept("return", n)
<1> USE CallFields, HandlerSequences, ShortPrograms DEF Program, WellKept, GoesOn, GoesBack,
        OwnFlags, Ends, Checked, CertainlyCancelled, WorkerOps, Leaving, Results, Left, Sets,
        Clears, NeverSet, Terminating
<1>1. WellKept("return", 1)
    BY SMTT(60)
<1>2. WellKept("return", 2)
    BY SMTT(60)
<1>3. WellKept("return", 3)
    BY SMTT(60)
<1> HIDE DEF WellKept
<1> QED BY <1>1, <1>2, <1>3

LEMMA LeakKept == \A n \in 1..LastOf("leak") : WellKept("leak", n)
<1> USE CallFields, HandlerSequences, ShortPrograms DEF Program, WellKept, GoesOn, GoesBack,
        OwnFlags, Ends, Checked, CertainlyCancelled, WorkerOps, Leaving, Results, Left, Sets,
        Clears, NeverSet, Terminating
<1>1. WellKept("leak", 1)
    BY SMTT(60)
<1> HIDE DEF WellKept
<1> QED BY <1>1

LEMMA NamedKept == \A n \in 1..LastOf("named") : WellKept("named", n)
<1> USE CallFields, HandlerSequences, ShortPrograms DEF Program, NamedProgram, WellKept, GoesOn, GoesBack,
        OwnFlags, Ends, Checked, CertainlyCancelled, WorkerOps, Leaving, Results, Left, Sets,
        Clears, NeverSet, Terminating
<1>1. WellKept("named", 1)
    BY SMTT(60)
<1>2. WellKept("named", 2)
    BY SMTT(60)
<1>3. WellKept("named", 3)
    BY SMTT(60)
<1>4. WellKept("named", 4)
    BY SMTT(60)
<1>5. WellKept("named", 5)
    BY SMTT(60)
<1>6. WellKept("named", 6)
    BY SMTT(60)
<1>7. WellKept("named", 7)
    BY SMTT(60)
<1>8. WellKept("named", 8)
    BY SMTT(60)
<1>9. WellKept("named", 9)
    BY SMTT(60)
<1> HIDE DEF WellKept
<1> QED BY <1>1, <1>2, <1>3, <1>4, <1>5, <1>6, <1>7, <1>8, <1>9

LEMMA SelfKept == \A n \in 1..LastOf("self") : WellKept("self", n)
<1> USE CallFields, HandlerSequences, ShortPrograms DEF Program, SelfProgram, WellKept, GoesOn, GoesBack,
        OwnFlags, Ends, Checked, CertainlyCancelled, WorkerOps, Leaving, Results, Left, Sets,
        Clears, NeverSet, Terminating
<1>1. WellKept("self", 1)
    BY SMTT(60)
<1>2. WellKept("self", 2)
    BY SMTT(60)
<1>3. WellKept("self", 3)
    BY SMTT(60)
<1>4. WellKept("self", 4)
    BY SMTT(60)
<1>5. WellKept("self", 5)
    BY SMTT(60)
<1>6. WellKept("self", 6)
    BY SMTT(60)
<1>7. WellKept("self", 7)
    BY SMTT(60)
<1>8. WellKept("self", 8)
    BY SMTT(60)
<1> HIDE DEF WellKept
<1> QED BY <1>1, <1>2, <1>3, <1>4, <1>5, <1>6, <1>7, <1>8

LEMMA Ext1Kept == \A n \in 1..LastOf("ext1") : WellKept("ext1", n)
<1> USE CallFields, HandlerSequences, ShortPrograms DEF Program, Ext1Program, WellKept, GoesOn, GoesBack,
        OwnFlags, Ends, Checked, CertainlyCancelled, WorkerOps, Leaving, Results, Left, Sets,
        Clears, NeverSet, Terminating
<1>1. WellKept("ext1", 1)
    BY SMTT(60)
<1>2. WellKept("ext1", 2)
    BY SMTT(60)
<1>3. WellKept("ext1", 3)
    BY SMTT(60)
<1>4. WellKept("ext1", 4)
    BY SMTT(60)
<1>5. WellKept("ext1", 5)
    BY SMTT(60)
<1>6. WellKept("ext1", 6)
    BY SMTT(60)
<1>7. WellKept("ext1", 7)
    BY SMTT(60)
<1>8. WellKept("ext1", 8)
    BY SMTT(60)
<1>9. WellKept("ext1", 9)
    BY SMTT(60)
<1> HIDE DEF WellKept
<1> QED BY <1>1, <1>2, <1>3, <1>4, <1>5, <1>6, <1>7, <1>8, <1>9

LEMMA Ext2Kept == \A n \in 1..LastOf("ext2") : WellKept("ext2", n)
<1> USE CallFields, HandlerSequences, Ext2Places DEF Program, WellKept, GoesOn, GoesBack,
        OwnFlags, Ends, Checked, CertainlyCancelled, WorkerOps, Leaving, Results, Left, Sets,
        Clears, NeverSet, Terminating
<1>1. WellKept("ext2", 1)
    BY SMTT(60)
<1>2. WellKept("ext2", 2)
    BY SMTT(60)
<1>3. WellKept("ext2", 3)
    BY SMTT(60)
<1> HIDE DEF WellKept
<1> QED BY <1>1, <1>2, <1>3

LEMMA Term0Kept == \A n \in 1..LastOf("term0") : WellKept("term0", n)
<1> USE CallFields, HandlerSequences, TermPlaces DEF Program, WellKept, GoesOn, GoesBack,
        OwnFlags, Ends, Checked, CertainlyCancelled, WorkerOps, Leaving, Results, Left, Sets,
        Clears, NeverSet, Terminating
<1>1. WellKept("term0", 1)
    BY SMTT(60)
<1>2. WellKept("term0", 2)
    BY SMTT(60)
<1>3. WellKept("term0", 3)
    BY SMTT(60)
<1> HIDE DEF WellKept
<1> QED BY <1>1, <1>2, <1>3

LEMMA Term1Kept == \A n \in 1..LastOf("term1") : WellKept("term1", n)
<1> USE CallFields, HandlerSequences, TermPlaces DEF Program, WellKept, GoesOn, GoesBack,
        OwnFlags, Ends, Checked, CertainlyCancelled, WorkerOps, Leaving, Results, Left, Sets,
        Clears, NeverSet, Terminating
<1>1. WellKept("term1", 1)
    BY SMTT(60)
<1>2. WellKept("term1", 2)
    BY SMTT(60)
<1>3. WellKept("term1", 3)
    BY SMTT(60)
<1>4. WellKept("term1", 4)
    BY SMTT(60)
<1> HIDE DEF WellKept
<1> QED BY <1>1, <1>2, <1>3, <1>4

LEMMA Term2Kept == \A n \in 1..LastOf("term2") : WellKept("term2", n)
<1> USE CallFields, HandlerSequences, TermPlaces DEF Program, WellKept, GoesOn, GoesBack,
        OwnFlags, Ends, Checked, CertainlyCancelled, WorkerOps, Leaving, Results, Left, Sets,
        Clears, NeverSet, Terminating
<1>1. WellKept("term2", 1)
    BY SMTT(60)
<1>2. WellKept("term2", 2)
    BY SMTT(60)
<1>3. WellKept("term2", 3)
    BY SMTT(60)
<1>4. WellKept("term2", 4)
    BY SMTT(60)
<1>5. WellKept("term2", 5)
    BY SMTT(60)
<1> HIDE DEF WellKept
<1> QED BY <1>1, <1>2, <1>3, <1>4, <1>5

LEMMA Term3Kept == \A n \in 1..LastOf("term3") : WellKept("term3", n)
<1> USE CallFields, HandlerSequences, TermPlaces DEF Program, WellKept, GoesOn, GoesBack,
        OwnFlags, Ends, Checked, CertainlyCancelled, WorkerOps, Leaving, Results, Left, Sets,
        Clears, NeverSet, Terminating
<1>1. WellKept("term3", 1)
    BY SMTT(60)
<1>2. WellKept("term3", 2)
    BY SMTT(60)
<1>3. WellKept("term3", 3)
    BY SMTT(60)
<1>4. WellKept("term3", 4)
    BY SMTT(60)
<1>5. WellKept("term3", 5)
    BY SMTT(60)
<1>6. WellKept("term3", 6)
    BY SMTT(60)
<1> HIDE DEF WellKept
<1> QED BY <1>1, <1>2, <1>3, <1>4, <1>5, <1>6

LEMMA AllKept == \A t \in Workers : \A n \in 1..LastOf(t) : WellKept(t, n)
<1> HIDE DEF LastOf
<1> QED BY WorkerNames, ExplicitKept, PexitKept, CancelsyncKept, ReturnKept, LeakKept, NamedKept, SelfKept,
           Ext1Kept, Ext2Kept, Term0Kept, Term1Kept, Term2Kept, Term3Kept

HIDE DEF LastOf, StateAt, DetachedAt, CancelsItself, Handlers, HandlersAt, FlagsAt

-----------------------------------------------------------------------------
(* What a step of a thread does                                             *)

Onward(t) ==
    \/ SetFlag(t) \/ ClearFlag(t) \/ AwaitFlag(t) \/ Zassert(t) \/ PushHandler(t) \/ PopHandler(t)
    \/ TestedCancel(t) \/ Slept(t) \/ SetCancelState(t) \/ CancelThread(t) \/ DetachSelf(t)
    \/ NameThread(t)
Synching(t) == Ask(t) \/ Locked(t) \/ Unlock(t) \/ Wait(t) \/ Wake(t) \/ Signal(t)

LEMMA StepKinds ==
    ASSUME NEW t, Step(t)
    PROVE  Onward(t) \/ Again(t) \/ Exiting(t) \/ ReturnFrom(t) \/ Canceled(t) \/ Synching(t)
BY DEF Step, Onward, Synching

\* It goes on, and has changed its own descriptor as its instruction says, and
\* the flags.
OnwardEffect(t, c) ==
    LET d == descriptor[t]
        e == descriptor'[t] IN
    /\ mode[t] = "run" /\ ip[t] \in DOMAIN Programs[t] /\ c = Programs[t][ip[t]]
    /\ c.op \notin Leaving \cup {"again"}
    /\ ip' = [ip EXCEPT ![t] = @ + 1] /\ mode' = mode
    /\ DOMAIN descriptor' = Threads
    /\ \A u \in Threads \ {t} : descriptor'[u] = descriptor[u]
    /\ e.status = "running" /\ e.result = d.result
    /\ e.state = IF c.op = "cancel_state" THEN c.on ELSE d.state
    /\ e.detached = IF c.op = "detach" THEN TRUE ELSE d.detached
    /\ e.pending = IF c.op = "cancel" THEN TRUE ELSE d.pending
    /\ e.cleanup = CASE c.op = "push" -> Append(d.cleanup, c.on)
                     [] c.op = "pop" -> Front(d.cleanup)
                     [] OTHER -> d.cleanup
    /\ flags' = CASE c.op = "set" -> flags \cup {c.on}
                  [] c.op = "clear" -> flags \ {c.on}
                  [] c.op = "pop" /\ c.on = "true" -> flags \cup {Last(d.cleanup)}
                  [] OTHER -> flags
    /\ name' = IF c.op = "set_name" THEN [name EXCEPT ![c.on] = c.want] ELSE name
    /\ c.op = "await" => c.on \in flags
    /\ c.op = "test_cancel" => ~Cancellable(t)

LEMMA OnwardFields ==
    ASSUME Typed, NEW t \in Threads, Onward(t), NEW c, c = Instruction(t),
           descriptor[t].status = "running", c.op = "cancel" => c.on = t
    PROVE  OnwardEffect(t, c)
<1> DEFINE d == descriptor[t]
           e == descriptor'[t]
<1>0. /\ DOMAIN descriptor = Threads
      /\ DOMAIN d = {"status", "result", "state", "pending", "detached", "cleanup"}
    BY Fields DEF Typed
<1>1. \A op : Runs(t, op) => /\ c.op = op /\ mode[t] = "run" /\ ip[t] \in DOMAIN Programs[t]
                             /\ c = Programs[t][ip[t]]
    BY DEF Runs, Instruction
<1> DEFINE New ==
             /\ e.status = "running" /\ e.result = d.result
             /\ e.state = IF c.op = "cancel_state" THEN c.on ELSE d.state
             /\ e.detached = IF c.op = "detach" THEN TRUE ELSE d.detached
             /\ e.pending = IF c.op = "cancel" THEN TRUE ELSE d.pending
             /\ e.cleanup = CASE c.op = "push" -> Append(d.cleanup, c.on)
                              [] c.op = "pop" -> Front(d.cleanup)
                              [] OTHER -> d.cleanup
           NewFlags == CASE c.op = "set" -> flags \cup {c.on}
                         [] c.op = "clear" -> flags \ {c.on}
                         [] c.op = "pop" /\ c.on = "true" -> flags \cup {Last(d.cleanup)}
                         [] OTHER -> flags
           NewName == IF c.op = "set_name" THEN [name EXCEPT ![c.on] = c.want] ELSE name
           Others == DOMAIN descriptor' = Threads /\ \A u \in Threads \ {t} : descriptor'[u] = descriptor[u]
<1>2. On(t) = c.on /\ Want(t) = c.want
    BY DEF On, Want
<1>3. /\ \E op : Runs(t, op) /\ op \notin Leaving \cup {"again"}
      /\ ip' = [ip EXCEPT ![t] = @ + 1] /\ mode' = mode
    BY DEF Onward, SetFlag, ClearFlag, AwaitFlag, Zassert, PushHandler, PopHandler, TestedCancel,
           Slept, SetCancelState, CancelThread, DetachSelf, NameThread, Advance, Leaving
<1>4. /\ mode[t] = "run" /\ ip[t] \in DOMAIN Programs[t] /\ c = Programs[t][ip[t]]
      /\ c.op \notin Leaving \cup {"again"}
    BY <1>1, <1>3
<1>5. ASSUME descriptor' = descriptor, c.op \notin {"cancel_state", "detach", "cancel", "push", "pop"}
      PROVE  New /\ Others
    BY <1>0, <1>5
<1>6. CASE SetFlag(t)
  <2>1. c.op = "set" /\ flags' = flags \cup {c.on} /\ name' = name /\ descriptor' = descriptor
      BY <1>1, <1>2, <1>6 DEF SetFlag, threads
  <2> QED BY <1>3, <1>4, <1>5, <2>1 DEF OnwardEffect
<1>7. CASE ClearFlag(t)
  <2>1. c.op = "clear" /\ flags' = flags \ {c.on} /\ name' = name /\ descriptor' = descriptor
      BY <1>1, <1>2, <1>7 DEF ClearFlag, threads
  <2> QED BY <1>3, <1>4, <1>5, <2>1 DEF OnwardEffect
<1>8. CASE AwaitFlag(t)
  <2>1. c.op = "await" /\ c.on \in flags /\ flags' = flags /\ name' = name /\ descriptor' = descriptor
      BY <1>1, <1>2, <1>8 DEF AwaitFlag, threads
  <2> QED BY <1>3, <1>4, <1>5, <2>1 DEF OnwardEffect
<1>9. CASE Zassert(t) \/ Slept(t)
  <2>1. c.op \in {"check", "check_not", "check_name", "sleep"} /\ flags' = flags /\ name' = name
        /\ descriptor' = descriptor
      BY <1>1, <1>9 DEF Zassert, Slept, threads
  <2> QED BY <1>3, <1>4, <1>5, <2>1 DEF OnwardEffect
<1>10. CASE NameThread(t)
  <2>1. c.op = "set_name" /\ flags' = flags /\ name' = [name EXCEPT ![c.on] = c.want]
        /\ descriptor' = descriptor
      BY <1>1, <1>2, <1>10 DEF NameThread, threads
  <2> QED BY <1>3, <1>4, <1>5, <2>1 DEF OnwardEffect
<1>11. CASE TestedCancel(t)
  <2>1. c.op = "test_cancel" /\ ~Cancellable(t) /\ flags' = flags /\ name' = name
        /\ descriptor' = descriptor
      BY <1>1, <1>11 DEF TestedCancel, threads
  <2> QED BY <1>3, <1>4, <1>5, <2>1 DEF OnwardEffect
<1>12. CASE PushHandler(t)
  <2>1. c.op = "push" /\ flags' = flags /\ name' = name
        /\ descriptor' = [descriptor EXCEPT ![t].cleanup = Append(@, c.on)]
      BY <1>1, <1>2, <1>12 DEF PushHandler
  <2>2. New /\ Others
      BY <1>0, <2>1
  <2> QED BY <1>3, <1>4, <2>1, <2>2 DEF OnwardEffect
<1>13. CASE PopHandler(t)
  <2>1. c.op = "pop" /\ name' = name
        /\ flags' = (IF c.on = "true" THEN flags \cup {Last(d.cleanup)} ELSE flags)
        /\ descriptor' = [descriptor EXCEPT ![t].cleanup = Front(@)]
      BY <1>1, <1>2, <1>13 DEF PopHandler
  <2>2. New /\ Others
      BY <1>0, <2>1
  <2> QED BY <1>3, <1>4, <2>1, <2>2 DEF OnwardEffect
<1>14. CASE SetCancelState(t)
  <2>1. c.op = "cancel_state" /\ flags' = flags /\ name' = name
        /\ descriptor' = [descriptor EXCEPT ![t].state = c.on]
      BY <1>1, <1>2, <1>14 DEF SetCancelState
  <2>2. New /\ Others
      BY <1>0, <2>1
  <2> QED BY <1>3, <1>4, <2>1, <2>2 DEF OnwardEffect
<1>15. CASE CancelThread(t)
  <2>1. c.op = "cancel" /\ flags' = flags /\ name' = name
        /\ descriptor' = [descriptor EXCEPT ![t].pending = TRUE]
      BY <1>1, <1>2, <1>15 DEF CancelThread
  <2>2. New /\ Others
      BY <1>0, <2>1
  <2> QED BY <1>3, <1>4, <2>1, <2>2 DEF OnwardEffect
<1>16. CASE DetachSelf(t)
  <2>1. c.op = "detach" /\ flags' = flags /\ name' = name
        /\ descriptor' = [descriptor EXCEPT ![t].detached = TRUE]
      BY <1>1, <1>2, <1>16 DEF DetachSelf
  <2>2. New /\ Others
      BY <1>0, <2>1
  <2> QED BY <1>3, <1>4, <2>1, <2>2 DEF OnwardEffect
<1> QED BY <1>6, <1>7, <1>8, <1>9, <1>10, <1>11, <1>12, <1>13, <1>14, <1>15, <1>16 DEF Onward

\* It ends, and its descriptor is as new, or holds its result.
LEMMA EndFields ==
    ASSUME Typed, NEW t \in Threads, NEW v, End(t, v)
    PROVE  LET e == descriptor'[t] IN
           /\ ip' = [ip EXCEPT ![t] = 1] /\ mode' = mode /\ name' = name
           /\ DOMAIN descriptor' = Threads
           /\ \A u \in Threads \ {t} : descriptor'[u] = descriptor[u]
           /\ e.state = "enabled" /\ e.detached = FALSE /\ e.pending = FALSE /\ e.cleanup = <<>>
           /\ descriptor[t].detached => e.status = "none" /\ e.result = "NULL"
           /\ ~descriptor[t].detached => e.status = "ended" /\ e.result = v
<1>1. CASE descriptor[t].detached
    BY <1>1 DEF End, NoThread, Typed
<1>2. CASE ~descriptor[t].detached
    BY <1>2 DEF End, NoThread, Typed
<1> QED BY <1>1, <1>2

LEMMA EndingIs ==
    ASSUME NEW t, Exiting(t) \/ ReturnFrom(t) \/ Canceled(t), NEW c, c = Instruction(t)
    PROVE  /\ descriptor[t].status = "running" /\ mode[t] = "run"
           /\ ip[t] \in DOMAIN Programs[t] /\ c = Programs[t][ip[t]]
           /\ \/ /\ c.op \in {"exit", "exit_if"}
                 /\ End(t, IF c.op = "exit" THEN c.on ELSE c.want)
                 /\ flags' = flags \cup ToSet(descriptor[t].cleanup)
              \/ /\ c.op \in {"return", "return_if"}
                 /\ End(t, IF c.op = "return" THEN c.on ELSE c.want)
                 /\ flags' = flags
              \/ /\ c.op \in {"test_cancel", "sleep"} /\ Cancellable(t)
                 /\ End(t, "CANCELED")
                 /\ flags' = flags \cup ToSet(descriptor[t].cleanup)
<1>1. \A op : Runs(t, op) => /\ c.op = op /\ mode[t] = "run" /\ ip[t] \in DOMAIN Programs[t]
                             /\ c = Programs[t][ip[t]] /\ descriptor[t].status = "running"
    BY DEF Runs, Instruction
<1>2. CASE Exiting(t)
  <2>1. Runs(t, "exit") \/ Runs(t, "exit_if")
      BY <1>2 DEF Exiting
  <2>2. Runs(t, "exit") <=> c.op = "exit"
      BY <1>1, <2>1 DEF Runs, Instruction
  <2> QED BY <1>1, <1>2, <2>1, <2>2 DEF Exiting, EndWithHandlers, On, Want
<1>3. CASE ReturnFrom(t)
  <2>1. Runs(t, "return") \/ Runs(t, "return_if")
      BY <1>3 DEF ReturnFrom, Returning
  <2>2. Runs(t, "return") <=> c.op = "return"
      BY <1>1, <2>1 DEF Runs, Instruction
  <2> QED BY <1>1, <1>3, <2>1, <2>2 DEF ReturnFrom, ReturnValue, On, Want
<1>4. CASE Canceled(t)
    BY <1>1, <1>4 DEF Canceled, EndWithHandlers
<1> QED BY <1>2, <1>3, <1>4

LEMMA AgainIs ==
    ASSUME NEW t, Again(t)
    PROVE  /\ mode[t] = "run" /\ ip[t] \in DOMAIN Programs[t] /\ Programs[t][ip[t]].op = "again"
           /\ descriptor[t].status = "running"
           /\ ip' = [ip EXCEPT ![t] = @ - 1] /\ UNCHANGED <<mode, descriptor, flags, name>>
BY DEF Again, Runs, Instruction, threads

LEMMA SynchingIs ==
    ASSUME NEW t, Synching(t)
    PROVE  /\ UNCHANGED <<descriptor, flags, name>>
           /\ ip' = ip \/ ip' = [ip EXCEPT ![t] = @ + 1]
BY DEF Synching, Ask, Locked, Unlock, Wait, Wake, Signal, Advance, threads

\* What its own steps make of a thread, of the flags and of the names.
WorkerEffect(t) ==
    LET n == ip[t]
        now_running == descriptor'[t].status = "running" IN
    /\ WorkerInv(t)'
    /\ \A u \in Threads \ {t} : descriptor'[u] = descriptor[u] /\ ip'[u] = ip[u]
    /\ flags' \subseteq flags \cup Sets(t) /\ flags \ Clears(t) \subseteq flags'
    /\ "ENABLED" \in flags' \ flags => t = "ext1" /\ ip'[t] = 7 /\ now_running
    /\ t = "ext1" /\ now_running => ip'[t] >= n /\ (ip'[t] >= 8 => n >= 8 \/ "SET" \in flags)
    /\ t \in {"cancelsync", "ext1", "ext2"} /\ ~now_running => MainCancels(t, ip[Main])
    /\ \/ name' = name /\ (now_running => ip'[t] >= n \/ t \in {"cancelsync", "ext2"})
                       /\ (t = "named" /\ ip'[t] = 6 => n = 6)
       \/ t = "named" /\ ip'[t] = 6 /\ name' = [name EXCEPT !["named"] = "Changed"]

LEMMA OnwardKeeps ==
    ASSUME Typed, ip[Main] \in Int, NEW t \in Workers, Onward(t), WorkerInv(t),
           t = "ext1" /\ ip[t] >= 8 => MainCancels(t, ip[Main])
    PROVE  WorkerEffect(t)
<1> DEFINE n == ip[t]
           d == descriptor[t]
           e == descriptor'[t]
<1>0. t \in Threads /\ Main \in Threads /\ t # Main /\ n \in Int
    BY DEF Threads, Workers, Terminating, Main, Typed
<1>1. \E op : Runs(t, op)
    BY DEF Onward, SetFlag, ClearFlag, AwaitFlag, Zassert, PushHandler, PopHandler, TestedCancel,
           Slept, SetCancelState, CancelThread, DetachSelf, NameThread
<1> PICK c : c = Instruction(t)
    OBVIOUS
<1>2. d.status = "running" /\ c = Programs[t][n]
    BY <1>1 DEF Runs, Instruction
<1>3. n \in 1..LastOf(t) /\ WellKept(t, n)
    BY AllKept DEF WorkerInv
<1>4. OwnFlags(t, n, c) /\ Checked(t, n, c)
    BY <1>2, <1>3 DEF WellKept
<1>5. /\ c.op \notin Leaving \cup {"again"}
      /\ ip' = [ip EXCEPT ![t] = @ + 1] /\ mode' = mode
      /\ DOMAIN descriptor' = Threads
      /\ \A u \in Threads \ {t} : descriptor'[u] = descriptor[u]
      /\ e.status = "running" /\ e.result = d.result
      /\ e.state = IF c.op = "cancel_state" THEN c.on ELSE d.state
      /\ e.detached = IF c.op = "detach" THEN TRUE ELSE d.detached
      /\ e.pending = IF c.op = "cancel" THEN TRUE ELSE d.pending
      /\ e.cleanup = CASE c.op = "push" -> Append(d.cleanup, c.on)
                       [] c.op = "pop" -> Front(d.cleanup)
                       [] OTHER -> d.cleanup
      /\ flags' = CASE c.op = "set" -> flags \cup {c.on}
                    [] c.op = "clear" -> flags \ {c.on}
                    [] c.op = "pop" /\ c.on = "true" -> flags \cup {Last(d.cleanup)}
                    [] OTHER -> flags
      /\ name' = IF c.op = "set_name" THEN [name EXCEPT ![c.on] = c.want] ELSE name
      /\ c.op = "await" => c.on \in flags
      /\ c.op = "test_cancel" => ~Cancellable(t)
  <2>1. c.op = "cancel" => c.on = t
      BY <1>4 DEF Checked
  <2>2. OnwardEffect(t, c)
      BY <1>0, <1>2, <2>1, OnwardFields
  <2> QED BY <2>2 DEF OnwardEffect
<1>6. /\ d.result = "NULL" /\ d.state = StateAt(t, n) /\ d.cleanup = HandlersAt(t, n)
      /\ d.detached <=> DetachedAt(t, n)
      /\ d.pending <=> CancelsItself(t, n) \/ MainCancels(t, ip[Main])
      /\ FlagsAt(t, n) \subseteq flags
      /\ d.detached \in BOOLEAN /\ d.pending \in BOOLEAN
    BY <1>2 DEF WorkerInv
<1>7. ip'[t] = n + 1 /\ (\A u \in Threads \ {t} : ip'[u] = ip[u]) /\ ip'[Main] = ip[Main]
    BY <1>0, <1>5 DEF Typed
<1>8. ~CertainlyCancelled(t, n, c)
  <2> SUFFICES ASSUME CertainlyCancelled(t, n, c) PROVE FALSE
      OBVIOUS
  <2>1. c.op = "test_cancel" /\ d.state = "enabled"
      BY <1>6 DEF CertainlyCancelled
  <2>2. d.pending
      BY <1>6 DEF CertainlyCancelled
  <2> QED BY <1>5, <2>1, <2>2 DEF Cancellable
<1>9. GoesOn(t, n, c)
    BY <1>2, <1>3, <1>5, <1>8 DEF WellKept
<1>10. n + 1 \in 1..LastOf(t)
  <2>1. n \in Int /\ n >= 1 /\ n + 1 <= LastOf(t) /\ LastOf(t) \in Int
      BY <1>3, <1>9 DEF GoesOn, LastOf
  <2> QED BY <2>1
<1>11. /\ e.state = StateAt(t, n + 1) /\ e.cleanup = HandlersAt(t, n + 1)
       /\ e.detached <=> DetachedAt(t, n + 1)
       /\ e.pending <=> CancelsItself(t, n + 1) \/ MainCancels(t, ip[Main])
  <2>1. e.state = StateAt(t, n + 1)
      BY <1>5, <1>6, <1>9 DEF GoesOn
  <2>2. e.cleanup = HandlersAt(t, n + 1)
      BY <1>5, <1>6, <1>9 DEF GoesOn
  <2>3. e.detached <=> DetachedAt(t, n + 1)
      BY <1>5, <1>6, <1>9 DEF GoesOn
  <2>4. e.pending <=> CancelsItself(t, n + 1) \/ MainCancels(t, ip[Main])
      BY <1>5, <1>6, <1>9 DEF GoesOn
  <2> QED BY <2>1, <2>2, <2>3, <2>4
<1>12. FlagsAt(t, n + 1) \subseteq flags'
  <2>1. /\ FlagsAt(t, n + 1) \subseteq
              flags \cup (IF c.op = "set" THEN {c.on} ELSE {})
                    \cup (IF c.op = "pop" /\ c.on = "true" THEN {Last(d.cleanup)} ELSE {})
        /\ c.op = "clear" => c.on \notin FlagsAt(t, n + 1)
      BY <1>6, <1>9 DEF GoesOn
  <2>2. CASE c.op = "set"
      BY <1>5, <2>1, <2>2
  <2>3. CASE c.op = "clear"
      BY <1>5, <2>1, <2>3
  <2>4. CASE c.op = "pop" /\ c.on = "true"
      BY <1>5, <2>1, <2>4
  <2>5. CASE c.op \notin {"set", "clear"} /\ ~(c.op = "pop" /\ c.on = "true")
      BY <1>5, <2>1, <2>5
  <2> QED BY <2>2, <2>3, <2>4, <2>5
<1>13. e.detached \in BOOLEAN /\ e.pending \in BOOLEAN
    BY <1>5, <1>6
<1>14. WorkerInv(t)'
  <2>1. MainCancels(t, ip[Main])' <=> MainCancels(t, ip[Main])
      BY <1>7
  <2> QED BY <1>5, <1>6, <1>7, <1>10, <1>11, <1>12, <1>13 DEF WorkerInv
<1>15. /\ flags' \subseteq flags \cup Sets(t) /\ flags \ Clears(t) \subseteq flags'
       /\ "ENABLED" \in flags' \ flags => t = "ext1" /\ n = 6
  <2>1. CASE c.op = "set"
      BY <1>4, <1>5, <2>1 DEF OwnFlags
  <2>2. CASE c.op = "clear"
      BY <1>4, <1>5, <2>2 DEF OwnFlags
  <2>3. CASE c.op = "pop" /\ c.on = "true"
    <3>1. flags' = flags \cup {Last(d.cleanup)} /\ Last(d.cleanup) \in Sets(t) \ {"ENABLED"}
        BY <1>4, <1>5, <1>6, <2>3 DEF OwnFlags
    <3> QED BY <3>1
  <2>4. CASE c.op \notin {"set", "clear"} /\ ~(c.op = "pop" /\ c.on = "true")
      BY <1>5, <2>4
  <2> QED BY <2>1, <2>2, <2>3, <2>4
<1>16. t = "ext1" /\ n = 7 => "SET" \in flags
    BY <1>4, <1>5 DEF Checked
<1>17. name' = IF t = "named" /\ n = 5 THEN [name EXCEPT !["named"] = "Changed"] ELSE name
    BY <1>4, <1>5 DEF Checked
<1>18. \/ name' = name /\ (t = "named" /\ n + 1 = 6 => n = 6)
       \/ t = "named" /\ n + 1 = 6 /\ name' = [name EXCEPT !["named"] = "Changed"]
  <2>1. CASE t = "named" /\ n = 5
      BY <1>17, <2>1
  <2>2. CASE ~(t = "named" /\ n = 5)
      BY <1>0, <1>17, <2>2
  <2> QED BY <2>1, <2>2
<1>19. t = "ext1" => n + 1 >= n /\ (n + 1 >= 8 => n >= 8 \/ "SET" \in flags)
  <2>1. CASE n = 7
      BY <1>16, <2>1
  <2>2. CASE n # 7
      BY <1>0, <2>2
  <2> QED BY <2>1, <2>2
<1>20. n = 6 => n + 1 = 7
    OBVIOUS
<1>21. n + 1 >= n
    BY <1>0
<1> HIDE DEF n
<1> QED BY <1>5, <1>7, <1>14, <1>15, <1>18, <1>19, <1>20, <1>21 DEF WorkerEffect, n

LEMMA EndingKeeps ==
    ASSUME Typed, ip[Main] \in Int, NEW t \in Workers, WorkerInv(t),
           Exiting(t) \/ ReturnFrom(t) \/ Canceled(t)
    PROVE  WorkerEffect(t)
<1> DEFINE n == ip[t]
           d == descriptor[t]
           e == descriptor'[t]
<1> PICK c : c = Instruction(t)
    OBVIOUS
<1>0. t \in Threads /\ Main \in Threads /\ t # Main /\ n \in Int
    BY DEF Threads, Workers, Terminating, Main, Typed
<1>1. /\ d.status = "running" /\ c = Programs[t][n]
      /\ \/ /\ c.op \in {"exit", "exit_if"}
            /\ End(t, IF c.op = "exit" THEN c.on ELSE c.want)
            /\ flags' = flags \cup ToSet(d.cleanup)
         \/ /\ c.op \in {"return", "return_if"}
            /\ End(t, IF c.op = "return" THEN c.on ELSE c.want)
            /\ flags' = flags
         \/ /\ c.op \in {"test_cancel", "sleep"} /\ Cancellable(t)
            /\ End(t, "CANCELED")
            /\ flags' = flags \cup ToSet(d.cleanup)
    BY EndingIs
<1>2. Ends(t, n, c)
  <2>1. n \in 1..LastOf(t) /\ WellKept(t, n)
      BY AllKept DEF WorkerInv
  <2> QED BY <1>1, <2>1 DEF WellKept
<1>3. /\ d.result = "NULL" /\ d.state = StateAt(t, n) /\ d.cleanup = HandlersAt(t, n)
      /\ d.detached <=> DetachedAt(t, n)
      /\ d.pending <=> CancelsItself(t, n) \/ MainCancels(t, ip[Main])
      /\ FlagsAt(t, n) \subseteq flags
      /\ d.detached \in BOOLEAN /\ d.pending \in BOOLEAN
    BY <1>1 DEF WorkerInv
<1>4. PICK v \in Results(t) : End(t, v)
  <2>1. CASE c.op \in {"exit", "exit_if"}
      BY <1>1, <1>2, <2>1 DEF Ends
  <2>2. CASE c.op \in {"return", "return_if"}
      BY <1>1, <1>2, <2>2 DEF Ends
  <2>3. CASE c.op \in {"test_cancel", "sleep"}
      BY <1>1, <1>2, <2>3 DEF Ends
  <2> QED BY <1>1, <2>1, <2>2, <2>3
<1>5. /\ ip' = [ip EXCEPT ![t] = 1] /\ mode' = mode /\ name' = name
      /\ DOMAIN descriptor' = Threads
      /\ \A u \in Threads \ {t} : descriptor'[u] = descriptor[u]
      /\ e.state = "enabled" /\ e.detached = FALSE /\ e.pending = FALSE /\ e.cleanup = <<>>
      /\ d.detached => e.status = "none" /\ e.result = "NULL"
      /\ ~d.detached => e.status = "ended" /\ e.result = v
    BY <1>0, <1>4, EndFields
<1>6. ip'[t] = 1 /\ (\A u \in Threads \ {t} : ip'[u] = ip[u]) /\ ip'[Main] = ip[Main]
    BY <1>0, <1>5 DEF Typed
<1>7. /\ flags \subseteq flags' /\ flags' \subseteq flags \cup Sets(t)
      /\ "ENABLED" \notin flags' \ flags /\ Left(t) \subseteq flags'
  <2>1. CASE c.op \in {"return", "return_if"}
      BY <1>1, <1>2, <1>3, <2>1 DEF Ends
  <2>2. CASE c.op \in {"exit", "exit_if", "test_cancel", "sleep"}
    <3>1. flags' = flags \cup ToSet(d.cleanup)
        BY <1>1, <2>2
    <3>2. StateAt(t, n) = "enabled" \/ c.op \in Leaving
        BY <1>1, <1>3, <2>2 DEF Cancellable, Leaving
    <3> QED BY <1>2, <1>3, <2>2, <3>1, <3>2 DEF Ends
  <2> QED BY <1>1, <2>1, <2>2
<1>8. t \in {"cancelsync", "ext1", "ext2"} => MainCancels(t, ip[Main])
  <2> SUFFICES ASSUME t \in {"cancelsync", "ext1", "ext2"} PROVE MainCancels(t, ip[Main])
      OBVIOUS
  <2>1. Cancellable(t)
      BY <1>1, <1>2 DEF Ends, Leaving
  <2>2. ~CancelsItself(t, n)
      BY DEF CancelsItself
  <2> QED BY <1>3, <2>1, <2>2 DEF Cancellable
<1>9. 1 \in 1..LastOf(t)
    BY DEF LastOf
<1>10. WorkerInv(t)'
  <2>1. MainCancels(t, ip[Main])' <=> MainCancels(t, ip[Main])
      BY <1>6
  <2>2. CASE d.detached
      BY <1>5, <1>6, <1>9, <2>2 DEF WorkerInv
  <2>3. CASE ~d.detached
      BY <1>4, <1>5, <1>6, <1>7, <1>8, <1>9, <2>1, <2>3 DEF WorkerInv
  <2> QED BY <2>2, <2>3
<1>11. e.status # "running"
    BY <1>5
<1> QED BY <1>5, <1>6, <1>7, <1>8, <1>10, <1>11 DEF WorkerEffect

LEMMA AgainKeeps ==
    ASSUME Typed, ip[Main] \in Int, NEW t \in Workers, WorkerInv(t), Again(t)
    PROVE  WorkerEffect(t)
<1> DEFINE n == ip[t]
           d == descriptor[t]
<1> PICK c : c = Programs[t][n]
    OBVIOUS
<1>0. t \in Threads /\ Main \in Threads /\ t # Main /\ n \in Int
    BY DEF Threads, Workers, Terminating, Main, Typed
<1>1. /\ c.op = "again" /\ d.status = "running"
      /\ ip' = [ip EXCEPT ![t] = @ - 1] /\ UNCHANGED <<descriptor, flags, name>>
    BY AgainIs
<1>2. GoesBack(t, n) /\ t \in {"cancelsync", "ext2"}
  <2>1. n \in 1..LastOf(t) /\ WellKept(t, n)
      BY AllKept DEF WorkerInv
  <2> QED BY <1>1, <2>1 DEF WellKept, Checked
<1>3. ip'[t] = n - 1 /\ (\A u \in Threads \ {t} : ip'[u] = ip[u]) /\ ip'[Main] = ip[Main]
    BY <1>0, <1>1 DEF Typed
<1>4. WorkerInv(t)'
    BY <1>1, <1>2, <1>3 DEF WorkerInv, GoesBack
<1> QED BY <1>1, <1>2, <1>3, <1>4 DEF WorkerEffect

\* Only the thread that is named has to do with the mutex.
LEMMA SynchingKeeps ==
    ASSUME Typed, SuiteIInv, NameIInv, NEW t \in Workers, WorkerInv(t), Synching(t)
    PROVE  WorkerEffect(t)
<1> DEFINE n == ip[t]
           d == descriptor[t]
<1>0. t \in Threads /\ Main \in Threads /\ t # Main /\ n \in Int
    BY DEF Threads, Workers, Terminating, Main, Typed
<1>1. /\ UNCHANGED <<descriptor, flags, name>>
      /\ ip' = ip \/ ip' = [ip EXCEPT ![t] = @ + 1]
    BY SynchingIs
<1>2. t = "named"
  <2> SUFFICES ASSUME t # "named" PROVE FALSE
      OBVIOUS
  <2>1. mode[t] = "run"
      BY <1>0 DEF NameIInv
  <2>2. \A op \in SyncOps : ~Runs(t, op)
      BY <1>0, WorkerRuns DEF Apart, SyncOps
  <2> QED BY <2>1, <2>2
         DEF Synching, Ask, Locked, Unlock, Wait, Wake, Signal, Enter, SyncOps
<1>3. d.status = "running" /\ n \in 1..9 /\ (ip' = ip \/ n \in {1, 2, 3, 8})
  <2>0. ASSUME mode[t] # "run"
        PROVE  d.status = "running" /\ (mode[t] = "ask" => n \in {1, 3})
    <3>1. ip[Main] \in Int /\ ExecutionAt \in Int
        BY <1>0, ExecutionAtIsNat DEF Typed
    <3>2. ip[Main] > ExecutionAt
        BY <1>0, <2>0, <3>1 DEF SuiteIInv, NotNamed
    <3>3. Phases
        BY <3>2 DEF NameIInv
    <3> QED BY <1>2, <2>0, <3>3
           DEF Phases, MainAlone, MainSleeps, NamedSleeps, NamedEnds, NamedGone, Meeting, Named
  <2>1. d.status = "running"
    <3>1. (\E op : Runs(t, op)) \/ mode[t] \in {"ask", "asleep"}
        BY DEF Synching, Ask, Locked, Unlock, Wait, Wake, Signal, Enter
    <3> QED BY <2>0, <3>1 DEF Runs
  <2>2. n \in 1..9
      BY <1>2 DEF WorkerInv, LastOf
  <2>3. CASE Ask(t) \/ Wait(t) \/ Wake(t)
      BY <2>1, <2>2, <2>3 DEF Ask, Wait, Wake
  <2>4. CASE Unlock(t) \/ Signal(t)
      BY <1>2, <2>1, <2>2, <2>4, NamedInTest DEF Unlock, Signal, NamedCall
  <2>5. CASE Locked(t)
      BY <2>0, <2>1, <2>2, <2>5 DEF Locked, Enter
  <2> QED BY <2>1, <2>3, <2>4, <2>5 DEF Synching
<1>4. (\A u \in Threads \ {t} : ip'[u] = ip[u]) /\ ip'[Main] = ip[Main]
      /\ (ip'[t] = n \/ (ip'[t] = n + 1 /\ n \in {1, 2, 3, 8}))
    BY <1>0, <1>1, <1>3 DEF Typed
<1>5. WorkerInv(t)'
  <2>1. ip'[t] \in 1..LastOf(t)
      BY <1>2, <1>3, <1>4 DEF LastOf
  <2>2. /\ StateAt(t, ip'[t]) = StateAt(t, n) /\ HandlersAt(t, ip'[t]) = HandlersAt(t, n)
        /\ FlagsAt(t, ip'[t]) = FlagsAt(t, n)
        /\ DetachedAt(t, ip'[t]) <=> DetachedAt(t, n)
        /\ CancelsItself(t, ip'[t]) <=> CancelsItself(t, n)
      BY <1>2, <1>4 DEF StateAt, HandlersAt, FlagsAt, DetachedAt, CancelsItself
  <2> QED BY <1>1, <1>3, <1>4, <2>1, <2>2 DEF WorkerInv
<1> QED BY <1>0, <1>1, <1>2, <1>3, <1>4, <1>5 DEF WorkerEffect

LEMMA WorkerSteps ==
    ASSUME Typed, SuiteIInv, NameIInv, NEW t \in Workers, Step(t), WorkerInv(t),
           t = "ext1" /\ descriptor[t].status = "running" /\ ip[t] >= 8 => MainCancels(t, ip[Main])
    PROVE  WorkerEffect(t)
<1>1. ip[Main] \in Int
    BY MainAndNamed DEF Typed
<1>2. WorkerInv(t) /\ ip[t] >= 8 /\ t = "ext1" => descriptor[t].status = "running"
    BY DEF WorkerInv
<1>3. Onward(t) \/ Again(t) \/ Exiting(t) \/ ReturnFrom(t) \/ Canceled(t) \/ Synching(t)
    BY StepKinds
<1> QED BY <1>1, <1>2, <1>3, OnwardKeeps, AgainKeeps, EndingKeeps, SynchingKeeps

-----------------------------------------------------------------------------
(* A step of a thread other than main                                       *)

LEMMA WhoSteps ==
    ASSUME Typed, SuiteIInv, NameIInv, NEW t \in Workers, Step(t)
    PROVE  descriptor[t].status = "running"
<1>0. t \in Threads /\ Main \in Threads /\ t # Main
    BY DEF Threads, Workers, Terminating, Main
<1>1. CASE mode[t] = "run"
    BY <1>0, <1>1, StepOfRunning DEF Runs
<1>2. CASE mode[t] # "run"
  <2>1. ip[Main] \in Int /\ ExecutionAt \in Int
      BY <1>0, ExecutionAtIsNat DEF Typed
  <2>2. ip[Main] > ExecutionAt
      BY <1>0, <1>2, <2>1 DEF SuiteIInv, NotNamed
  <2>3. Phases /\ t = "named"
      BY <1>0, <1>2, <2>2 DEF NameIInv
  <2> QED BY <1>2, <2>3
         DEF Phases, MainAlone, MainSleeps, NamedSleeps, NamedEnds, NamedGone, Meeting, Named
<1> QED BY <1>1, <1>2

Modes == {"run", "ask", "asleep"}

LEMMA ModesOfStep ==
    ASSUME mode \in [Threads -> Modes], NEW t \in Threads, Step(t)
    PROVE  mode' \in [Threads -> Modes]
<1>1. mode' = mode \/ \E m \in Modes : mode' = [mode EXCEPT ![t] = m]
    BY DEF Step, SetFlag, ClearFlag, AwaitFlag, Zassert, PushHandler, PopHandler, Exiting, ReturnFrom,
           Canceled, EndWithHandlers, End, TestedCancel, Slept, Again, SetCancelState, CancelThread,
           DetachSelf, NameThread, Ask, Locked, Unlock, Wait, Wake, Signal, Enter, Modes
<1> QED BY <1>1

\* Nobody clears a flag that another one counts on.
LEMMA ClearsNobodys ==
    ASSUME ip[Main] \in Int, PoolIInv, NEW t \in Workers, NEW u \in Workers \ {t},
           descriptor[t].status # "none", descriptor[u].status # "none"
    PROVE  /\ \A n : Clears(t) \cap FlagsAt(u, n) = {}
           /\ Clears(t) \cap Left(u) = {} /\ Clears(t) \cap MainFlags(ip[Main]) = {}
<1>1. /\ Lives(t, ip[Main]) /\ Lives(u, ip[Main]) /\ ExecutionAt \in Nat
    BY ExecutionAtIsNat DEF PoolIInv, Alive
<1>2. CASE t \notin {"self", "ext1", "ext2"}
    BY <1>2 DEF Clears
<1>3. CASE t \in {"self", "ext1", "ext2"}
  <2>1. u \notin {"self", "ext1", "ext2"}
      BY <1>1, <1>3 DEF Lives
  <2>2. \A n : Clears(t) \cap FlagsAt(u, n) = {}
      BY <2>1 DEF FlagsAt, Clears
  <2>3. Clears(t) \cap Left(u) = {}
      BY <2>1 DEF Left, Clears
  <2>4. ip[Main] \notin {ExecutionAt + 19, ExecutionAt + 28}
      BY <1>1, <1>3 DEF Lives
  <2>5. Clears(t) \cap MainFlags(ip[Main]) = {}
      BY <2>4 DEF MainFlags, Clears
  <2> QED BY <2>2, <2>3, <2>5
<1> QED BY <1>2, <1>3

LEMMA ClearsNotMains ==
    ASSUME ip[Main] \in Int, PoolIInv, NEW t \in Workers, descriptor[t].status # "none"
    PROVE  Clears(t) \cap MainFlags(ip[Main]) = {}
<1>1. /\ Lives(t, ip[Main]) /\ ExecutionAt \in Nat
    BY ExecutionAtIsNat DEF PoolIInv, Alive
<1>2. CASE t \notin {"self", "ext1", "ext2"}
    BY <1>2 DEF Clears
<1>3. CASE t \in {"self", "ext1", "ext2"}
  <2>4. ip[Main] \notin {ExecutionAt + 19, ExecutionAt + 28}
      BY <1>1, <1>3 DEF Lives
  <2> QED BY <2>4 DEF MainFlags, Clears
<1> QED BY <1>2, <1>3

LEMMA SetsNothingElse == \A t \in Workers : Sets(t) \subseteq Flags \ NeverSet /\ "SET" \notin Sets(t)
BY DEF Sets, FlagsAt, Left, Flags, NeverSet

\* That one thread steps makes no difference to what another one is at.
LEMMA OthersKept ==
    ASSUME NEW u \in Workers, WorkerInv(u), descriptor'[u] = descriptor[u], ip'[u] = ip[u],
           MainCancels(u, ip'[Main]) <=> MainCancels(u, ip[Main]),
           descriptor[u].status = "running" => FlagsAt(u, ip[u]) \cap flags \subseteq flags',
           descriptor[u].status = "ended" => Left(u) \cap flags \subseteq flags'
    PROVE  WorkerInv(u)'
<1>1. MainCancels(u, ip[Main])' <=> MainCancels(u, ip[Main])
    OBVIOUS
<1>2. CASE descriptor[u].status = "running"
    BY <1>1, <1>2 DEF WorkerInv
<1>3. CASE descriptor[u].status = "ended"
    BY <1>1, <1>3 DEF WorkerInv
<1>4. CASE descriptor[u].status \notin {"running", "ended"}
    BY <1>1, <1>4 DEF WorkerInv
<1> QED BY <1>2, <1>3, <1>4

LEMMA WorkerChecks ==
    ASSUME SuiteIInv, NameIInv, PoolIInv, ChecksIInv, NEW t \in Workers, Step(t)
    PROVE  ChecksIInv'
<1> DEFINE p == ip[Main]
           e == ExecutionAt
<1>0. Typed /\ p \in Int /\ e \in Int /\ t \in Threads /\ Main \in Threads /\ t # Main
    BY MainAndNamed, ExecutionAtIsNat
       DEF SuiteIInv, NameIInv, Typed, Threads, Workers, Terminating, Main
<1>1. descriptor[t].status = "running" /\ Lives(t, p) /\ WorkerInv(t)
    BY <1>0, WhoSteps DEF PoolIInv, Alive, ChecksIInv
<1>2. WorkerEffect(t)
  <2>1. ASSUME t = "ext1", ip[t] >= 8 PROVE MainCancels(t, p)
    <3>1. p >= e + 27
        BY <1>1, <2>1 DEF ChecksIInv, MeetingInv
    <3>2. p >= e + 26
        BY <1>0, <3>1
    <3> QED BY <2>1, <3>2 DEF MainCancels
  <2> QED BY <1>0, <1>1, <2>1, WorkerSteps
<1>3. /\ WorkerInv(t)'
      /\ \A u \in Threads \ {t} : descriptor'[u] = descriptor[u] /\ ip'[u] = ip[u]
      /\ ip'[Main] = p /\ descriptor'[Main] = descriptor[Main]
      /\ flags' \subseteq flags \cup Sets(t) /\ flags \ Clears(t) \subseteq flags'
    BY <1>0, <1>2 DEF WorkerEffect
<1>4. MainInv'
  <2>1. mode' \in [Threads -> {"run", "ask", "asleep"}]
      BY <1>0, ModesOfStep DEF ChecksIInv, MainInv, Modes
  <2>2. name' \in [Threads -> {"", "Create", "Changed"}]
      BY <1>2, MainAndNamed DEF WorkerEffect, ChecksIInv, MainInv
  <2> QED BY <1>3, <2>1, <2>2 DEF ChecksIInv, MainInv
<1>5. ASSUME NEW u \in Workers PROVE WorkerInv(u)'
  <2>1. CASE u = t
      BY <1>3, <2>1
  <2>2. CASE u # t
    <3>1. descriptor'[u] = descriptor[u] /\ ip'[u] = ip[u] /\ WorkerInv(u)
        BY <1>3, <2>2 DEF Threads, ChecksIInv
    <3>2. descriptor[u].status \in {"running", "ended"} =>
              FlagsAt(u, ip[u]) \cap flags \subseteq flags' /\ Left(u) \cap flags \subseteq flags'
        BY <1>0, <1>1, <1>3, <2>2, ClearsNobodys
    <3> QED BY <1>3, <3>1, <3>2, OthersKept
  <2> QED BY <2>1, <2>2
<1>6. (flags \subseteq Flags \ NeverSet)'
  <2>1. (Flags \ NeverSet)' = Flags \ NeverSet
      BY DEF Flags, NeverSet
  <2> QED BY <1>3, <2>1, SetsNothingElse DEF ChecksIInv
<1>7. (MainFlags(ip[Main]) \subseteq flags)'
  <2>1. MainFlags(p) \subseteq flags'
      BY <1>0, <1>1, <1>3, ClearsNotMains DEF ChecksIInv
  <2> QED BY <1>3, <2>1
<1>8. NamesInv'
  <2> SUFFICES /\ p >= e + 5 /\ descriptor'["named"].status = "running" /\ ip'["named"] <= 5 =>
                      name'["named"] = "Create"
               /\ ip'["named"] = 6 => name'["named"] = "Changed"
      BY <1>3 DEF NamesInv
  <2>1. CASE t = "named"
    <3>1. ip[t] \in Int /\ ip'[t] \in Int
        BY <1>1, <1>3, <2>1 DEF WorkerInv, LastOf
    <3>2. CASE name' = name /\ (descriptor'[t].status = "running" => ip'[t] >= ip[t])
                            /\ (ip'[t] = 6 => ip[t] = 6)
        BY <1>1, <2>1, <3>1, <3>2 DEF ChecksIInv, NamesInv
    <3>3. CASE ip'[t] = 6 /\ name' = [name EXCEPT !["named"] = "Changed"]
      <4>1. DOMAIN name = Threads
          BY DEF ChecksIInv, MainInv
      <4>2. name'["named"] = "Changed" /\ ip'["named"] = 6
          BY <2>1, <3>3, <4>1, MainAndNamed
      <4> QED BY <4>2
    <3> QED BY <1>2, <2>1, <3>2, <3>3 DEF WorkerEffect
  <2>2. CASE t # "named"
    <3>1. name' = name /\ ip'["named"] = ip["named"] /\ descriptor'["named"] = descriptor["named"]
        BY <1>2, <1>3, <2>2, MainAndNamed DEF WorkerEffect
    <3> QED BY <3>1 DEF ChecksIInv, NamesInv
  <2> QED BY <2>1, <2>2
<1>9. MeetingInv'
  <2> DEFINE There(u) == descriptor[u].status = "running"
  <2>0. "ext1" \in Workers /\ "ext2" \in Workers /\ "cancelsync" \in Workers
        /\ "ext1" \in Threads /\ "ext2" \in Threads /\ "cancelsync" \in Threads
      BY DEF Workers, Threads
  <2>1. ASSUME NEW u \in {"cancelsync", "ext1", "ext2"}, There(u), ~MainCancels(u, p)
        PROVE  There(u)'
      BY <1>2, <1>3, <2>0, <2>1 DEF WorkerEffect
  <2>2. p = 9 => There("cancelsync")'
    <3>1. p = 9 => ~MainCancels("cancelsync", p)
        BY DEF MainCancels
    <3> QED BY <2>1, <3>1 DEF ChecksIInv, MeetingInv
  <2>3. p = e + 31 => There("ext2")'
    <3>1. p = e + 31 => ~MainCancels("ext2", p)
        BY <1>0 DEF MainCancels
    <3> QED BY <2>1, <3>1 DEF ChecksIInv, MeetingInv
  <2>4. ASSUME p \in e + 22..e + 25, "ENABLED" \in flags'
        PROVE  There("ext1")' /\ ip'["ext1"] >= 7
    <3>1. CASE "ENABLED" \in flags
      <4>1. There("ext1") /\ ip["ext1"] >= 7 /\ ~MainCancels("ext1", p)
          BY <1>0, <2>4, <3>1 DEF ChecksIInv, MeetingInv, MainCancels
      <4>2. There("ext1")'
          BY <2>1, <4>1
      <4>3. ip["ext1"] \in Int /\ ip'["ext1"] \in Int
          BY <1>5, <2>0 DEF ChecksIInv, WorkerInv, LastOf
      <4>4. ip'["ext1"] >= ip["ext1"]
          BY <1>2, <1>3, <2>0, <4>2, <4>3 DEF WorkerEffect
      <4> QED BY <4>1, <4>2, <4>3, <4>4
    <3>2. CASE "ENABLED" \notin flags
        BY <1>2, <2>4, <3>2 DEF WorkerEffect
    <3> QED BY <3>1, <3>2
  <2>5. p \in e + 23..e + 26 => "SET" \notin flags'
      BY <1>3, SetsNothingElse DEF ChecksIInv, MeetingInv
  <2>6. ASSUME There("ext1")', ip'["ext1"] >= 8
        PROVE  p >= e + 27
    <3>1. CASE t = "ext1"
      <4>1. ip["ext1"] >= 8 \/ "SET" \in flags
          BY <1>2, <2>6, <3>1 DEF WorkerEffect
      <4>2. CASE ip["ext1"] >= 8
          BY <1>1, <3>1, <4>2 DEF ChecksIInv, MeetingInv
      <4>3. CASE "SET" \in flags
        <5>1. p \in e + 24..e + 27
            BY <1>1, <3>1 DEF Lives
        <5>2. p \notin e + 23..e + 26
            BY <4>3 DEF ChecksIInv, MeetingInv
        <5> QED BY <1>0, <5>1, <5>2
      <4> QED BY <4>1, <4>2, <4>3
    <3>2. CASE t # "ext1"
        BY <1>3, <2>0, <2>6, <3>2 DEF ChecksIInv, MeetingInv
    <3> QED BY <3>1, <3>2
  <2> QED BY <1>3, <2>2, <2>3, <2>4, <2>5, <2>6 DEF MeetingInv
<1> QED BY <1>4, <1>5, <1>6, <1>7, <1>8, <1>9 DEF ChecksIInv

USE SuiteAssumption
-----------------------------------------------------------------------------
(* What main's instructions are there for                                   *)

MainOps == {"set", "clear", "await", "check", "check_not", "check_name", "set_name", "create",
            "join", "cancel", "execution", "joins", "lock", "unlock", "wait_cvar0", "signal_cvar1"}

\* Where each is, what it is used on, and that what it checks is as it should be.
Uses(p, c) ==
    LET e == ExecutionAt IN
    /\ c.op \in MainOps
    /\ c.op = "set" => \/ c.on = "CLEANUP_DONE"
                       \/ c.on = "SET" /\ p = e + 26
    /\ c.op = "clear" => \/ c.on = "ENABLED" /\ p = e + 21
                         \/ c.on = "SET" /\ p = e + 22
    /\ c.op = "await" => c.on = "ENABLED" /\ p = e + 24
    /\ c.op = "cancel" => \/ p = 9 /\ c.on = "cancelsync" /\ c.want = "ok"
                          \/ p = e + 16 /\ c.on = "term0" /\ c.want = "ESRCH"
                          \/ p = e + 25 /\ c.on = "ext1" /\ c.want = "ok"
                          \/ p = e + 31 /\ c.on = "ext2" /\ c.want = "ok"
    /\ c.op = "create" => /\ c.on = "cancelsync" => p = 8
                          /\ c.on = "ext1" => p = e + 23
                          /\ c.on = "ext2" => p = e + 30
    /\ c.op = "set_name" => p = e + 4 /\ c.on = "named" /\ c.want = "Create"
    /\ c.op = "check_name" => p = e + 5 /\ c.on = "named" /\ c.want = "Create"
    /\ c.op = "check" => c.on \in MainFlags(p)
    /\ c.op = "check_not" => c.on \in NeverSet
    /\ c.op = "join" => c.want = "any" \/ Results(c.on) = {c.want}

LEMMA ExecutionPlace ==
    ExecutionAt \in Nat /\ ExecutionAt >= 22 /\ Len(MainProgram) = ExecutionAt + 34
<1>1. MaxThreads \in Nat /\ MaxThreads >= 1
    OBVIOUS
<1>2. ExecutionAt = 4 * MaxThreads + 18 /\ Len(MainProgram) = ExecutionAt + 34
    BY MainProgramPlaces
<1> QED BY <1>1, <1>2

LEMMA UsesOf ==
    /\ \A p, x, y : y = "any" \/ Results(x) = {y} => Uses(p, Join(x, y))
    /\ \A p, x : x \in MainFlags(p) => Uses(p, Check(x))
    /\ \A p : \A x \in NeverSet : Uses(p, CheckNot(x))
    /\ \A p, x : x \notin {"cancelsync", "ext1", "ext2"} => Uses(p, Create(x))
    /\ \A p : Uses(p, Set("CLEANUP_DONE"))
    /\ \A p : \A op \in {"execution", "joins", "lock", "unlock", "wait_cvar0", "signal_cvar1"} :
          Uses(p, Call(op))
BY CallFields DEF Uses, MainOps

LEMMA ResultsAre ==
    /\ Results("explicit") = {"NULL"} /\ Results("pexit") = {"executed"}
    /\ Results("return") = {"executed"} /\ Results("cancelsync") = {"CANCELED"}
    /\ Results("leak") = {"NULL"} /\ Results("named") = {"NULL"} /\ Results("self") = {"CANCELED"}
    /\ Results("ext1") = {"CANCELED"} /\ Results("ext2") = {"CANCELED"}
BY DEF Results, Terminating

LEMMA CleanupUses == \A p \in 1..17 : Uses(p, MainProgram[p])
<1>0. ExecutionAt \in Nat /\ ExecutionAt >= 22
    BY ExecutionPlace
<1>a. /\ \A x \in {"pexit0", "pexit1"} : x \in MainFlags(6) /\ x \in MainFlags(7)
      /\ \A x \in {"cancelsync0", "cancelsync1"} : x \in MainFlags(11) /\ x \in MainFlags(12)
      /\ {"return0", "return1"} \subseteq NeverSet
    BY DEF MainFlags, NeverSet
<1> USE UsesOf, CleanupCalls, ResultsAre
<1>1. Uses(1, MainProgram[1])
    OBVIOUS
<1>2. Uses(2, MainProgram[2])
    OBVIOUS
<1>3. Uses(3, MainProgram[3])
    OBVIOUS
<1>4. Uses(4, MainProgram[4])
    OBVIOUS
<1>5. Uses(5, MainProgram[5])
    OBVIOUS
<1>6. Uses(6, MainProgram[6])
    BY <1>a
<1>7. Uses(7, MainProgram[7])
    BY <1>a
<1>8. Uses(8, MainProgram[8])
    BY <1>0, CallFields DEF Uses, MainOps
<1>9. Uses(9, MainProgram[9])
    BY <1>0, CallFields DEF Uses, MainOps
<1>10. Uses(10, MainProgram[10])
    OBVIOUS
<1>11. Uses(11, MainProgram[11])
    BY <1>a
<1>12. Uses(12, MainProgram[12])
    BY <1>a
<1>13. Uses(13, MainProgram[13])
    OBVIOUS
<1>14. Uses(14, MainProgram[14])
    OBVIOUS
<1>15. Uses(15, MainProgram[15])
    OBVIOUS
<1>16. Uses(16, MainProgram[16])
    BY <1>a
<1>17. Uses(17, MainProgram[17])
    BY <1>a
<1> HIDE UsesOf, CleanupCalls, ResultsAre
<1> QED BY <1>1, <1>2, <1>3, <1>4, <1>5, <1>6, <1>7, <1>8, <1>9, <1>10, <1>11, <1>12, <1>13,
           <1>14, <1>15, <1>16, <1>17

LEMMA LeakUses == \A k \in 1..4 * MaxThreads : Uses(17 + k, MainProgram[17 + k])
<1> SUFFICES ASSUME NEW k \in 1..4 * MaxThreads PROVE Uses(17 + k, MainProgram[17 + k])
    OBVIOUS
<1>1. MainProgram[17 + k] = IF k % 2 = 1 THEN Create("leak") ELSE Join("leak", "NULL")
    BY MainProgramPlaces
<1> QED BY <1>1, UsesOf, ResultsAre

LEMMA LateUses == \A k \in 0..34 : Uses(ExecutionAt + k, MainProgram[ExecutionAt + k])
<1>0. ExecutionAt \in Nat /\ ExecutionAt >= 22
    BY ExecutionPlace
<1>a. /\ "name" \in MainFlags(ExecutionAt + 9)
      /\ "ignored" \in MainFlags(ExecutionAt + 19)
      /\ "ignored" \in MainFlags(ExecutionAt + 28)
      /\ "failed" \in NeverSet
    BY <1>0 DEF MainFlags, NeverSet
<1> USE UsesOf, LateCallsAre, ResultsAre
<1>1. Uses(ExecutionAt + 0, MainProgram[ExecutionAt + 0])
    OBVIOUS
<1>2. Uses(ExecutionAt + 1, MainProgram[ExecutionAt + 1])
    OBVIOUS
<1>3. Uses(ExecutionAt + 2, MainProgram[ExecutionAt + 2])
    OBVIOUS
<1>4. Uses(ExecutionAt + 3, MainProgram[ExecutionAt + 3])
    OBVIOUS
<1>5. Uses(ExecutionAt + 4, MainProgram[ExecutionAt + 4])
    BY <1>0, CallFields DEF Uses, MainOps
<1>6. Uses(ExecutionAt + 5, MainProgram[ExecutionAt + 5])
    BY <1>0, CallFields DEF Uses, MainOps
<1>7. Uses(ExecutionAt + 6, MainProgram[ExecutionAt + 6])
    OBVIOUS
<1>8. Uses(ExecutionAt + 7, MainProgram[ExecutionAt + 7])
    OBVIOUS
<1>9. Uses(ExecutionAt + 8, MainProgram[ExecutionAt + 8])
    OBVIOUS
<1>10. Uses(ExecutionAt + 9, MainProgram[ExecutionAt + 9])
    BY <1>a
<1>11. Uses(ExecutionAt + 10, MainProgram[ExecutionAt + 10])
    OBVIOUS
<1>12. Uses(ExecutionAt + 11, MainProgram[ExecutionAt + 11])
    OBVIOUS
<1>13. Uses(ExecutionAt + 12, MainProgram[ExecutionAt + 12])
    OBVIOUS
<1>14. Uses(ExecutionAt + 13, MainProgram[ExecutionAt + 13])
    OBVIOUS
<1>15. Uses(ExecutionAt + 14, MainProgram[ExecutionAt + 14])
    OBVIOUS
<1>16. Uses(ExecutionAt + 15, MainProgram[ExecutionAt + 15])
    OBVIOUS
<1>17. Uses(ExecutionAt + 16, MainProgram[ExecutionAt + 16])
    BY <1>0, CallFields DEF Uses, MainOps
<1>18. Uses(ExecutionAt + 17, MainProgram[ExecutionAt + 17])
    OBVIOUS
<1>19. Uses(ExecutionAt + 18, MainProgram[ExecutionAt + 18])
    OBVIOUS
<1>20. Uses(ExecutionAt + 19, MainProgram[ExecutionAt + 19])
    BY <1>a
<1>21. Uses(ExecutionAt + 20, MainProgram[ExecutionAt + 20])
    BY <1>a
<1>22. Uses(ExecutionAt + 21, MainProgram[ExecutionAt + 21])
    BY <1>0, CallFields DEF Uses, MainOps
<1>23. Uses(ExecutionAt + 22, MainProgram[ExecutionAt + 22])
    BY <1>0, CallFields DEF Uses, MainOps
<1>24. Uses(ExecutionAt + 23, MainProgram[ExecutionAt + 23])
    BY <1>0, CallFields DEF Uses, MainOps
<1>25. Uses(ExecutionAt + 24, MainProgram[ExecutionAt + 24])
    BY <1>0, CallFields DEF Uses, MainOps
<1>26. Uses(ExecutionAt + 25, MainProgram[ExecutionAt + 25])
    BY <1>0, CallFields DEF Uses, MainOps
<1>27. Uses(ExecutionAt + 26, MainProgram[ExecutionAt + 26])
    BY <1>0, CallFields DEF Uses, MainOps
<1>28. Uses(ExecutionAt + 27, MainProgram[ExecutionAt + 27])
    OBVIOUS
<1>29. Uses(ExecutionAt + 28, MainProgram[ExecutionAt + 28])
    BY <1>a
<1>30. Uses(ExecutionAt + 29, MainProgram[ExecutionAt + 29])
    BY <1>a
<1>31. Uses(ExecutionAt + 30, MainProgram[ExecutionAt + 30])
    BY <1>0, CallFields DEF Uses, MainOps
<1>32. Uses(ExecutionAt + 31, MainProgram[ExecutionAt + 31])
    BY <1>0, CallFields DEF Uses, MainOps
<1>33. Uses(ExecutionAt + 32, MainProgram[ExecutionAt + 32])
    OBVIOUS
<1>34. Uses(ExecutionAt + 33, MainProgram[ExecutionAt + 33])
    BY <1>a
<1>35. Uses(ExecutionAt + 34, MainProgram[ExecutionAt + 34])
    OBVIOUS
<1> HIDE UsesOf, LateCallsAre, ResultsAre
<1> QED BY <1>1, <1>2, <1>3, <1>4, <1>5, <1>6, <1>7, <1>8, <1>9, <1>10, <1>11, <1>12, <1>13,
           <1>14, <1>15, <1>16, <1>17, <1>18, <1>19, <1>20, <1>21, <1>22, <1>23, <1>24, <1>25,
           <1>26, <1>27, <1>28, <1>29, <1>30, <1>31, <1>32, <1>33, <1>34, <1>35

LEMMA EveryUse == \A p \in 1..Len(MainProgram) : Uses(p, MainProgram[p])
<1> DEFINE F == 4 * MaxThreads
<1>1. F \in Nat /\ ExecutionAt = F + 18 /\ Len(MainProgram) = ExecutionAt + 34
    BY MainProgramPlaces
<1>2. /\ \A k \in 1..F : Uses(17 + k, MainProgram[17 + k])
      /\ \A k \in 0..34 : Uses(ExecutionAt + k, MainProgram[ExecutionAt + k])
    BY LeakUses, LateUses
<1> HIDE DEF F
<1>3. ASSUME NEW p \in 1..Len(MainProgram) PROVE Uses(p, MainProgram[p])
  <2>1. CASE p \in 1..17
      BY <2>1, CleanupUses
  <2>2. CASE p \in 18..F + 17
    <3>1. p - 17 \in 1..F /\ 17 + (p - 17) = p
        BY <1>1, <2>2
    <3> QED BY <1>2, <3>1
  <2>3. CASE p \in ExecutionAt..ExecutionAt + 34
    <3>1. p - ExecutionAt \in 0..34 /\ ExecutionAt + (p - ExecutionAt) = p
        BY <1>1, <2>3
    <3> QED BY <1>2, <3>1
  <2> QED BY <1>1, <2>1, <2>2, <2>3
<1> QED BY <1>3

\* The flags that main counts on are set where they are new.
FlagsGoOn(p, c) ==
    /\ MainFlags(p + 1) \subseteq MainFlags(p) \cup (IF c.op \in {"set", "await"} THEN {c.on} ELSE {})
                                            \cup (IF c.op = "join" THEN Left(c.on) ELSE {})
    /\ c.op = "clear" => c.on \notin MainFlags(p + 1)

\* A thread counts as cancelled from there on.
CancelsGoOn(p, c) ==
    \A u \in Workers :
        MainCancels(u, p + 1) <=> MainCancels(u, p) \/ (c.op = "cancel" /\ c.want = "ok" /\ c.on = u)

LEMMA EveryFlag == \A p \in 1..Len(MainProgram) : FlagsGoOn(p, MainProgram[p])
<1> DEFINE e == ExecutionAt
<1>0. e \in Nat /\ e >= 22 /\ Len(MainProgram) = e + 34
    BY ExecutionPlace
<1> SUFFICES ASSUME NEW p \in 1..Len(MainProgram) PROVE FlagsGoOn(p, MainProgram[p])
    OBVIOUS
<1> PICK c : c = MainProgram[p]
    OBVIOUS
<1>1. c.op = "clear" => c.on \notin MainFlags(p + 1)
  <2>1. Uses(p, c)
      BY EveryUse
  <2>2. c.op = "clear" => c.on \in {"ENABLED", "SET"} /\ p + 1 # e + 25
      BY <1>0, <2>1 DEF Uses
  <2> QED BY <2>2 DEF MainFlags
<1>2. MainFlags(p + 1) \subseteq MainFlags(p) \cup (IF c.op \in {"set", "await"} THEN {c.on} ELSE {})
                                            \cup (IF c.op = "join" THEN Left(c.on) ELSE {})
  <2>1. CASE p \notin {3, 5, 10, e + 8, e + 18, e + 24, e + 27}
    <3>1. /\ p + 1 >= 4 => p >= 4
          /\ p + 1 >= 6 => p >= 6
          /\ p + 1 >= 11 => p >= 11
          /\ p + 1 # e + 9 /\ p + 1 # e + 25 /\ p + 1 # e + 19 /\ p + 1 # e + 28
        BY <1>0, <2>1
    <3> QED BY <3>1 DEF MainFlags
  <2>2. CASE p \in {3, 5, 10}
    <3>1. /\ p = 3 => c = Set("CLEANUP_DONE")
          /\ p = 5 => c = Join("pexit", "executed")
          /\ p = 10 => c = Join("cancelsync", "CANCELED")
        BY CleanupCalls
    <3>2. /\ p + 1 >= 4 => p >= 4 \/ p = 3
          /\ p + 1 >= 6 => p >= 6 \/ p = 5
          /\ p + 1 >= 11 => p >= 11 \/ p = 10
          /\ p + 1 # e + 9 /\ p + 1 # e + 25 /\ p + 1 # e + 19 /\ p + 1 # e + 28
        BY <1>0, <2>2
    <3>3. MainFlags(p + 1) \subseteq MainFlags(p) \cup (IF p = 3 THEN {"CLEANUP_DONE"} ELSE {})
              \cup (IF p = 5 THEN Left("pexit") ELSE {}) \cup (IF p = 10 THEN Left("cancelsync") ELSE {})
        BY <3>2 DEF MainFlags, Left
    <3> QED BY <2>2, <3>1, <3>3, CallFields
  <2>3. CASE p \in {e + 8, e + 18, e + 24, e + 27}
    <3>1. /\ p = e + 8 => c = Join("named", "NULL")
          /\ p = e + 18 => c = Join("self", "CANCELED")
          /\ p = e + 24 => c = Await("ENABLED")
          /\ p = e + 27 => c = Join("ext1", "CANCELED")
        BY LateCallsAre
    <3>2. /\ p >= 4 /\ p >= 6 /\ p >= 11
          /\ p + 1 = e + 9 => p = e + 8
          /\ p + 1 = e + 25 => p = e + 24
          /\ p + 1 \in {e + 19, e + 28} => p \in {e + 18, e + 27}
        BY <1>0, <2>3
    <3>3. MainFlags(p + 1) \subseteq MainFlags(p) \cup (IF p = e + 8 THEN Left("named") ELSE {})
              \cup (IF p = e + 24 THEN {"ENABLED"} ELSE {})
              \cup (IF p \in {e + 18, e + 27} THEN {"ignored"} ELSE {})
        BY <3>2 DEF MainFlags, Left
    <3>4. Left("self") = {"ignored"} /\ Left("ext1") = {"ignored"}
        BY DEF Left
    <3> QED BY <2>3, <3>1, <3>3, <3>4, CallFields
  <2> QED BY <2>1, <2>2, <2>3
<1> QED BY <1>1, <1>2 DEF FlagsGoOn

LEMMA EveryCancel == \A p \in 1..Len(MainProgram) : CancelsGoOn(p, MainProgram[p])
<1> DEFINE e == ExecutionAt
<1>0. e \in Nat /\ e >= 22 /\ Len(MainProgram) = e + 34
    BY ExecutionPlace
<1> SUFFICES ASSUME NEW p \in 1..Len(MainProgram) PROVE CancelsGoOn(p, MainProgram[p])
    OBVIOUS
<1> PICK c : c = MainProgram[p]
    OBVIOUS
<1>1. Uses(p, c)
    BY EveryUse
<1>2. /\ p = 9 => c = Cancel("cancelsync", "ok")
      /\ p = e + 25 => c = Cancel("ext1", "ok")
      /\ p = e + 31 => c = Cancel("ext2", "ok")
    BY CleanupCalls, LateCallsAre
<1>3. /\ p + 1 >= 10 <=> p >= 10 \/ p = 9
      /\ p + 1 >= e + 26 <=> p >= e + 26 \/ p = e + 25
      /\ p + 1 >= e + 32 <=> p >= e + 32 \/ p = e + 31
    BY <1>0
<1>4. \A u : c.op = "cancel" /\ c.want = "ok" /\ c.on = u <=>
                \/ u = "cancelsync" /\ p = 9
                \/ u = "ext1" /\ p = e + 25
                \/ u = "ext2" /\ p = e + 31
    BY <1>1, <1>2, CallFields DEF Uses
<1> QED BY <1>3, <1>4 DEF CancelsGoOn, MainCancels

-----------------------------------------------------------------------------
(* A step of main                                                           *)

\* Main goes on, and has done what its instruction says.
MainEffect(c) ==
    /\ ip' = [ip EXCEPT ![Main] = @ + 1]
    /\ mode' \in [Threads -> Modes]
    /\ flags' = CASE c.op = "set" -> flags \cup {c.on}
                  [] c.op = "clear" -> flags \ {c.on}
                  [] OTHER -> flags
    /\ name' = IF c.op = "set_name" THEN [name EXCEPT ![c.on] = c.want] ELSE name
    /\ descriptor' = CASE c.op = "create" -> [descriptor EXCEPT ![c.on].status = "running"]
                       [] c.op = "join" -> [descriptor EXCEPT ![c.on] = NoThread]
                       [] c.op = "cancel" ->
                             [descriptor EXCEPT ![c.on].pending = descriptor[c.on].status # "none"]
                       [] OTHER -> descriptor
    /\ c.op = "join" => descriptor[c.on].status = "ended"
    /\ c.op = "await" => c.on \in flags

\* What main may have done to the descriptor of a thread.
Untouched(u, c) == c.op \notin {"create", "join", "cancel"} \/ c.on # u

LEMMA DescriptorOfMainStep ==
    ASSUME Typed, NEW c, MainEffect(c), NEW u \in Threads
    PROVE  LET d == descriptor[u]
               e == descriptor'[u] IN
           /\ Untouched(u, c) => e = d
           /\ c.op = "create" /\ c.on = u =>
                 /\ e.status = "running" /\ e.result = d.result /\ e.state = d.state
                 /\ e.detached = d.detached /\ e.pending = d.pending /\ e.cleanup = d.cleanup
           /\ c.op = "join" /\ c.on = u => e = NoThread
           /\ c.op = "cancel" /\ c.on = u =>
                 /\ e.status = d.status /\ e.result = d.result /\ e.state = d.state
                 /\ e.detached = d.detached /\ e.cleanup = d.cleanup
                 /\ e.pending = (d.status # "none")
<1>1. /\ DOMAIN descriptor = Threads
      /\ DOMAIN descriptor[u] = {"status", "result", "state", "pending", "detached", "cleanup"}
    BY Fields DEF Typed
<1>2. CASE c.op = "create"
  <2>1. descriptor' = [descriptor EXCEPT ![c.on].status = "running"]
      BY <1>2 DEF MainEffect
  <2> QED BY <1>1, <1>2, <2>1 DEF Untouched
<1>3. CASE c.op = "join"
  <2>1. descriptor' = [descriptor EXCEPT ![c.on] = NoThread]
      BY <1>3 DEF MainEffect
  <2> QED BY <1>1, <1>3, <2>1 DEF Untouched
<1>4. CASE c.op = "cancel"
  <2>1. descriptor' = [descriptor EXCEPT ![c.on].pending = descriptor[c.on].status # "none"]
      BY <1>4 DEF MainEffect
  <2> QED BY <1>1, <1>4, <2>1 DEF Untouched
<1>5. CASE c.op \notin {"create", "join", "cancel"}
  <2>1. descriptor' = descriptor
      BY <1>5 DEF MainEffect
  <2> QED BY <1>5, <2>1 DEF Untouched
<1> QED BY <1>2, <1>3, <1>4, <1>5

\* The flags.
LEMMA FlagsOfMainStep ==
    ASSUME PoolIInv, ChecksIInv, NEW p, p = ip[Main], p \in 1..Len(MainProgram),
           NEW c, c = MainProgram[p], MainEffect(c)
    PROVE  /\ flags' \subseteq Flags \ NeverSet
           /\ MainFlags(p + 1) \subseteq flags'
           /\ \A u \in Workers :
                 /\ descriptor[u].status = "running" => FlagsAt(u, ip[u]) \cap flags \subseteq flags'
                 /\ Left(u) \cap flags \subseteq flags'
           /\ "ENABLED" \notin flags' \ flags
           /\ p = ExecutionAt + 21 => "ENABLED" \notin flags'
           /\ p = ExecutionAt + 22 => "SET" \notin flags'
           /\ p # ExecutionAt + 26 => "SET" \notin flags' \ flags
<1>0. /\ ExecutionAt \in Nat /\ ExecutionAt >= 22
      /\ flags \subseteq Flags \ NeverSet /\ MainFlags(p) \subseteq flags
    BY ExecutionPlace DEF ChecksIInv
<1>1. Uses(p, c) /\ FlagsGoOn(p, c)
    BY EveryUse, EveryFlag
<1>2. /\ c.op = "set" => flags' = flags \cup {c.on}
      /\ c.op = "clear" => flags' = flags \ {c.on}
      /\ c.op \notin {"set", "clear"} => flags' = flags
      /\ c.op = "join" => descriptor[c.on].status = "ended"
      /\ c.op = "await" => c.on \in flags
    BY DEF MainEffect
<1>3. c.op = "set" => c.on \in {"CLEANUP_DONE", "SET"} /\ (c.on = "SET" => p = ExecutionAt + 26)
    BY <1>1 DEF Uses
<1>4. c.op = "clear" => \/ c.on = "ENABLED" /\ p = ExecutionAt + 21
                        \/ c.on = "SET" /\ p = ExecutionAt + 22
    BY <1>1 DEF Uses
<1>5. flags' \subseteq Flags \ NeverSet
    BY <1>0, <1>2, <1>3 DEF Flags, NeverSet
<1>6. MainFlags(p + 1) \subseteq flags'
  <2>1. c.op = "join" => Left(c.on) \subseteq flags
    <3>1. c.op = "join" => c.on \in Workers
        BY EveryPlace DEF WellPaired
    <3> QED BY <1>2, <3>1 DEF ChecksIInv, WorkerInv
  <2>2. MainFlags(p + 1) \subseteq flags \cup (IF c.op = "set" THEN {c.on} ELSE {})
      BY <1>0, <1>1, <1>2, <2>1 DEF FlagsGoOn
  <2>3. CASE c.op = "set"
      BY <1>2, <2>2, <2>3
  <2>4. CASE c.op = "clear"
      BY <1>1, <1>2, <2>2, <2>4 DEF FlagsGoOn
  <2>5. CASE c.op \notin {"set", "clear"}
      BY <1>2, <2>2, <2>5
  <2> QED BY <2>3, <2>4, <2>5
<1>7. ASSUME NEW u \in Workers, descriptor[u].status = "running"
      PROVE  FlagsAt(u, ip[u]) \cap flags \subseteq flags'
  <2>1. "SET" \notin FlagsAt(u, ip[u])
      BY DEF FlagsAt
  <2>2. CASE u = "ext1"
    <3>1. p # ExecutionAt + 21
        BY <1>0, <1>7, <2>2 DEF PoolIInv, Alive, Lives
    <3> QED BY <1>2, <1>4, <2>1, <3>1
  <2>3. CASE u # "ext1"
    <3>1. "ENABLED" \notin FlagsAt(u, ip[u])
        BY <2>3 DEF FlagsAt
    <3> QED BY <1>2, <1>4, <2>1, <3>1
  <2> QED BY <2>2, <2>3
<1>8. ASSUME NEW u \in Workers PROVE Left(u) \cap flags \subseteq flags'
  <2>1. "SET" \notin Left(u) /\ "ENABLED" \notin Left(u)
      BY DEF Left
  <2> QED BY <1>2, <1>4, <2>1
<1>9. /\ p = ExecutionAt + 21 => c.op = "clear" /\ c.on = "ENABLED"
      /\ p = ExecutionAt + 22 => c.op = "clear" /\ c.on = "SET"
  <2>1. MainProgram[ExecutionAt + 21] = Clear("ENABLED") /\ MainProgram[ExecutionAt + 22] = Clear("SET")
      BY LateCallsAre
  <2> QED BY <2>1, CallFields
<1> QED BY <1>2, <1>3, <1>4, <1>5, <1>6, <1>7, <1>8, <1>9

LEMMA FirstPlace ==
    ASSUME NEW u \in Workers
    PROVE  /\ 1 \in 1..LastOf(u) /\ StateAt(u, 1) = "enabled" /\ HandlersAt(u, 1) = <<>>
           /\ ~DetachedAt(u, 1) /\ ~CancelsItself(u, 1) /\ FlagsAt(u, 1) = {}
<1>1. 1 \in 1..LastOf(u)
    BY DEF LastOf
<1>2. StateAt(u, 1) = "enabled"
    BY DEF StateAt
<1>3. HandlersAt(u, 1) = <<>>
    BY DEF HandlersAt
<1>4. ~DetachedAt(u, 1) /\ ~CancelsItself(u, 1)
    BY DEF DetachedAt, CancelsItself
<1>5. FlagsAt(u, 1) = {}
    BY DEF FlagsAt
<1> QED BY <1>1, <1>2, <1>3, <1>4, <1>5

\* The other threads.
LEMMA WorkersOfMainStep ==
    ASSUME Typed, PoolIInv, ChecksIInv, NEW p, p = ip[Main], p \in 1..Len(MainProgram),
           NEW c, c = MainProgram[p], MainEffect(c), NEW u \in Workers
    PROVE  WorkerInv(u)'
<1> DEFINE d == descriptor[u]
           e == descriptor'[u]
           n == ip[u]
<1>0. /\ ExecutionAt \in Nat /\ ExecutionAt >= 22 /\ p \in Int
      /\ u \in Threads /\ Main \in Threads /\ u # Main
      /\ WorkerInv(u)
    BY ExecutionPlace DEF ChecksIInv, Threads, Workers, Terminating, Main
<1>1. Uses(p, c) /\ CancelsGoOn(p, c) /\ WellPaired(p)
    BY EveryUse, EveryCancel, EveryPlace
<1>2. ip'[Main] = p + 1 /\ ip'[u] = n
    BY <1>0 DEF MainEffect, Typed
<1>3. MainCancels(u, p + 1) <=> MainCancels(u, p) \/ (c.op = "cancel" /\ c.want = "ok" /\ c.on = u)
    BY <1>1 DEF CancelsGoOn
<1>4. /\ d.status = "running" => FlagsAt(u, n) \cap flags \subseteq flags'
      /\ Left(u) \cap flags \subseteq flags'
    BY FlagsOfMainStep
<1>5. CASE Untouched(u, c)
  <2>1. e = d
      BY <1>0, <1>5, DescriptorOfMainStep
  <2>2. MainCancels(u, ip'[Main]) <=> MainCancels(u, ip[Main])
      BY <1>2, <1>3, <1>5 DEF Untouched
  <2> QED BY <1>0, <1>2, <1>4, <2>1, <2>2, OthersKept
<1>6. CASE c.op = "create" /\ c.on = u
  <2>1. /\ e.status = "running" /\ e.result = d.result /\ e.state = d.state
        /\ e.detached = d.detached /\ e.pending = d.pending /\ e.cleanup = d.cleanup
      BY <1>0, <1>6, DescriptorOfMainStep
  <2>2. d.status = "none"
      BY <1>1, <1>6 DEF WellPaired, Creates, PoolIInv, Alive
  <2>3. /\ n = 1 /\ d.state = "enabled" /\ ~d.detached /\ ~d.pending /\ d.cleanup = <<>>
        /\ d.result = "NULL" /\ d.detached \in BOOLEAN /\ d.pending \in BOOLEAN
      BY <1>0, <2>2 DEF WorkerInv
  <2>4. ~MainCancels(u, p + 1)
    <3>1. /\ u = "cancelsync" => p = 8
          /\ u = "ext1" => p = ExecutionAt + 23
          /\ u = "ext2" => p = ExecutionAt + 30
        BY <1>1, <1>6 DEF Uses
    <3> QED BY <1>0, <3>1 DEF MainCancels
  <2>5. MainCancels(u, ip[Main])' <=> MainCancels(u, p + 1)
      BY <1>2
  <2>6. /\ e.detached \in BOOLEAN /\ e.pending \in BOOLEAN
        /\ e.detached <=> DetachedAt(u, 1)
        /\ e.pending <=> CancelsItself(u, 1) \/ MainCancels(u, p + 1)
        /\ e.status = "running" /\ e.result = "NULL" /\ e.state = StateAt(u, 1)
        /\ e.cleanup = HandlersAt(u, 1) /\ FlagsAt(u, 1) \subseteq flags'
      BY <2>1, <2>3, <2>4, FirstPlace
  <2> QED BY <1>2, <2>3, <2>5, <2>6, FirstPlace DEF WorkerInv
<1>7. CASE c.op = "join" /\ c.on = u
  <2>1. e = NoThread /\ d.status = "ended"
      BY <1>0, <1>7, DescriptorOfMainStep DEF MainEffect
  <2>2. n = 1
      BY <1>0, <2>1 DEF WorkerInv
  <2>3. /\ e.status = "none" /\ e.result = "NULL" /\ e.state = "enabled"
        /\ e.detached = FALSE /\ e.pending = FALSE /\ e.cleanup = <<>>
      BY <2>1 DEF NoThread
  <2> QED BY <1>2, <2>2, <2>3, FirstPlace DEF WorkerInv
<1>8. CASE c.op = "cancel" /\ c.on = u
  <2>1. /\ e.status = d.status /\ e.result = d.result /\ e.state = d.state
        /\ e.detached = d.detached /\ e.cleanup = d.cleanup
        /\ e.pending = (d.status # "none")
      BY <1>0, <1>8, DescriptorOfMainStep
  <2>2. MainCancels(u, ip[Main])' <=> MainCancels(u, p + 1)
      BY <1>2
  <2>3. CASE c.want = "ok"
    <3>1. d.status = "running"
      <4>1. \/ p = 9 /\ u = "cancelsync"
            \/ p = ExecutionAt + 25 /\ u = "ext1"
            \/ p = ExecutionAt + 31 /\ u = "ext2"
          BY <1>1, <1>8, <2>3 DEF Uses
      <4>2. p = ExecutionAt + 25 => "ENABLED" \in flags
          BY DEF ChecksIInv, MainFlags
      <4>3. p = ExecutionAt + 25 => p \in ExecutionAt + 22..ExecutionAt + 25
          BY <1>0
      <4> QED BY <4>1, <4>2, <4>3 DEF ChecksIInv, MeetingInv
    <3>2. e.pending /\ MainCancels(u, p + 1)
        BY <1>3, <1>8, <2>1, <2>3, <3>1
    <3>3. /\ n \in 1..LastOf(u) /\ d.result = "NULL" /\ d.state = StateAt(u, n)
          /\ d.cleanup = HandlersAt(u, n) /\ d.detached \in BOOLEAN
          /\ d.detached <=> DetachedAt(u, n)
          /\ FlagsAt(u, n) \subseteq flags
        BY <1>0, <3>1 DEF WorkerInv
    <3>4. e.pending \in BOOLEAN
        BY <2>1
    <3> QED BY <1>2, <1>4, <2>1, <2>2, <3>1, <3>2, <3>3, <3>4 DEF WorkerInv
  <2>4. CASE c.want # "ok"
    <3>1. d.status = "none"
      <4>1. p = ExecutionAt + 16 /\ u = "term0"
          BY <1>1, <1>8, <2>4 DEF Uses
      <4>2. ~Lives(u, p)
          BY <1>0, <4>1 DEF Lives
      <4> QED BY <4>2 DEF PoolIInv, Alive
    <3>2. /\ n = 1 /\ d.state = "enabled" /\ ~d.detached /\ ~d.pending /\ d.cleanup = <<>>
          /\ d.result = "NULL" /\ d.detached \in BOOLEAN
        BY <1>0, <3>1 DEF WorkerInv
    <3>3. e.pending = FALSE
        BY <2>1, <3>1
    <3> QED BY <1>2, <2>1, <3>1, <3>2, <3>3, FirstPlace DEF WorkerInv
  <2> QED BY <2>3, <2>4
<1> QED BY <1>5, <1>6, <1>7, <1>8 DEF Untouched

LEMMA MainGoesOnWith ==
    ASSUME SuiteIInv, NameIInv, PoolIInv, ChecksIInv, NEW p, p = ip[Main], p \in 1..Len(MainProgram),
           NEW c, c = MainProgram[p], MainEffect(c)
    PROVE  ChecksIInv'
<1> DEFINE e == ExecutionAt
<1>0. /\ Typed /\ p \in Int /\ e \in Int /\ e >= 22 /\ Len(MainProgram) = e + 34
      /\ Main \in Threads /\ Main \notin Workers /\ \A u \in Workers : u \in Threads /\ u # Main
      /\ "ext1" \in Workers /\ "ext2" \in Workers /\ "cancelsync" \in Workers /\ "named" \in Workers
    BY MainAndNamed, ExecutionPlace
       DEF SuiteIInv, NameIInv, Typed, Threads, Workers, Terminating, Main
<1>1. ip'[Main] = p + 1 /\ \A u \in Workers : ip'[u] = ip[u]
    BY <1>0 DEF MainEffect, Typed
<1>2. Uses(p, c) /\ WellPaired(p)
    BY EveryUse, EveryPlace
<1>3. \A u \in Workers : WorkerInv(u)'
    BY <1>0, WorkersOfMainStep
<1>4. /\ flags' \subseteq Flags \ NeverSet
      /\ MainFlags(p + 1) \subseteq flags'
      /\ "ENABLED" \notin flags' \ flags
      /\ p = e + 21 => "ENABLED" \notin flags'
      /\ p = e + 22 => "SET" \notin flags'
      /\ p # e + 26 => "SET" \notin flags' \ flags
    BY FlagsOfMainStep
<1>5. MainInv'
  <2>1. ip'[Main] \in 1..Len(MainProgram) + 1
      BY <1>0, <1>1
  <2>2. name' \in [Threads -> {"", "Create", "Changed"}]
      BY <1>2 DEF MainEffect, Uses, ChecksIInv, MainInv
  <2>3. descriptor'[Main] = descriptor[Main]
    <3>1. Untouched(Main, c)
        BY <1>0, <1>2 DEF Untouched, WellPaired, Uses, Main
    <3> QED BY <1>0, <3>1, DescriptorOfMainStep
  <2> QED BY <2>1, <2>2, <2>3 DEF MainEffect, Modes, ChecksIInv, MainInv
<1>6. NamesInv'
  <2> SUFFICES /\ p + 1 >= e + 5 /\ descriptor'["named"].status = "running" /\ ip["named"] <= 5 =>
                      name'["named"] = "Create"
               /\ ip["named"] = 6 => name'["named"] = "Changed"
      BY <1>0, <1>1 DEF NamesInv
  <2>1. CASE p = e + 4
    <3>1. c.op = "set_name" /\ c.on = "named" /\ c.want = "Create"
      <4>1. MainProgram[e + 4] = SetName("named", "Create")
          BY LateCallsAre
      <4> QED BY <2>1, <4>1, CallFields
    <3>2. DOMAIN name = Threads
        BY DEF ChecksIInv, MainInv
    <3>3. name'["named"] = "Create"
        BY <1>0, <3>1, <3>2 DEF MainEffect
    <3>4. ip["named"] = 3
      <4>1. ip[Main] = NameTestBegin + 3 /\ p > e /\ NameTestBegin \in Int
          BY <1>0, <2>1, NameTestBeginsBehind
      <4> QED BY <1>0, <4>1
             DEF NameIInv, Phases, MainAlone, MainSleeps, NamedSleeps, NamedEnds, NamedGone, Meeting
    <3> QED BY <3>3, <3>4
  <2>2. CASE p # e + 4
    <3>1. name' = name
        BY <1>2, <2>2 DEF MainEffect, Uses
    <3>2. p + 1 >= e + 5 => p >= e + 5
        BY <1>0, <2>2
    <3>3. p >= e + 5 /\ descriptor'["named"].status = "running" => descriptor["named"].status = "running"
      <4>1. p >= e + 5 => ~Creates("named", p)
        <5>1. Creates("named", p) => ~Lives("named", p) /\ Lives("named", p + 1)
            BY <1>0, <1>2 DEF WellPaired
        <5> QED BY <1>0, <5>1 DEF Lives
      <4>2. ASSUME p >= e + 5, descriptor'["named"].status = "running"
            PROVE  descriptor["named"].status = "running"
        <5>0. "named" \in Threads
            BY <1>0
        <5>1. ~(c.op = "create" /\ c.on = "named")
            BY <4>1, <4>2 DEF Creates
        <5>2. ~(c.op = "join" /\ c.on = "named")
          <6>1. descriptor'["named"] # NoThread
              BY <4>2 DEF NoThread
          <6> QED BY <1>0, <5>0, <6>1, DescriptorOfMainStep
        <5> QED BY <1>0, <4>2, <5>0, <5>1, <5>2, DescriptorOfMainStep DEF Untouched
      <4> QED BY <4>2
    <3> QED BY <3>1, <3>2, <3>3 DEF ChecksIInv, NamesInv
  <2> QED BY <2>1, <2>2
<1>7. MeetingInv'
  <2> DEFINE There(u) == descriptor[u].status = "running"
  <2>1. ASSUME NEW u \in Workers, There(u)', ~(c.op = "create" /\ c.on = u) PROVE There(u)
    <3>1. ~(c.op = "join" /\ c.on = u)
        BY <1>0, <2>1, DescriptorOfMainStep DEF NoThread
    <3> QED BY <1>0, <2>1, <3>1, DescriptorOfMainStep DEF Untouched
  <2>2. ASSUME NEW u \in Workers, There(u) PROVE There(u)'
    <3>1. ~(c.op = "join" /\ c.on = u)
        BY <2>2 DEF MainEffect
    <3> QED BY <1>0, <2>2, <3>1, DescriptorOfMainStep DEF Untouched
  <2>3. p = 8 => There("cancelsync")'
    <3>1. p = 8 => c.op = "create" /\ c.on = "cancelsync"
        BY CleanupCalls, CallFields
    <3> QED BY <1>0, <3>1, DescriptorOfMainStep
  <2>4. p = e + 30 => There("ext2")'
    <3>1. MainProgram[e + 30] = Create("ext2")
        BY LateCallsAre
    <3>2. p = e + 30 => c.op = "create" /\ c.on = "ext2"
        BY <3>1, CallFields
    <3> QED BY <1>0, <3>2, DescriptorOfMainStep
  <2>5. ASSUME p + 1 \in e + 22..e + 25, "ENABLED" \in flags'
        PROVE  There("ext1")' /\ ip["ext1"] >= 7
    <3>1. p \in e + 22..e + 25 /\ "ENABLED" \in flags
        BY <1>0, <1>4, <2>5
    <3>2. There("ext1") /\ ip["ext1"] >= 7
        BY <3>1 DEF ChecksIInv, MeetingInv
    <3> QED BY <1>0, <2>2, <3>2
  <2>6. p + 1 \in e + 23..e + 26 => "SET" \notin flags'
    <3>1. CASE p = e + 22
        BY <1>4, <3>1
    <3>2. CASE p # e + 22
      <4>1. p + 1 \in e + 23..e + 26 => p \in e + 23..e + 26 /\ p # e + 26
          BY <1>0, <3>2
      <4> QED BY <1>4, <4>1 DEF ChecksIInv, MeetingInv
    <3> QED BY <3>1, <3>2
  <2>7. ASSUME There("ext1")', ip["ext1"] >= 8 PROVE p + 1 >= e + 27
    <3>1. There("ext1")
      <4>1. descriptor["ext1"].status = "running"
          BY <1>0, <2>7 DEF ChecksIInv, WorkerInv
      <4> QED BY <4>1
    <3>2. p >= e + 27
        BY <2>7, <3>1 DEF ChecksIInv, MeetingInv
    <3> QED BY <1>0, <3>2
  <2>8. (p + 1 = 9 => p = 8) /\ (p + 1 = e + 31 => p = e + 30)
      BY <1>0
  <2> QED BY <1>0, <1>1, <2>3, <2>4, <2>5, <2>6, <2>7, <2>8 DEF MeetingInv
<1> QED BY <1>1, <1>3, <1>4, <1>5, <1>6, <1>7 DEF ChecksIInv, Flags, NeverSet

-----------------------------------------------------------------------------
(* What main does at its instruction                                        *)

\* Main waits, for the mutex or asleep: nothing that is checked changes.
Stays ==
    /\ UNCHANGED <<ip, descriptor, flags, name>>
    /\ mode' \in [Threads -> Modes]

LEMMA StaysChecked == ASSUME ChecksIInv, Stays PROVE ChecksIInv'
<1>1. MainInv' /\ MeetingInv' /\ NamesInv'
    BY DEF Stays, Modes, ChecksIInv, MainInv, MeetingInv, NamesInv
<1>2. ASSUME NEW t \in Workers PROVE WorkerInv(t)'
    BY DEF Stays, ChecksIInv, WorkerInv
<1> QED BY <1>1, <1>2 DEF Stays, ChecksIInv

LEMMA MainAtWork ==
    ASSUME mode \in [Threads -> Modes], Step(Main), mode[Main] = "run",
           NEW c, c = Instruction(Main)
    PROVE  MainEffect(c) \/ Stays
<1>0. Main \in Threads /\ c.on = On(Main) /\ c.want = Want(Main)
    BY DEF Threads, On, Want
<1>1. \A op : Runs(Main, op) => c.op = op
    BY DEF Runs
<1>2. \A op : Runs(Main, op) => op \notin {"exit", "exit_if", "return", "return_if", "test_cancel",
                      "sleep", "again", "push", "pop", "cancel_state", "detach"}
    BY MainGoes
<1>3. ASSUME c.op \notin {"set", "clear", "set_name", "create", "join", "cancel"},
             UNCHANGED <<descriptor, flags, name>>, mode' \in [Threads -> Modes], Advance(Main),
             c.op = "await" => c.on \in flags
      PROVE  MainEffect(c)
    BY <1>3 DEF MainEffect, Advance
<1>4. CASE SetFlag(Main)
  <2>1. c.op = "set" /\ flags' = flags \cup {c.on} /\ UNCHANGED <<mode, descriptor, name>>
        /\ Advance(Main)
      BY <1>0, <1>1, <1>4 DEF SetFlag, threads
  <2> QED BY <2>1 DEF MainEffect, Advance
<1>5. CASE ClearFlag(Main)
  <2>1. c.op = "clear" /\ flags' = flags \ {c.on} /\ UNCHANGED <<mode, descriptor, name>>
        /\ Advance(Main)
      BY <1>0, <1>1, <1>5 DEF ClearFlag, threads
  <2> QED BY <2>1 DEF MainEffect, Advance
<1>6. CASE AwaitFlag(Main)
  <2>1. c.op = "await" /\ c.on \in flags /\ UNCHANGED <<mode, descriptor, name, flags>>
        /\ Advance(Main)
      BY <1>0, <1>1, <1>6 DEF AwaitFlag, threads
  <2> QED BY <1>3, <2>1
<1>7. CASE Zassert(Main)
  <2>1. c.op \in {"check", "check_not", "check_name"} /\ UNCHANGED <<mode, descriptor, name, flags>>
        /\ Advance(Main)
      BY <1>1, <1>7 DEF Zassert, threads
  <2> QED BY <1>3, <2>1
<1>8. CASE CancelThread(Main)
  <2>1. /\ c.op = "cancel" /\ UNCHANGED <<mode, name, flags>> /\ Advance(Main)
        /\ descriptor' = [descriptor EXCEPT ![c.on].pending = descriptor[c.on].status # "none"]
      BY <1>0, <1>1, <1>8 DEF CancelThread
  <2> QED BY <2>1 DEF MainEffect, Advance
<1>9. CASE NameThread(Main)
  <2>1. c.op = "set_name" /\ name' = [name EXCEPT ![c.on] = c.want]
        /\ UNCHANGED <<mode, descriptor, flags>> /\ Advance(Main)
      BY <1>0, <1>1, <1>9 DEF NameThread, threads
  <2> QED BY <2>1 DEF MainEffect, Advance
<1>10. CASE Unlock(Main) \/ Signal(Main)
  <2>1. c.op \in {"unlock", "signal_cvar0", "signal_cvar1"}
        /\ UNCHANGED <<mode, descriptor, name, flags>> /\ Advance(Main)
      BY <1>1, <1>10 DEF Unlock, Signal, threads
  <2> QED BY <1>3, <2>1
<1>11. CASE Ask(Main) \/ Wait(Main)
  <2>1. UNCHANGED <<ip, descriptor, name, flags>>
        /\ \E m \in Modes : mode' = [mode EXCEPT ![Main] = m]
      BY <1>11 DEF Ask, Wait, Enter, Modes, threads
  <2> QED BY <2>1 DEF Stays
<1>12. CASE \/ PushHandler(Main) \/ PopHandler(Main) \/ Exiting(Main) \/ ReturnFrom(Main)
            \/ Canceled(Main) \/ TestedCancel(Main) \/ Slept(Main) \/ Again(Main)
            \/ SetCancelState(Main) \/ DetachSelf(Main)
    BY <1>2, <1>12
       DEF PushHandler, PopHandler, Exiting, ReturnFrom, Returning, Canceled, TestedCancel, Slept,
           Again, SetCancelState, DetachSelf
<1>13. CASE Locked(Main) \/ Wake(Main)
    BY <1>13 DEF Locked, Wake, Enter
<1> QED BY <1>4, <1>5, <1>6, <1>7, <1>8, <1>9, <1>10, <1>11, <1>12, <1>13 DEF Step

\* Main takes the mutex where it has asked for it, or where it has been asleep.
LEMMA MainLocked ==
    ASSUME SuiteIInv, NameIInv, mode \in [Threads -> Modes], mode[Main] # "run", Step(Main),
           NEW c, c = MainProgram[ip[Main]]
    PROVE  \/ Stays
           \/ ip[Main] \in 1..Len(MainProgram) /\ MainEffect(c)
<1>0. Main \in Threads /\ ip[Main] \in Int /\ ExecutionAt \in Nat
    BY MainAndNamed, ExecutionAtIsNat DEF SuiteIInv
<1>1. ip[Main] > ExecutionAt
    BY <1>0 DEF SuiteIInv, NotNamed
<1>2. PICK k \in 0..7 : ip[Main] = NameTestBegin + k /\ k \in {0, 2}
    BY <1>1 DEF NameIInv, Phases, MainAlone, MainSleeps, NamedSleeps, NamedEnds, NamedGone, Meeting
<1>3. ip[Main] \in 1..Len(MainProgram) /\ NameTestBegin = ExecutionAt + 1
    BY <1>0, <1>2, ExecutionPlace, NameTestBeginsBehind
<1>4. c.op \in {"lock", "wait_cvar0"}
  <2>1. Instruction(Main) = c
    <3>1. Programs[Main] = MainProgram
        BY DEF Programs, Threads, Terminating, Main
    <3> QED BY <3>1 DEF Instruction
  <2> QED BY <1>2, <2>1, MainInTest DEF MainCall
<1>5. CASE Locked(Main)
  <2>1. mode' = [mode EXCEPT ![Main] = "run"] /\ UNCHANGED <<descriptor, flags, name>>
        /\ ip' = [ip EXCEPT ![Main] = @ + 1]
      BY <1>5 DEF Locked, Enter, Advance, threads
  <2>2. mode' \in [Threads -> Modes]
      BY <2>1 DEF Modes
  <2> QED BY <1>3, <1>4, <2>1, <2>2 DEF MainEffect
<1>6. CASE Wake(Main)
  <2>1. mode' = [mode EXCEPT ![Main] = "ask"] /\ UNCHANGED <<ip, descriptor, flags, name>>
      BY <1>6 DEF Wake, Enter, threads
  <2> QED BY <2>1 DEF Stays, Modes
<1> QED BY <1>0, <1>5, <1>6, StepOfWaiting

LEMMA MainChecks ==
    ASSUME SuiteIInv, NameIInv, PoolIInv, ChecksIInv, MainThread
    PROVE  ChecksIInv'
<1>0. mode \in [Threads -> Modes] /\ Main \in Threads
    BY MainAndNamed DEF ChecksIInv, MainInv, Modes
<1> PICK c : c = MainProgram[ip[Main]]
    OBVIOUS
<1>1. ASSUME NEW op, Runs(Main, op)
      PROVE  ip[Main] \in 1..Len(MainProgram) /\ c = Instruction(Main) /\ c.op = op
    BY <1>1, MainRuns
<1>2. Stays \/ (ip[Main] \in 1..Len(MainProgram) /\ MainEffect(c))
  <2>1. CASE Step(Main) /\ mode[Main] # "run"
      BY <1>0, <2>1, MainLocked
  <2>2. CASE Step(Main) /\ mode[Main] = "run"
    <3>1. Runs(Main, Instruction(Main).op)
        BY <1>0, <2>2, StepOfRunning
    <3>2. ip[Main] \in 1..Len(MainProgram) /\ c = Instruction(Main)
        BY <1>1, <3>1
    <3> QED BY <1>0, <2>2, <3>2, MainAtWork
  <2>3. CASE CreateThread
    <3>1. ip[Main] \in 1..Len(MainProgram) /\ c.op = "create" /\ c.on = On(Main)
        BY <1>1, <2>3 DEF CreateThread, On
    <3>2. /\ descriptor' = [descriptor EXCEPT ![c.on].status = "running"]
          /\ ip' = [ip EXCEPT ![Main] = @ + 1] /\ UNCHANGED <<mode, name, flags>>
        BY <2>3, <3>1 DEF CreateThread, Advance
    <3> QED BY <1>0, <3>1, <3>2 DEF MainEffect
  <2>4. CASE JoinThread
    <3>1. ip[Main] \in 1..Len(MainProgram) /\ c.op = "join" /\ c.on = On(Main)
        BY <1>1, <2>4 DEF JoinThread, On
    <3>2. /\ descriptor[c.on].status = "ended" /\ descriptor' = [descriptor EXCEPT ![c.on] = NoThread]
          /\ ip' = [ip EXCEPT ![Main] = @ + 1] /\ UNCHANGED <<mode, name, flags>>
        BY <2>4, <3>1 DEF JoinThread, Advance
    <3> QED BY <1>0, <3>1, <3>2 DEF MainEffect
  <2> QED BY <2>1, <2>2, <2>3, <2>4 DEF MainThread
<1> QED BY <1>2, StaysChecked, MainGoesOnWith

LEMMA ChecksIInvNext ==
    ASSUME SuiteIInv, NameIInv, PoolIInv, ChecksIInv, [SuiteNext]_suiteVars
    PROVE  ChecksIInv'
<1>0. mode \in [Threads -> Modes]
    BY DEF ChecksIInv, MainInv, Modes
<1>1. CASE UNCHANGED <<ip, mode, descriptor, flags, name>>
    BY <1>0, <1>1, StaysChecked DEF Stays
<1>2. CASE ExecutionEnds \/ JoinsEnd
  <2> PICK c : c = MainProgram[ip[Main]]
      OBVIOUS
  <2>1. /\ Runs(Main, "execution") \/ Runs(Main, "joins")
        /\ ip' = [ip EXCEPT ![Main] = @ + 1] /\ UNCHANGED <<mode, descriptor, name, flags>>
      BY <1>2 DEF ExecutionEnds, JoinsEnd, Executing, Joining, Advance, threads
  <2>2. ip[Main] \in 1..Len(MainProgram) /\ c.op \in {"execution", "joins"}
      BY <2>1, MainRuns
  <2>3. MainEffect(c)
      BY <1>0, <2>1, <2>2 DEF MainEffect
  <2> QED BY <2>2, <2>3, MainGoesOnWith
<1>3. CASE TestStep
    BY <1>3, WorkerChecks, MainChecks DEF TestStep, Next
<1>4. CASE ExecutionStep \/ JoinStep \/ Finished \/ UNCHANGED suiteVars
    BY <1>1, <1>4 DEF ExecutionStep, JoinStep, Finished, suiteVars, vars, testVars, threads
<1> QED BY <1>2, <1>3, <1>4 DEF SuiteNext

LEMMA InitChecksIInv == SuiteInit => ChecksIInv
<1> SUFFICES ASSUME SuiteInit PROVE ChecksIInv
    OBVIOUS
<1>0. /\ ip = [t \in Threads |-> 1] /\ mode = [t \in Threads |-> "run"]
      /\ descriptor = [t \in Threads |->
                          IF t = Main THEN [NoThread EXCEPT !.status = "running"] ELSE NoThread]
      /\ name = [t \in Threads |-> ""] /\ flags = {}
      /\ Main \in Threads /\ Main \notin Workers /\ Workers \subseteq Threads
    BY DEF SuiteInit, Init, Threads, Workers, Terminating, Main
<1>1. ip[Main] = 1 /\ ExecutionAt \in Nat /\ ExecutionAt >= 22 /\ Len(MainProgram) = ExecutionAt + 34
    BY <1>0, ExecutionPlace
<1>2. MainInv
  <2>1. ip[Main] \in 1..Len(MainProgram) + 1
      BY <1>1
  <2>2. descriptor[Main] = [NoThread EXCEPT !.status = "running"]
      BY <1>0
  <2>3. mode \in [Threads -> {"run", "ask", "asleep"}] /\ name \in [Threads -> {"", "Create", "Changed"}]
      BY <1>0
  <2> QED BY <2>1, <2>2, <2>3 DEF MainInv
<1>3. \A t \in Workers : ip[t] = 1 /\ descriptor[t] = NoThread
    BY <1>0
<1>4. ASSUME NEW t \in Workers PROVE WorkerInv(t)
  <2>1. 1 \in 1..LastOf(t)
      BY FirstPlace
  <2>2. /\ ip[t] = 1 /\ descriptor[t].status = "none" /\ descriptor[t].result = "NULL"
        /\ descriptor[t].state = "enabled" /\ descriptor[t].cleanup = <<>>
        /\ descriptor[t].pending = FALSE /\ descriptor[t].detached = FALSE
      BY <1>3 DEF NoThread
  <2> QED BY <2>1, <2>2 DEF WorkerInv
<1>5. "named" \in Workers /\ "ext1" \in Workers /\ "ext2" \in Workers /\ "cancelsync" \in Workers
    BY DEF Workers
<1>6. NamesInv
    BY <1>1, <1>3, <1>5 DEF NamesInv
<1>7. MeetingInv
    BY <1>1, <1>3, <1>5 DEF MeetingInv, NoThread
<1>8. flags \subseteq Flags \ NeverSet /\ MainFlags(ip[Main]) \subseteq flags
  <2>1. MainFlags(1) = {}
      BY <1>1 DEF MainFlags
  <2> QED BY <1>0, <1>1, <2>1
<1> QED BY <1>2, <1>4, <1>6, <1>7, <1>8 DEF ChecksIInv

\* Where each thread is says what has become of it, which flags are set, and
\* how far main can be.
THEOREM AlwaysChecksIInv == Spec => []ChecksIInv
<1>1. SuiteInit => ChecksIInv
    BY InitChecksIInv
<1>2. SuiteIInv /\ NameIInv /\ PoolIInv /\ ChecksIInv /\ [SuiteNext]_suiteVars => ChecksIInv'
    BY ChecksIInvNext
<1> QED BY <1>1, <1>2, AlwaysNameIInv, AlwaysPoolIInv, PTL DEF Spec

-----------------------------------------------------------------------------
(* What is checked                                                          *)

LEMMA WorkersChecked ==
    ASSUME SuiteIInv, NameIInv, PoolIInv, ChecksIInv, NEW t \in Workers
    PROVE  /\ ~Runs(t, "unreachable")
           /\ Runs(t, "exit_if") \/ Runs(t, "return_if") => On(t) \in flags
           /\ Runs(t, "check") => On(t) \in flags
           /\ Runs(t, "check_not") => On(t) \notin flags
           /\ Runs(t, "check_name") => name[On(t)] = Want(t)
           /\ Runs(t, "set_name") => descriptor[On(t)].status = "running"
           /\ ~Runs(t, "join")
           /\ Runs(t, "cancel") => (Want(t) = "ESRCH" <=> descriptor[On(t)].status = "none")
           /\ Runs(t, "detach") => (Want(t) = "EINVAL" <=> descriptor[t].detached)
<1> DEFINE n == ip[t]
           p == ip[Main]
           e == ExecutionAt
<1> PICK c : c = Programs[t][n]
    OBVIOUS
<1>0. /\ c = Instruction(t) /\ On(t) = c.on /\ Want(t) = c.want
      /\ \A op : Runs(t, op) => c.op = op /\ descriptor[t].status = "running"
    BY DEF Instruction, On, Want, Runs
<1>1. p \in Int /\ e \in Nat /\ e >= 22 /\ NameTestBegin = e + 1 /\ n \in Int
    BY MainAndNamed, ExecutionPlace, NameTestBeginsBehind
       DEF SuiteIInv, Threads
<1> SUFFICES ASSUME descriptor[t].status = "running"
             PROVE  /\ c.op # "unreachable"
                    /\ c.op \in {"exit_if", "return_if"} => c.on \in flags
                    /\ c.op = "check" => c.on \in flags
                    /\ c.op = "check_not" => c.on \notin flags
                    /\ c.op = "check_name" => name[c.on] = c.want
                    /\ c.op = "set_name" => descriptor[c.on].status = "running"
                    /\ c.op # "join"
                    /\ c.op = "cancel" => (c.want = "ESRCH" <=> descriptor[c.on].status = "none")
                    /\ c.op = "detach" => (c.want = "EINVAL" <=> descriptor[t].detached)
    BY <1>0
<1>2. WorkerInv(t) /\ Lives(t, p)
    BY DEF ChecksIInv, PoolIInv, Alive
<1>3. /\ n \in 1..LastOf(t) /\ FlagsAt(t, n) \subseteq flags
      /\ descriptor[t].detached <=> DetachedAt(t, n)
    BY <1>2 DEF WorkerInv
<1>4. c.op \in WorkerOps /\ Checked(t, n, c)
    BY <1>3, AllKept DEF WellKept
<1>5. c.op \notin {"unreachable", "join"}
    BY <1>4 DEF WorkerOps
<1>6. ASSUME c.op \in {"exit_if", "return_if"} PROVE c.on \in flags
  <2>1. c.on = "CLEANUP_DONE" /\ t \in {"pexit", "return"}
      BY <1>4, <1>6 DEF Checked
  <2>2. p >= 4
      BY <1>2, <2>1 DEF Lives
  <2>3. c.on \in MainFlags(p)
      BY <2>1, <2>2 DEF MainFlags
  <2> QED BY <2>3 DEF ChecksIInv
<1>7. c.op = "check" => c.on \in flags
    BY <1>3, <1>4 DEF Checked
<1>8. c.op = "check_not" => c.on \notin flags
    BY <1>4 DEF Checked, ChecksIInv
<1>9. ASSUME c.op = "check_name" PROVE name[c.on] = c.want
  <2>1. /\ t = "named" /\ c.on = "named" /\ n \in {4, 6}
        /\ n = 4 => c.want = "Create"
        /\ n = 6 => c.want = "Changed"
      BY <1>1, <1>4, <1>9 DEF Checked
  <2>2. CASE n = 4
    <3>1. p > e
        BY <1>1, <1>2, <2>1 DEF Lives
    <3>2. p = NameTestBegin + 7
        BY <2>1, <2>2, <3>1
           DEF NameIInv, Phases, MainAlone, MainSleeps, NamedSleeps, NamedEnds, NamedGone, Meeting,
               Named
    <3>3. p >= e + 5
        BY <1>1, <3>2
    <3> QED BY <2>1, <2>2, <3>3 DEF ChecksIInv, NamesInv
  <2>3. CASE n = 6
      BY <2>1, <2>3 DEF ChecksIInv, NamesInv
  <2> QED BY <2>1, <2>2, <2>3
<1>10. c.op = "set_name" => descriptor[c.on].status = "running"
    BY <1>4 DEF Checked
<1>11. c.op = "cancel" => (c.want = "ESRCH" <=> descriptor[c.on].status = "none")
    BY <1>4 DEF Checked
<1>12. c.op = "detach" => (c.want = "EINVAL" <=> descriptor[t].detached)
    BY <1>3, <1>4 DEF Checked
<1> QED BY <1>5, <1>6, <1>7, <1>8, <1>9, <1>10, <1>11, <1>12

LEMMA MainChecked ==
    ASSUME SuiteIInv, NameIInv, PoolIInv, ChecksIInv
    PROVE  /\ ~Runs(Main, "unreachable")
           /\ ~Runs(Main, "exit_if") /\ ~Runs(Main, "return_if")
           /\ Runs(Main, "check") => On(Main) \in flags
           /\ Runs(Main, "check_not") => On(Main) \notin flags
           /\ Runs(Main, "check_name") => name[On(Main)] = Want(Main)
           /\ Runs(Main, "set_name") => descriptor[On(Main)].status = "running"
           /\ Runs(Main, "join") /\ descriptor[On(Main)].status = "ended" =>
                 Want(Main) \in {"any", descriptor[On(Main)].result}
           /\ Runs(Main, "cancel") =>
                 (Want(Main) = "ESRCH" <=> descriptor[On(Main)].status = "none")
           /\ ~Runs(Main, "detach")
<1> DEFINE p == ip[Main]
           e == ExecutionAt
<1> PICK c : c = MainProgram[p]
    OBVIOUS
<1>0. \A op : Runs(Main, op) => /\ c.op = op /\ p \in 1..Len(MainProgram)
                                /\ On(Main) = c.on /\ Want(Main) = c.want
    BY MainRuns DEF On, Want
<1>1. e \in Nat /\ e >= 22 /\ NameTestBegin = e + 1
    BY ExecutionPlace, NameTestBeginsBehind
<1> SUFFICES ASSUME p \in 1..Len(MainProgram)
             PROVE  /\ c.op \notin {"unreachable", "exit_if", "return_if", "detach"}
                    /\ c.op = "check" => c.on \in flags
                    /\ c.op = "check_not" => c.on \notin flags
                    /\ c.op = "check_name" => name[c.on] = c.want
                    /\ c.op = "set_name" => descriptor[c.on].status = "running"
                    /\ c.op = "join" /\ descriptor[c.on].status = "ended" =>
                          c.want \in {"any", descriptor[c.on].result}
                    /\ c.op = "cancel" => (c.want = "ESRCH" <=> descriptor[c.on].status = "none")
    BY <1>0
<1>2. Uses(p, c) /\ WellPaired(p)
    BY EveryUse, EveryPlace
<1>3. /\ c.op \notin {"unreachable", "exit_if", "return_if", "detach"}
      /\ c.op = "check" => c.on \in flags
      /\ c.op = "check_not" => c.on \notin flags
    BY <1>2 DEF Uses, MainOps, ChecksIInv
<1>4. ASSUME c.op = "check_name" PROVE name[c.on] = c.want
  <2>1. p = e + 5 /\ c.on = "named" /\ c.want = "Create"
      BY <1>2, <1>4 DEF Uses
  <2>2. p > e /\ p = NameTestBegin + 4 /\ NameTestBegin \in Int
      BY <1>1, <2>1
  <2>3. descriptor["named"].status = "running" /\ ip["named"] = 3
      BY <2>2
         DEF NameIInv, Phases, MainAlone, MainSleeps, NamedSleeps, NamedEnds, NamedGone, Meeting,
             Named
  <2>4. p >= e + 5
      BY <1>1, <2>1
  <2> QED BY <2>1, <2>3, <2>4 DEF ChecksIInv, NamesInv
<1>5. ASSUME c.op = "set_name" PROVE descriptor[c.on].status = "running"
  <2>1. p = e + 4 /\ c.on = "named"
      BY <1>2, <1>5 DEF Uses
  <2>2. p > e /\ p = NameTestBegin + 3 /\ NameTestBegin \in Int
      BY <1>1, <2>1
  <2>3. descriptor["named"].status = "running"
      BY <2>2
         DEF NameIInv, Phases, MainAlone, MainSleeps, NamedSleeps, NamedEnds, NamedGone, Meeting,
             Named
  <2> QED BY <2>1, <2>3
<1>6. ASSUME c.op = "join", descriptor[c.on].status = "ended"
      PROVE  c.want \in {"any", descriptor[c.on].result}
  <2>1. c.on \in Workers /\ (c.want = "any" \/ Results(c.on) = {c.want})
      BY <1>2, <1>6 DEF WellPaired, Uses
  <2>2. descriptor[c.on].result \in Results(c.on)
      BY <1>6, <2>1 DEF ChecksIInv, WorkerInv
  <2> QED BY <2>1, <2>2
<1>7. ASSUME c.op = "cancel" PROVE c.want = "ESRCH" <=> descriptor[c.on].status = "none"
  <2>1. CASE p = e + 16 /\ c.on = "term0" /\ c.want = "ESRCH"
    <3>1. ~Lives("term0", p)
        BY <1>1, <2>1 DEF Lives
    <3>2. "term0" \in Workers
        BY WorkerNames
    <3> QED BY <2>1, <3>1, <3>2 DEF PoolIInv, Alive
  <2>2. CASE p = 9 /\ c.on = "cancelsync" /\ c.want = "ok"
      BY <2>2 DEF ChecksIInv, MeetingInv
  <2>3. CASE p = e + 25 /\ c.on = "ext1" /\ c.want = "ok"
    <3>1. "ENABLED" \in MainFlags(p)
        BY <2>3 DEF MainFlags
    <3>2. p \in e + 22..e + 25 /\ "ENABLED" \in flags
        BY <1>1, <2>3, <3>1 DEF ChecksIInv
    <3> QED BY <2>3, <3>2 DEF ChecksIInv, MeetingInv
  <2>4. CASE p = e + 31 /\ c.on = "ext2" /\ c.want = "ok"
      BY <2>4 DEF ChecksIInv, MeetingInv
  <2> QED BY <1>2, <1>7, <2>1, <2>2, <2>3, <2>4 DEF Uses
<1> QED BY <1>3, <1>4, <1>5, <1>6, <1>7

LEMMA ChecksAreMet ==
    ASSUME SuiteIInv, NameIInv, PoolIInv, ChecksIInv
    PROVE  ChecksHold
<1>1. \A t \in Threads : t = Main \/ t \in Workers
    BY DEF Threads
<1> QED BY <1>1, WorkersChecked, MainChecked DEF ChecksHold

\* The types are those of where the threads are.
LEMMA DescriptorTypes ==
    ASSUME ChecksIInv, NEW t \in Threads
    PROVE  /\ descriptor[t].status \in {"none", "running", "ended"}
           /\ descriptor[t].result \in {"NULL", "executed", "CANCELED", "p1"}
           /\ descriptor[t].state \in {"enabled", "disabled"}
           /\ descriptor[t].pending \in BOOLEAN
           /\ descriptor[t].detached \in BOOLEAN
           /\ ToSet(descriptor[t].cleanup) \subseteq Flags
<1>0. ToSet(<<>>) = {}
    BY HandlerSequences
<1>1. CASE t = Main
  <2>1. /\ descriptor[t].status = "running" /\ descriptor[t].result = "NULL"
        /\ descriptor[t].state = "enabled" /\ descriptor[t].pending = FALSE
        /\ descriptor[t].detached = FALSE /\ descriptor[t].cleanup = <<>>
      BY <1>1 DEF ChecksIInv, MainInv, NoThread
  <2> QED BY <1>0, <2>1
<1>2. CASE t \in Workers
  <2>1. WorkerInv(t)
      BY <1>2 DEF ChecksIInv
  <2>2. \A x : Results(x) \subseteq {"NULL", "executed", "CANCELED", "p1"}
      BY DEF Results
  <2>3. descriptor[t].result \in {"NULL", "executed", "CANCELED", "p1"}
    <3>1. descriptor[t].result = "NULL" \/ descriptor[t].result \in Results(t)
        BY <2>1 DEF WorkerInv
    <3> QED BY <2>2, <3>1
  <2>4. \A n : StateAt(t, n) \in {"enabled", "disabled"}
      BY DEF StateAt
  <2>5. \A n : ToSet(HandlersAt(t, n)) \subseteq Flags
    <3>1. \A x : ToSet(<<x>>) = {x}
        BY DEF ToSet
    <3>2. \A n : \/ HandlersAt(t, n) = <<>>
                 \/ \E x \in Flags : HandlersAt(t, n) = <<x>>
                 \/ \E x, y \in Flags : HandlersAt(t, n) = <<x, y>>
      <4>1. CASE t \notin {"explicit", "pexit", "cancelsync", "return"}
          BY <4>1 DEF HandlersAt
      <4>2. ASSUME t \in {"explicit", "pexit", "cancelsync", "return"}
            PROVE  \E x, y \in Flags : Handlers(t) = <<x, y>>
          BY <4>2 DEF Handlers, Flags
      <4>3. CASE t \in {"explicit", "pexit", "cancelsync", "return"}
        <5>1. PICK x \in Flags, y \in Flags : Handlers(t) = <<x, y>>
            BY <4>2, <4>3
        <5>2. Handlers(t)[1] = x
            BY <5>1
        <5>3. \A n : HandlersAt(t, n) \in {<<>>, <<x>>, <<x, y>>}
            BY <5>1, <5>2 DEF HandlersAt
        <5> QED BY <5>3
      <4> QED BY <4>1, <4>3
    <3> QED BY <1>0, <3>1, <3>2, HandlerSequences
  <2> QED BY <1>0, <2>1, <2>3, <2>4, <2>5 DEF WorkerInv
<1> QED BY <1>1, <1>2 DEF Threads

LEMMA TypesAreMet ==
    ASSUME SuiteIInv, PoolIInv, ChecksIInv
    PROVE  TypeOK
<1>1. ip \in [Threads -> 1..Len(MainProgram) + 1]
  <2>1. ASSUME NEW t \in Workers PROVE ip[t] \in 1..Len(MainProgram) + 1
    <3>1. LastOf(t) \in 1..9 /\ ip[t] \in 1..LastOf(t)
        BY <2>1 DEF ChecksIInv, WorkerInv, LastOf
    <3> QED BY <3>1, ExecutionPlace
  <2>2. ip[Main] \in 1..Len(MainProgram) + 1
      BY DEF ChecksIInv, MainInv
  <2> QED BY <2>1, <2>2 DEF Threads, SuiteIInv
<1>2. /\ mode \in [Threads -> {"run", "ask", "asleep"}]
      /\ name \in [Threads -> {"", "Create", "Changed"}]
      /\ flags \in SUBSET Flags
    BY DEF ChecksIInv, MainInv
<1>3. used = Cardinality({t \in Workers : descriptor[t].status # "none"})
    BY DEF PoolIInv, Alive
<1> QED BY <1>1, <1>2, <1>3, DescriptorTypes DEF TypeOK

\* Every zassert of the tests of clean-up, descriptors, names, termination and
\* cancellation holds, for every pool and however the threads run.
THEOREM AlwaysChecksHold == Spec => [](TypeOK /\ ChecksHold)
<1>1. SuiteIInv /\ NameIInv /\ PoolIInv /\ ChecksIInv => TypeOK /\ ChecksHold
    BY ChecksAreMet, TypesAreMet
<1> QED BY <1>1, AlwaysNameIInv, AlwaysPoolIInv, AlwaysChecksIInv, PTL

-----------------------------------------------------------------------------
(* BounceBarrier: the types                                                 *)

\* The workers that have posted for main once, and those that have done it
\* again.
Posted == {t \in Bouncers : pc[t] \in BounceDone \ {"post"}}
PostedLast == {t \in Bouncers : pc[t] = "ended"}

\* The semaphore has nothing but the one it starts with and what they post.
PostsIInv ==
    /\ main_sem \in Nat
    /\ main_sem <= 1 + Cardinality(Posted) + Cardinality(PostedLast)
    /\ curr_bounce_thread \in Bouncers

LEMMA CountedSequence ==
    ASSUME NEW S, NEW s \in Seq(S), \A k, l \in 1..Len(s) : s[k] = s[l] => k = l
    PROVE  Cardinality(ToSet(s)) = Len(s)
<1>1. s \in Bijection(1..Len(s), ToSet(s))
    BY DEF Bijection, Injection, Surjection, IsInjective, ToSet
<1>2. ExistsBijection(1..Len(s), ToSet(s)) /\ Len(s) \in Nat
    BY <1>1 DEF ExistsBijection
<1> QED BY <1>2, FS_CountingElements

LEMMA BouncersAreFinite ==
    /\ IsFiniteSet(Bouncers) /\ Cardinality(Bouncers) = N_THR_E
    /\ \A T \in SUBSET Bouncers :
          IsFiniteSet(T) /\ Cardinality(T) \in Nat /\ Cardinality(T) <= N_THR_E
<1>1. IsFiniteSet(Bouncers) /\ Cardinality(Bouncers) = N_THR_E
    BY Identities, FS_Interval DEF Bouncers, Execution!Workers
<1> QED BY <1>1, FS_Subset, FS_CardinalityType

LEMMA PostsFrame ==
    ASSUME PostsIInv, UNCHANGED main_sem, curr_bounce_thread' \in Bouncers,
           \A t \in Bouncers : /\ pc[t] \in BounceDone \ {"post"} => pc'[t] \in BounceDone \ {"post"}
                               /\ pc[t] = "ended" => pc'[t] = "ended"
    PROVE  PostsIInv'
<1>1. Posted \subseteq Posted' /\ PostedLast \subseteq PostedLast'
    BY DEF Posted, PostedLast
<1>2. Posted' \in SUBSET Bouncers /\ PostedLast' \in SUBSET Bouncers
    BY DEF Posted, PostedLast
<1>3. /\ Cardinality(Posted) <= Cardinality(Posted') /\ Cardinality(Posted) \in Nat
      /\ Cardinality(PostedLast) <= Cardinality(PostedLast') /\ Cardinality(PostedLast) \in Nat
      /\ Cardinality(Posted') \in Nat /\ Cardinality(PostedLast') \in Nat
    BY <1>1, <1>2, BouncersAreFinite, FS_Subset, FS_CardinalityType
<1> QED BY <1>3 DEF PostsIInv

\* One more has posted.
LEMMA PostsOneMore ==
    ASSUME PostsIInv, main_sem' = main_sem + 1, UNCHANGED curr_bounce_thread, NEW t \in Bouncers,
           \/ Posted' = Posted \cup {t} /\ t \notin Posted /\ PostedLast' = PostedLast
           \/ PostedLast' = PostedLast \cup {t} /\ t \notin PostedLast /\ Posted' = Posted
    PROVE  PostsIInv'
<1>1. /\ IsFiniteSet(Posted) /\ Cardinality(Posted) \in Nat
      /\ IsFiniteSet(PostedLast) /\ Cardinality(PostedLast) \in Nat
    BY BouncersAreFinite DEF Posted, PostedLast
<1>2. /\ t \notin Posted => Cardinality(Posted \cup {t}) = Cardinality(Posted) + 1
      /\ t \notin PostedLast => Cardinality(PostedLast \cup {t}) = Cardinality(PostedLast) + 1
    BY <1>1, FS_AddElement
<1>3. CASE Posted' = Posted \cup {t} /\ t \notin Posted /\ PostedLast' = PostedLast
  <2>1. Cardinality(Posted') = Cardinality(Posted) + 1 /\ Cardinality(PostedLast') = Cardinality(PostedLast)
      BY <1>2, <1>3
  <2> QED BY <1>1, <2>1 DEF PostsIInv
<1>4. CASE PostedLast' = PostedLast \cup {t} /\ t \notin PostedLast /\ Posted' = Posted
  <2>1. Cardinality(PostedLast') = Cardinality(PostedLast) + 1 /\ Cardinality(Posted') = Cardinality(Posted)
      BY <1>2, <1>4
  <2> QED BY <1>1, <2>1 DEF PostsIInv
<1> QED BY <1>3, <1>4

LEMMA PostsNext ==
    ASSUME Places, PostsIInv, Execution!Next
    PROVE  PostsIInv'
<1>0. /\ DOMAIN pc = Everyone /\ Execution!Main \in Everyone
      /\ \A t \in Bouncers : t \in Everyone /\ t # Execution!Main
    BY Identities DEF Places, Everyone, Bouncers
<1>1. ASSUME NEW t \in Bouncers, Execution!Bounce(t) PROVE PostsIInv'
  <2>1. pc[t] \in Bouncing
      BY <1>1
         DEF Execution!Bounce, Execution!AskFirst, Execution!TryLock, Execution!AskToBounce,
             Execution!Sleep, Execution!Delay, Execution!EndDelay, Execution!Wake, Execution!Claim,
             Execution!Signal, Execution!NextBounce, Execution!Go, Bouncing, Before
  <2>2. /\ \A u \in Bouncers \ {t} : pc'[u] = pc[u]
        /\ UNCHANGED main_sem /\ curr_bounce_thread' \in {curr_bounce_thread, t}
      BY <1>0, <1>1
         DEF Execution!Bounce, Execution!AskFirst, Execution!TryLock, Execution!AskToBounce,
             Execution!Sleep, Execution!Delay, Execution!EndDelay, Execution!Wake, Execution!Claim,
             Execution!Signal, Execution!NextBounce, Execution!Go, Execution!handover
  <2>3. pc[t] \notin BounceDone
      BY <2>1 DEF Bouncing, Before, BounceDone, Arrived
  <2>4. pc[t] # "ended"
      BY <2>3 DEF BounceDone, Arrived
  <2>5. curr_bounce_thread' \in Bouncers
      BY <2>2 DEF PostsIInv
  <2> QED BY <2>2, <2>3, <2>4, <2>5, PostsFrame
<1>2. ASSUME NEW t \in Bouncers, Execution!LineUp(t) PROVE PostsIInv'
  <2>1. CASE Execution!Post(t)
    <3>1. /\ pc[t] = "post" /\ pc'[t] = "parting" /\ \A u \in Bouncers \ {t} : pc'[u] = pc[u]
          /\ main_sem' = main_sem + 1 /\ UNCHANGED curr_bounce_thread
        BY <1>0, <2>1 DEF Execution!Post, Execution!Go, Execution!bounce
    <3>2. Posted' = Posted \cup {t} /\ t \notin Posted /\ PostedLast' = PostedLast
        BY <3>1 DEF Posted, PostedLast, BounceDone
    <3> QED BY <3>1, <3>2, PostsOneMore
  <2>2. CASE Execution!LastPost(t)
    <3>1. /\ pc[t] = "last_post" /\ pc'[t] = "ended" /\ \A u \in Bouncers \ {t} : pc'[u] = pc[u]
          /\ main_sem' = main_sem + 1 /\ UNCHANGED curr_bounce_thread
        BY <1>0, <2>2 DEF Execution!LastPost, Execution!Go, Execution!bounce
    <3>2. PostedLast' = PostedLast \cup {t} /\ t \notin PostedLast /\ Posted' = Posted
        BY <3>1 DEF Posted, PostedLast, BounceDone, Arrived
    <3> QED BY <3>1, <3>2, PostsOneMore
  <2>3. CASE \/ Execution!AskAgain(t) \/ Execution!SetDone(t) \/ Execution!SleepForMain(t)
             \/ Execution!WakeByMain(t) \/ Execution!Leave(t) \/ Execution!Arrive(t)
             \/ Execution!Pass(t) \/ Execution!SetBarrierDone(t)
    <3>1. /\ \/ pc[t] \in {"bounced", "done"}
             \/ pc[t] # "ended" /\ pc'[t] \in BounceDone \ {"post"}
          /\ \A u \in Bouncers \ {t} : pc'[u] = pc[u]
          /\ UNCHANGED <<main_sem, curr_bounce_thread>>
        BY <1>0, <2>3
           DEF Execution!AskAgain, Execution!SetDone, Execution!SleepForMain, Execution!WakeByMain,
               Execution!Leave, Execution!Arrive, Execution!Pass, Execution!SetBarrierDone,
               Execution!Go, Execution!bounce, Execution!handover, BounceDone, Arrived
    <3>2. /\ pc[t] \in BounceDone \ {"post"} => pc'[t] \in BounceDone \ {"post"}
          /\ pc[t] # "ended"
        BY <3>1 DEF BounceDone, Arrived
    <3>3. curr_bounce_thread' \in Bouncers
        BY <3>1 DEF PostsIInv
    <3> QED BY <3>1, <3>2, <3>3, PostsFrame
  <2> QED BY <1>2, <2>1, <2>2, <2>3 DEF Execution!LineUp
<1>3. CASE Execution!MainThread
  <2>1. /\ \A t \in Bouncers : pc'[t] = pc[t]
        /\ UNCHANGED curr_bounce_thread
        /\ main_sem' = main_sem \/ (main_sem > 0 /\ main_sem' = main_sem - 1)
      BY <1>0, <1>3
         DEF Execution!MainThread, Execution!TestBounce, Execution!TestBarrier, Execution!SemWait,
             Execution!AskToWake, Execution!Broadcast, Execution!Release, Execution!Join,
             Execution!Go, Execution!bounce, Execution!handover
  <2>2. Posted' = Posted /\ PostedLast' = PostedLast
      BY <2>1 DEF Posted, PostedLast
  <2>3. Cardinality(Posted) \in Nat /\ Cardinality(PostedLast) \in Nat
      BY BouncersAreFinite DEF Posted, PostedLast
  <2>4. main_sem' \in Nat /\ main_sem' <= main_sem
      BY <2>1 DEF PostsIInv
  <2> QED BY <2>1, <2>2, <2>3, <2>4 DEF PostsIInv
<1>4. CASE Execution!Finished
  <2>1. UNCHANGED <<pc, main_sem, curr_bounce_thread>>
      BY <1>4 DEF Execution!Finished, Execution!vars, Execution!locals, Execution!bounce,
         Execution!handover
  <2> QED BY <2>1 DEF PostsIInv, Posted, PostedLast
<1> QED BY <1>1, <1>2, <1>3, <1>4 DEF Execution!Next, Bouncers

PostsSuite == ip[Main] <= ExecutionAt => PostsIInv

LEMMA PostsSuiteNext ==
    ASSUME SuiteIInv, PostsSuite, [SuiteNext]_suiteVars
    PROVE  PostsSuite'
<1>0. ip \in [Threads -> Int] /\ ip[Main] \in Int /\ ExecutionAt \in Nat /\ Main \in Threads
    BY MainAndNamed, ExecutionAtIsNat DEF SuiteIInv
<1>1. CASE ExecutionStep
  <2>1. ip[Main] = ExecutionAt /\ Execution!Next
      BY <1>1, ExecutingIsAt DEF ExecutionStep
  <2>2. Places /\ PostsIInv
      BY <1>0, <2>1 DEF SuiteIInv, ExecutionIInv, PostsSuite
  <2> QED BY <2>1, <2>2, PostsNext DEF PostsSuite
<1>2. CASE ExecutionEnds
  <2>1. ip[Main] = ExecutionAt /\ ip' = [ip EXCEPT ![Main] = @ + 1]
      BY <1>2, ExecutingIsAt DEF ExecutionEnds, Advance
  <2>2. ~(ip'[Main] <= ExecutionAt)
      BY <1>0, <2>1
  <2> QED BY <2>2 DEF PostsSuite
<1>3. CASE UNCHANGED executionVars /\ (ip'[Main] <= ExecutionAt => ip[Main] <= ExecutionAt)
    BY <1>3 DEF executionVars, PostsSuite, PostsIInv, Posted, PostedLast
<1>4. CASE JoinsEnd
  <2>1. ip' = [ip EXCEPT ![Main] = @ + 1] /\ UNCHANGED executionVars
      BY <1>4 DEF JoinsEnd, Advance
  <2>2. ip'[Main] = ip[Main] + 1
      BY <1>0, <2>1
  <2> QED BY <1>0, <1>3, <2>1, <2>2
<1>5. CASE TestStep
  <2>1. ip'[Main] \in {ip[Main], ip[Main] + 1}
      BY <1>0, <1>5, MainGoesOn DEF TestStep
  <2> QED BY <1>0, <1>3, <1>5, <2>1 DEF TestStep
<1>6. CASE JoinStep \/ Finished \/ UNCHANGED suiteVars
  <2>1. UNCHANGED <<ip, executionVars>>
      BY <1>6 DEF JoinStep, Finished, suiteVars, vars
  <2> QED BY <1>3, <2>1
<1> QED BY <1>1, <1>2, <1>4, <1>5, <1>6 DEF SuiteNext

LEMMA InitPosts == SuiteInit => PostsSuite
<1> SUFFICES ASSUME SuiteInit PROVE PostsIInv
    BY DEF PostsSuite
<1>1. Cardinality(Posted) \in Nat /\ Cardinality(PostedLast) \in Nat
    BY BouncersAreFinite DEF Posted, PostedLast
<1>2. main_sem = 1 /\ curr_bounce_thread = 0
    BY DEF SuiteInit, Execution!Init
<1> QED BY <1>1, <1>2, Identities DEF PostsIInv, Bouncers

\* The semaphore of test_pthread_execution stays within what the workers post.
THEOREM AlwaysPosts == Spec => []PostsSuite
<1>1. SuiteIInv /\ PostsSuite /\ [SuiteNext]_suiteVars => PostsSuite'
    BY PostsSuiteNext
<1> QED BY <1>1, InitPosts, AlwaysSuiteIInv, PTL DEF Spec

LEMMA ExecutionTypes ==
    ASSUME ExecutionIInv, PostsIInv
    PROVE  Execution!TypeOK
<1>1. i \in [Execution!Workers -> 0..BOUNCES]
    BY DEF ExecutionIInv, Places, Bouncers
<1>2. lock \in Seq(Everyone) /\ Cardinality(ToSet(lock)) = Len(lock)
    BY CountedSequence DEF ExecutionIInv, Queue
<1>3. cvar0 \in Seq(Bouncers) /\ Cardinality(ToSet(cvar0)) = Len(cvar0)
    BY CountedSequence DEF ExecutionIInv, Sleepers
<1>4. ToSet(lock) \subseteq Everyone /\ ToSet(cvar0) \subseteq Bouncers
    BY <1>2, <1>3 DEF ToSet
<1>8. /\ Execution!ToSet(lock) = ToSet(lock) /\ Execution!ToSet(cvar0) = ToSet(cvar0)
      /\ Execution!Cardinality(ToSet(lock)) = Cardinality(ToSet(lock))
      /\ Execution!Cardinality(ToSet(cvar0)) = Cardinality(ToSet(cvar0))
    BY DEF ToSet, Execution!ToSet, Cardinality, Execution!Cardinality
<1>5. /\ cvar1 \in SUBSET Bouncers /\ bounce_done \in SUBSET Bouncers
      /\ barrier_done \in SUBSET Bouncers
      /\ barrier_return \in [Bouncers -> {0, Execution!SerialThread}]
    BY DEF ExecutionIInv, Handover, Barrier, Passed, Execution!SerialThread
<1>6. main_sem \in 0..2 * N_THR_E + 1
  <2>1. /\ Cardinality(Posted) \in Nat /\ Cardinality(Posted) <= N_THR_E
        /\ Cardinality(PostedLast) \in Nat /\ Cardinality(PostedLast) <= N_THR_E
      BY BouncersAreFinite DEF Posted, PostedLast
  <2> QED BY <2>1, Identities DEF PostsIInv
<1>7. curr_bounce_thread \in Bouncers
    BY DEF PostsIInv
<1> QED BY <1>1, <1>2, <1>3, <1>4, <1>5, <1>6, <1>7, <1>8 DEF Execution!TypeOK, Everyone, Bouncers

\* Every test of the suite holds: the types and all zasserts of the tests of
\* clean-up, descriptors, names, termination and cancellation, those of
\* test_pthread_execution while it runs, and of the joins while they run; if
\* the delay and the thousand yields do what they are there for.
THEOREM AlwaysInv ==
    ASSUME DelaySuffices, YieldsSuffice
    PROVE  Spec => []Inv
<1>1. ASSUME SuiteIInv, PostsSuite PROVE Executing => Execution!TypeOK
  <2>1. ASSUME Executing PROVE Execution!TypeOK
    <3>1. ip[Main] = ExecutionAt /\ ip[Main] <= ExecutionAt
        BY <2>1, ExecutingIsAt, ExecutionAtIsNat
    <3> QED BY <1>1, <3>1, ExecutionTypes DEF SuiteIInv, PostsSuite
  <2> QED BY <2>1
<1>2. /\ TypeOK /\ ChecksHold
      /\ Executing => Execution!TypeOK
      /\ Executing => Execution!NoRace
      /\ Joins!TypeOK
      => Inv
    BY DEF Inv
<1>3. JoinsIInv => Joins!TypeOK
    BY DEF JoinsIInv
<1>4. SuiteIInv /\ PostsSuite => (Executing => Execution!TypeOK)
    BY <1>1
<1> HIDE DEF Inv
<1> QED BY <1>2, <1>3, <1>4, AlwaysChecksHold, AlwaysNoRace, AlwaysSuiteIInv, AlwaysPosts,
           AlwaysJoinsIInv, PTL
=============================================================================
