------------------------------ MODULE PingPong ------------------------------
(***************************************************************************)
(* src/samples/cpp_atomic_pong/src/main.cpp: two threads hand a plain      *)
(* record to and fro PingCount times, synchronised by nothing but the      *)
(* value of one atomic they spin on.  main runs the round Loops times and  *)
(* swaps the order in which the threads are created.  Atomics are          *)
(* sequentially consistent; a load and a store of one are two steps.       *)
(***************************************************************************)
EXTENDS Integers

CONSTANTS PingCount, Loops

ASSUME PingCountAssumption == PingCount \in Nat \ {0}
ASSUME LoopsAssumption == Loops \in Nat

Ping == "ping"
Pong == "pong"
Main == "main"
Workers == {Ping, Pong}
Threads == Workers \cup {Main}

VARIABLES
    pingpong_counter, pingpong_status, threads_ready,   \* the atomics
    pingpong,       \* the plain record
    pp,             \* each worker's copy of it
    loaded,         \* pingpong_counter as a worker has loaded it to add one
    tls_counter,    \* one per thread
    count,          \* the loop counter of each worker
    startPongFirst,
    loop,           \* rounds left
    pc

atomics == <<pingpong_counter, pingpong_status, threads_ready>>
locals == <<pp, loaded, tls_counter, count>>
round == <<startPongFirst, loop>>
vars == <<atomics, pingpong, locals, round, pc>>

Fresh(status) ==
    [status |-> status, total_counter |-> 0, ping_counter |-> 0, pong_counter |-> 0]

Transition(t, from, to) == pc[t] = from /\ pc' = [pc EXCEPT ![t] = to]

Init ==
    /\ pingpong_counter = 0
    /\ pingpong_status = "IDLE"
    /\ threads_ready = 0
    /\ pingpong = Fresh("IDLE")
    /\ pp = [t \in Workers |-> Fresh("IDLE")]
    /\ loaded = [t \in Workers |-> 0]
    /\ tls_counter = [t \in Threads |-> 0]
    /\ count = [t \in Workers |-> PingCount]
    /\ startPongFirst = TRUE
    /\ loop = Loops
    /\ pc = [t \in Threads |-> IF t = Main THEN "round" ELSE "not created"]

-----------------------------------------------------------------------------
(* ping() and pong(): the same function but for the state waited for, the   *)
(* counter of its own and the state that is left behind.                    *)

Turn(t) == IF t = Ping THEN "PING" ELSE "PONG"
OwnCounter(t, r) == IF t = Ping THEN r.ping_counter ELSE r.pong_counter

\* pong() would start another round trip when there is none left.
NeverIdle(t) == IF t = Ping THEN "PONG" ELSE "PING"

\* What t leaves behind: the last pong ends the game.
Handover(t) ==
    IF t = Ping THEN "PONG" ELSE IF count[t] # 0 THEN "PING" ELSE "IDLE"

\* A plain load and store in the place of the atomic increment, both threads
\* having loaded the same value.
AnnounceByStore(t) ==
    /\ Transition(t, "start", "loop")
    /\ threads_ready' = 1
    /\ UNCHANGED <<pingpong_counter, pingpong_status, pingpong, locals, round>>

Announce(t) ==
    /\ Transition(t, "start", "loop")
    /\ threads_ready' = threads_ready + 1
    /\ UNCHANGED <<pingpong_counter, pingpong_status, pingpong, locals, round>>

NextTurn(t) ==
    /\ count[t] > 0
    /\ Transition(t, "loop", "spin")
    /\ count' = [count EXCEPT ![t] = @ - 1]
    /\ UNCHANGED <<atomics, pingpong, pp, loaded, tls_counter, round>>

EndThread(t) ==
    /\ count[t] = 0
    /\ Transition(t, "loop", "end")
    /\ UNCHANGED <<atomics, pingpong, locals, round>>

\* Any turn will do: the spin ends as soon as the game runs.
WaitForAny(t) ==
    /\ pingpong_status # "IDLE"
    /\ Transition(t, "spin", "copy")
    /\ UNCHANGED <<atomics, pingpong, locals, round>>

\* wait_for: spins until the atomic has the value.
WaitFor(t) ==
    /\ pingpong_status = Turn(t)
    /\ Transition(t, "spin", "copy")
    /\ UNCHANGED <<atomics, pingpong, locals, round>>

Copy(t) ==
    /\ Transition(t, "copy", "load")
    /\ pp' = [pp EXCEPT ![t] = pingpong]
    /\ UNCHANGED <<atomics, pingpong, loaded, tls_counter, count, round>>

LoadCounter(t) ==
    /\ Transition(t, "load", "add")
    /\ loaded' = [loaded EXCEPT ![t] = pingpong_counter]
    /\ UNCHANGED <<atomics, pingpong, pp, tls_counter, count, round>>

Updated(t) ==
    [pp[t] EXCEPT !.status = Handover(t),
                  !.total_counter = @ + 1,
                  !.ping_counter = IF t = Ping THEN @ + 1 ELSE @,
                  !.pong_counter = IF t = Pong THEN @ + 1 ELSE @]

\* The turn is given away before the record is written back.
AddAndPublish(t) ==
    /\ Transition(t, "add", "store")
    /\ pingpong_counter' = loaded[t] + 1
    /\ pingpong_status' = Handover(t)
    /\ tls_counter' = [tls_counter EXCEPT ![t] = @ + 1]
    /\ pp' = [pp EXCEPT ![t] = Updated(t)]
    /\ UNCHANGED <<threads_ready, pingpong, loaded, count, round>>

\* The store to the counter, the thread-local count and the copy.
Add(t) ==
    /\ Transition(t, "add", "store")
    /\ pingpong_counter' = loaded[t] + 1
    /\ tls_counter' = [tls_counter EXCEPT ![t] = @ + 1]
    /\ pp' = [pp EXCEPT ![t] = Updated(t)]
    /\ UNCHANGED <<pingpong_status, threads_ready, pingpong, loaded, count, round>>

Store(t) ==
    /\ Transition(t, "store", "publish")
    /\ pingpong' = pp[t]
    /\ UNCHANGED <<atomics, locals, round>>

Publish(t) ==
    /\ Transition(t, "publish", "loop")
    /\ pingpong_status' = Handover(t)
    /\ UNCHANGED <<pingpong_counter, threads_ready, pingpong, locals, round>>

Worker(t) ==
    \/ Announce(t) \/ NextTurn(t) \/ EndThread(t) \/ WaitFor(t) \/ Copy(t)
    \/ LoadCounter(t) \/ Add(t) \/ Store(t) \/ Publish(t)

-----------------------------------------------------------------------------
(* test01(), called Loops times by main().                                  *)

First == IF startPongFirst THEN Pong ELSE Ping
Second == IF startPongFirst THEN Ping ELSE Pong

\* reset(PING), on the object constructed for this round.
Reset ==
    /\ loop > 0
    /\ Transition(Main, "round", "create first")
    /\ threads_ready' = 0
    /\ pingpong' = Fresh("PING")
    /\ pingpong_counter' = 0
    /\ pingpong_status' = "PING"
    /\ tls_counter' = [tls_counter EXCEPT ![Main] = 0]
    /\ UNCHANGED <<pp, loaded, count, round>>

\* A new thread starts with thread-local storage of its own.
Create(t, from, to) ==
    /\ pc[Main] = from
    /\ pc' = [pc EXCEPT ![Main] = to, ![t] = "start"]
    /\ count' = [count EXCEPT ![t] = PingCount]
    /\ tls_counter' = [tls_counter EXCEPT ![t] = 0]
    /\ UNCHANGED <<atomics, pingpong, pp, loaded, round>>

\* main copies the record, for its debug output only.
Peek ==
    /\ Transition(Main, "peek", "wait ready")
    /\ UNCHANGED <<atomics, pingpong, locals, round>>

WaitReady ==
    /\ threads_ready = 2
    /\ Transition(Main, "wait ready", "join first")
    /\ UNCHANGED <<atomics, pingpong, locals, round>>

Join(t, from, to) ==
    /\ pc[t] = "end"
    /\ Transition(Main, from, to)
    /\ UNCHANGED <<atomics, pingpong, locals, round>>

EndRound ==
    /\ Transition(Main, "check", "round")
    /\ loop' = loop - 1
    /\ startPongFirst' = ~startPongFirst
    /\ UNCHANGED <<atomics, pingpong, locals>>

MainThread ==
    \/ Reset
    \/ Create(First, "create first", "create second")
    \/ Create(Second, "create second", "peek")
    \/ Peek
    \/ WaitReady
    \/ Join(First, "join first", "join second")
    \/ Join(Second, "join second", "check")
    \/ EndRound

Done == pc[Main] = "round" /\ loop = 0
Finished == Done /\ UNCHANGED vars

Next == (\E t \in Workers : Worker(t)) \/ MainThread \/ Finished

\* Every thread that is not spinning in vain gets the processor.
Spec ==
    /\ Init /\ [][Next]_vars
    /\ \A t \in Workers : WF_vars(Worker(t))
    /\ WF_vars(MainThread)

-----------------------------------------------------------------------------
Status == {"IDLE", "PING", "PONG"}
Records ==
    [status : Status, total_counter : 0..2 * PingCount,
     ping_counter : 0..PingCount, pong_counter : 0..PingCount]
WorkerLabels == {"not created", "start", "loop", "spin", "copy", "load", "add",
                 "store", "publish", "end"}
MainLabels == {"round", "create first", "create second", "peek", "wait ready",
               "join first", "join second", "check"}

\* The types, and that nobody counts past its PingCount turns.
TypeOK ==
    /\ pingpong_counter \in 0..2 * PingCount
    /\ pingpong_status \in Status
    /\ threads_ready \in 0..2
    /\ pingpong \in Records
    /\ pp \in [Workers -> Records]
    /\ loaded \in [Workers -> 0..2 * PingCount]
    /\ tls_counter \in [Threads -> 0..PingCount]
    /\ count \in [Workers -> 0..PingCount]
    /\ startPongFirst \in BOOLEAN
    /\ loop \in 0..Loops
    /\ pc \in [Threads -> WorkerLabels \cup MainLabels]
    /\ pc[Main] \in MainLabels
    /\ \A t \in Workers : pc[t] \in WorkerLabels

\* Every REQUIRE of ping(), pong() and test01() holds where it stands: the
\* turn is still one's own, the copy agrees with the shared and with the
\* thread-local counter, and after the joins all turns have been taken.
Requires ==
    /\ \A t \in Workers :
          /\ pc[t] = "copy" => pingpong_status = Turn(t)
          /\ pc[t] = "load" =>
                /\ pp[t].status = Turn(t)
                /\ pingpong_counter = pp[t].total_counter
                /\ pp[t].total_counter = pp[t].ping_counter + pp[t].pong_counter
                /\ tls_counter[t] = OwnCounter(t, pp[t])
    /\ pc[Main] = "check" =>
          /\ pingpong.ping_counter = PingCount /\ pingpong.pong_counter = PingCount
          /\ pingpong.total_counter = 2 * PingCount
          /\ pingpong_counter = 2 * PingCount
          /\ pingpong.status = "IDLE" /\ pingpong_status = "IDLE"
          /\ tls_counter[Main] = 0

\* Who is about to read or to write the plain record.
Reads(t) == pc[t] = "copy" \/ (t = Main /\ pc[t] \in {"peek", "check"})
Writes(t) == pc[t] = "store" \/ (t = Main /\ pc[t] = "round" /\ loop > 0)
RaceBetween(t, u) == Writes(t) /\ (Reads(u) \/ Writes(u))

\* Spinning on one atomic is enough to keep the two threads apart, and the
\* joins to keep main's reset and final copy apart from both: no two of them
\* are ever about to access the record with one of the accesses a write.
NoRaceInHandover ==
    \A t \in Threads : \A u \in Threads \ {t} :
        RaceBetween(t, u) => pc[Main] = "peek" /\ Main \in {t, u}

\* "Validates basic atomic thread-safety" (line 32): the program itself has to
\* be free of data races, every access to the record included.
NoDataRace == \A t \in Threads : \A u \in Threads \ {t} : ~RaceBetween(t, u)

\* The turns alternate: a ping comes after an even number of turns and leaves
\* an odd one, a pong the other way round, and only the very last turn ends
\* the game.
Alternation ==
    [][pc[Main] # "round" =>
        \/ pingpong_status' = pingpong_status
        \/ /\ pingpong_status = "PING" /\ pingpong_status' = "PONG"
           /\ pingpong_counter % 2 = 1
        \/ /\ pingpong_status = "PONG" /\ pingpong_status' = "PING"
           /\ pingpong_counter % 2 = 0 /\ pingpong_counter < 2 * PingCount
        \/ /\ pingpong_status = "PONG" /\ pingpong_status' = "IDLE"
           /\ pingpong_counter = 2 * PingCount]_vars

\* All rounds end: neither thread spins for ever.
Terminates == <>Done

\* The program's own view of its state holds: the types and every REQUIRE.
Inv == TypeOK /\ Requires
=============================================================================
