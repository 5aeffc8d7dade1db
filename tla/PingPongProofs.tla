--------------------------- MODULE PingPongProofs ---------------------------
(***************************************************************************)
(* The safety properties of PingPong, for any number of turns and rounds.  *)
(* The inductive invariant counts the turns of each thread three times: as *)
(* they have been added to the counters, stored in the record and given    *)
(* away in the atomic.                                                     *)
(***************************************************************************)
EXTENDS PingPong, TLAPS

Created(t) == pc[Main] \notin {"round", "create first"} /\ (pc[Main] = "create second" => t = First)

\* How many turns of t are over in this round, where in one it has begun the
\* labels come before that.
Turns(t, labels) ==
    IF Created(t) THEN PingCount - count[t] - (IF pc[t] \in labels THEN 1 ELSE 0) ELSE 0
BeforeAdd == {"spin", "copy", "load", "add"}
BeforeStore == BeforeAdd \cup {"store"}
BeforePublish == BeforeStore \cup {"publish"}
Added(t) == Turns(t, BeforeAdd)
Stored(t) == Turns(t, BeforeStore)
Published(t) == Turns(t, BeforePublish)

\* Between the end of its spin and the hand-over it is the turn of t.
InTurn(t) == pc[t] \in {"copy", "load", "add", "store", "publish"}

\* What main knows of the workers where it is.
Phases ==
    /\ pc[Main] # "round" => loop > 0
    /\ \A t \in Workers :
          /\ ~Created(t) => pc[t] \in {"not created", "end"}
          /\ Created(t) => pc[t] # "not created"
          /\ pc[t] = "end" /\ Created(t) => count[t] = 0
          /\ pc[t] = "start" => count[t] = PingCount
          /\ pc[t] \in BeforePublish => count[t] < PingCount
    /\ pc[Main] = "join second" => pc[First] = "end"
    /\ pc[Main] = "check" => \A t \in Workers : pc[t] = "end"
    /\ tls_counter[Main] = 0

Ready(t) == IF Created(t) /\ pc[t] # "start" THEN 1 ELSE 0

\* The atomics say who has taken how many turns.
Score ==
    pc[Main] # "round" =>
        /\ threads_ready = Ready(Ping) + Ready(Pong)
        /\ pingpong_counter = Added(Ping) + Added(Pong)
        /\ Published(Ping) \in {Published(Pong), Published(Pong) + 1}
        /\ pingpong_status =
              IF Published(Ping) # Published(Pong) THEN "PONG"
              ELSE IF Published(Ping) # PingCount THEN "PING" ELSE "IDLE"

\* So does the record, but for who writes it.
Books ==
    pc[Main] # "round" =>
        /\ pingpong.ping_counter = Stored(Ping)
        /\ pingpong.pong_counter = Stored(Pong)
        /\ pingpong.total_counter = Stored(Ping) + Stored(Pong)
        /\ (\A t \in Workers : pc[t] # "publish") => pingpong.status = pingpong_status

\* What a worker has of its own.
Own(t) ==
    /\ InTurn(t) => pingpong_status = Turn(t)
    /\ Created(t) => tls_counter[t] = Added(t)
    /\ pc[t] \in {"load", "add"} => pp[t] = pingpong
    /\ pc[t] = "add" => loaded[t] = pingpong_counter
    /\ pc[t] = "store" =>
          /\ pp[t].status = Handover(t)
          /\ pp[t].ping_counter = pingpong.ping_counter + (IF t = Ping THEN 1 ELSE 0)
          /\ pp[t].pong_counter = pingpong.pong_counter + (IF t = Pong THEN 1 ELSE 0)
          /\ pp[t].total_counter = pingpong.total_counter + 1
    /\ pc[t] = "publish" => pingpong.status = Handover(t)

IInv == TypeOK /\ Phases /\ Score /\ Books /\ \A t \in Workers : Own(t)

USE PingCountAssumption, LoopsAssumption DEF Workers, Threads, Ping, Pong, Main

LEMMA Bounds ==
    /\ 0 \in 0..PingCount /\ PingCount \in 0..PingCount /\ 0 \in 0..2 * PingCount
    /\ Loops \in 0..Loops
OBVIOUS

LEMMA FreshRecords == \A status \in Status : Fresh(status) \in Records
BY Bounds DEF Fresh, Records

LEMMA InitIInv == Init => IInv
<1> SUFFICES ASSUME Init PROVE IInv
    OBVIOUS
<1>1. TypeOK
  <2>3. /\ pp \in [Workers -> Records]
        /\ loaded \in [Workers -> 0..2 * PingCount]
        /\ tls_counter \in [Threads -> 0..PingCount]
        /\ count \in [Workers -> 0..PingCount]
    BY Bounds, FreshRecords DEF Init, Status
  <2>4. /\ pc \in [Threads -> WorkerLabels \cup MainLabels]
        /\ pc[Main] \in MainLabels
        /\ \A t \in Workers : pc[t] \in WorkerLabels
    BY DEF Init, WorkerLabels, MainLabels
  <2>5. pingpong_status \in Status /\ pingpong \in Records
    BY FreshRecords DEF Init, Status
  <2>6. /\ pingpong_counter \in 0..2 * PingCount /\ threads_ready \in 0..2
        /\ loop \in 0..Loops
    <3>1. pingpong_counter = 0 /\ threads_ready = 0 /\ loop = Loops
      BY DEF Init
    <3> QED
      BY <3>1, Bounds
  <2>7. startPongFirst \in BOOLEAN
    BY DEF Init
  <2> QED
    BY <2>3, <2>4, <2>5, <2>6, <2>7, Zenon DEF TypeOK
<1>2. Phases
    BY DEF Init, Phases, Created, BeforePublish, BeforeStore, BeforeAdd
<1> QED
    BY <1>1, <1>2 DEF Init, IInv, Score, Books, Own, Created, InTurn

-----------------------------------------------------------------------------
(* What the steps of a worker have in common.                               *)

\* It is one of this round's, and only its own place changes.
LEMMA WorkerMoves ==
    ASSUME TypeOK, Phases, NEW t \in Workers, NEW from, NEW to, Transition(t, from, to),
           from \notin {"not created", "end"}, UNCHANGED startPongFirst
    PROVE  /\ pc[t] = from /\ pc'[t] = to /\ pc[Main] = pc'[Main]
           /\ \A u \in Workers \ {t} : pc'[u] = pc[u]
           /\ Created(t)
           /\ \A u \in Workers : Created(u)' = Created(u)
BY DEF TypeOK, Phases, Transition, Created, First

\* A worker in its turn is alone in it.
LEMMA OneInTurn ==
    ASSUME IInv, NEW t \in Workers, NEW u \in Workers \ {t}, InTurn(t)
    PROVE  ~InTurn(u)
BY DEF IInv, Own, Turn

\* The counts are natural numbers up to PingCount.
LEMMA TurnsBounded ==
    ASSUME TypeOK, Phases, NEW t \in Workers
    PROVE  /\ Added(t) \in 0..PingCount
           /\ Stored(t) \in 0..PingCount
           /\ Published(t) \in 0..PingCount
           /\ count[t] \in Int
<1>1. count[t] \in 0..PingCount /\ (pc[t] \in BeforePublish => count[t] < PingCount)
    BY DEF TypeOK, Phases
<1> QED
    BY <1>1 DEF Added, Stored, Published, Turns, BeforeAdd, BeforeStore, BeforePublish

LEMMA AnnounceStep == ASSUME IInv, NEW t \in Workers, Announce(t) PROVE IInv'
<1> USE DEF Announce, IInv, atomics, locals, round
<1>1. /\ pc[t] = "start" /\ pc'[t] = "loop" /\ pc[Main] = pc'[Main]
      /\ \A u \in Workers \ {t} : pc'[u] = pc[u]
      /\ Created(t)
      /\ \A u \in Workers : Created(u)' = Created(u)
    BY WorkerMoves
<1>2. /\ \A u \in Workers : Added(u)' = Added(u)
      /\ \A u \in Workers : Stored(u)' = Stored(u)
      /\ \A u \in Workers : Published(u)' = Published(u)
    BY <1>1 DEF Added, Stored, Published, Turns, BeforeAdd, BeforeStore, BeforePublish, TypeOK
<1>3. \A u \in Workers : Handover(u)' = Handover(u)
    BY DEF Handover
<1>4. TypeOK'
  <2>1. threads_ready' \in 0..2
    <3>1. pc[Main] # "round" /\ Ready(t) = 0 /\ \A u \in Workers : Ready(u) \in {0, 1}
      BY <1>1 DEF Ready, Created
    <3> QED
      BY <3>1 DEF Score
  <2> QED
    BY <1>1, <2>1 DEF TypeOK, Transition, WorkerLabels
<1>5. Phases'
    BY <1>1 DEF Phases, First, BeforePublish, BeforeStore, BeforeAdd, TypeOK
<1>6. Score'
    BY <1>1, <1>2, TurnsBounded DEF Score, Ready
<1>7. Books'
    BY <1>1, <1>2, TurnsBounded DEF Books
<1>8. (\A u \in Workers : Own(u))'
    BY <1>1, <1>2, <1>3, OneInTurn DEF Own, InTurn
<1> QED
    BY <1>4, <1>5, <1>6, <1>7, <1>8

LEMMA NextTurnStep == ASSUME IInv, NEW t \in Workers, NextTurn(t) PROVE IInv'
<1> USE DEF NextTurn, IInv, atomics, locals, round
<1>1. /\ pc[t] = "loop" /\ pc'[t] = "spin" /\ pc[Main] = pc'[Main]
      /\ \A u \in Workers \ {t} : pc'[u] = pc[u]
      /\ Created(t)
      /\ \A u \in Workers : Created(u)' = Created(u)
    BY WorkerMoves
<1>2. /\ \A u \in Workers : Added(u)' = Added(u)
      /\ \A u \in Workers : Stored(u)' = Stored(u)
      /\ \A u \in Workers : Published(u)' = Published(u)
    BY <1>1 DEF Added, Stored, Published, Turns, BeforeAdd, BeforeStore, BeforePublish, TypeOK
<1>3. \A u \in Workers \ {t} : Handover(u)' = Handover(u)
    BY DEF Handover
<1>4. TypeOK'
  <2>1. count' \in [Workers -> 0..PingCount]
      BY DEF TypeOK
  <2>2. pc' \in [Threads -> WorkerLabels \cup MainLabels]
      BY DEF TypeOK, Transition, WorkerLabels
  <2> QED
      BY <1>1, <2>1, <2>2 DEF TypeOK, WorkerLabels
<1>5. Phases'
  <2>1. count'[t] < PingCount /\ \A u \in Workers \ {t} : count'[u] = count[u]
    BY DEF TypeOK
  <2> QED
    BY <1>1, <2>1 DEF Phases, First, TypeOK
<1>6. Score'
    BY <1>1, <1>2, TurnsBounded DEF Score, Ready
<1>7. Books'
    BY <1>1, <1>2, TurnsBounded DEF Books
<1>8. (\A u \in Workers : Own(u))'
    BY <1>1, <1>2, <1>3, OneInTurn DEF Own, InTurn, TypeOK
<1> QED
    BY <1>4, <1>5, <1>6, <1>7, <1>8

LEMMA EndThreadStep == ASSUME IInv, NEW t \in Workers, EndThread(t) PROVE IInv'
<1> USE DEF EndThread, IInv, atomics, locals, round
<1>1. /\ pc[t] = "loop" /\ pc'[t] = "end" /\ pc[Main] = pc'[Main]
      /\ \A u \in Workers \ {t} : pc'[u] = pc[u]
      /\ Created(t)
      /\ \A u \in Workers : Created(u)' = Created(u)
    BY WorkerMoves
<1>2. /\ \A u \in Workers : Added(u)' = Added(u)
      /\ \A u \in Workers : Stored(u)' = Stored(u)
      /\ \A u \in Workers : Published(u)' = Published(u)
    BY <1>1 DEF Added, Stored, Published, Turns, BeforeAdd, BeforeStore, BeforePublish, TypeOK
<1>3. \A u \in Workers : Handover(u)' = Handover(u)
    BY DEF Handover
<1>4. TypeOK'
    BY <1>1 DEF TypeOK, Transition, WorkerLabels
<1>5. Phases'
    BY <1>1 DEF Phases, First, BeforePublish, BeforeStore, BeforeAdd, TypeOK
<1>6. Score'
    BY <1>1, <1>2, TurnsBounded DEF Score, Ready
<1>7. Books'
    BY <1>1, <1>2, TurnsBounded DEF Books
<1>8. (\A u \in Workers : Own(u))'
    BY <1>1, <1>2, <1>3, OneInTurn DEF Own, InTurn
<1> QED
    BY <1>4, <1>5, <1>6, <1>7, <1>8

LEMMA WaitForStep == ASSUME IInv, NEW t \in Workers, WaitFor(t) PROVE IInv'
<1> USE DEF WaitFor, IInv, atomics, locals, round
<1>1. /\ pc[t] = "spin" /\ pc'[t] = "copy" /\ pc[Main] = pc'[Main]
      /\ \A u \in Workers \ {t} : pc'[u] = pc[u]
      /\ Created(t)
      /\ \A u \in Workers : Created(u)' = Created(u)
    BY WorkerMoves
<1>2. /\ \A u \in Workers : Added(u)' = Added(u)
      /\ \A u \in Workers : Stored(u)' = Stored(u)
      /\ \A u \in Workers : Published(u)' = Published(u)
    BY <1>1 DEF Added, Stored, Published, Turns, BeforeAdd, BeforeStore, BeforePublish, TypeOK
<1>3. \A u \in Workers : Handover(u)' = Handover(u)
    BY DEF Handover
<1>4. TypeOK'
    BY <1>1 DEF TypeOK, Transition, WorkerLabels
<1>5. Phases'
    BY <1>1 DEF Phases, First, BeforePublish, BeforeStore, BeforeAdd, TypeOK
<1>6. Score'
    BY <1>1, <1>2, TurnsBounded DEF Score, Ready
<1>7. Books'
    BY <1>1, <1>2, TurnsBounded DEF Books
<1>8. (\A u \in Workers : Own(u))'
    BY <1>1, <1>2, <1>3, OneInTurn DEF Own, InTurn, Turn
<1> QED
    BY <1>4, <1>5, <1>6, <1>7, <1>8

LEMMA CopyStep == ASSUME IInv, NEW t \in Workers, Copy(t) PROVE IInv'
<1> USE DEF Copy, IInv, atomics, locals, round
<1>1. /\ pc[t] = "copy" /\ pc'[t] = "load" /\ pc[Main] = pc'[Main]
      /\ \A u \in Workers \ {t} : pc'[u] = pc[u]
      /\ Created(t)
      /\ \A u \in Workers : Created(u)' = Created(u)
    BY WorkerMoves
<1>2. /\ \A u \in Workers : Added(u)' = Added(u)
      /\ \A u \in Workers : Stored(u)' = Stored(u)
      /\ \A u \in Workers : Published(u)' = Published(u)
    BY <1>1 DEF Added, Stored, Published, Turns, BeforeAdd, BeforeStore, BeforePublish, TypeOK
<1>3. \A u \in Workers : Handover(u)' = Handover(u)
    BY DEF Handover
<1>4. TypeOK'
    BY <1>1 DEF TypeOK, Transition, WorkerLabels
<1>5. Phases'
    BY <1>1 DEF Phases, First, BeforePublish, BeforeStore, BeforeAdd, TypeOK
<1>6. Score'
    BY <1>1, <1>2, TurnsBounded DEF Score, Ready
<1>7. Books'
    BY <1>1, <1>2, TurnsBounded DEF Books
<1>8. (\A u \in Workers : Own(u))'
    BY <1>1, <1>2, <1>3, OneInTurn DEF Own, InTurn, TypeOK
<1> QED
    BY <1>4, <1>5, <1>6, <1>7, <1>8

LEMMA LoadCounterStep == ASSUME IInv, NEW t \in Workers, LoadCounter(t) PROVE IInv'
<1> USE DEF LoadCounter, IInv, atomics, locals, round
<1>1. /\ pc[t] = "load" /\ pc'[t] = "add" /\ pc[Main] = pc'[Main]
      /\ \A u \in Workers \ {t} : pc'[u] = pc[u]
      /\ Created(t)
      /\ \A u \in Workers : Created(u)' = Created(u)
    BY WorkerMoves
<1>2. /\ \A u \in Workers : Added(u)' = Added(u)
      /\ \A u \in Workers : Stored(u)' = Stored(u)
      /\ \A u \in Workers : Published(u)' = Published(u)
    BY <1>1 DEF Added, Stored, Published, Turns, BeforeAdd, BeforeStore, BeforePublish, TypeOK
<1>3. \A u \in Workers : Handover(u)' = Handover(u)
    BY DEF Handover
<1>4. TypeOK'
    BY <1>1 DEF TypeOK, Transition, WorkerLabels
<1>5. Phases'
    BY <1>1 DEF Phases, First, BeforePublish, BeforeStore, BeforeAdd, TypeOK
<1>6. Score'
    BY <1>1, <1>2, TurnsBounded DEF Score, Ready
<1>7. Books'
    BY <1>1, <1>2, TurnsBounded DEF Books
<1>8. (\A u \in Workers : Own(u))'
    BY <1>1, <1>2, <1>3, OneInTurn DEF Own, InTurn, TypeOK
<1> QED
    BY <1>4, <1>5, <1>6, <1>7, <1>8

LEMMA AddStep == ASSUME IInv, NEW t \in Workers, Add(t) PROVE IInv'
<1> USE DEF Add, IInv, atomics, locals, round
<1>1. /\ pc[t] = "add" /\ pc'[t] = "store" /\ pc[Main] = pc'[Main]
      /\ \A u \in Workers \ {t} : pc'[u] = pc[u]
      /\ Created(t)
      /\ \A u \in Workers : Created(u)' = Created(u)
    BY WorkerMoves
<1>2. /\ \A u \in Workers : Added(u)' = Added(u) + (IF u = t THEN 1 ELSE 0)
      /\ \A u \in Workers : Stored(u)' = Stored(u)
      /\ \A u \in Workers : Published(u)' = Published(u)
    BY <1>1 DEF Added, Stored, Published, Turns, BeforeAdd, BeforeStore, BeforePublish, TypeOK
<1>3. \A u \in Workers : Handover(u)' = Handover(u)
    BY DEF Handover
<1>4. TypeOK'
  <2>1. Added(t) < PingCount /\ Stored(t) = Added(t)
    BY <1>1 DEF Added, Stored, Turns, BeforeAdd, BeforeStore, TypeOK
  <2>2. pingpong_counter' \in 0..2 * PingCount
    <3>1. pc[Main] # "round"
      BY <1>1 DEF Created
    <3>2. loaded[t] = Added(Ping) + Added(Pong)
      BY <1>1, <3>1 DEF Score, Own
    <3> QED
      BY <2>1, <3>2, TurnsBounded
  <2>3. Updated(t) \in Records
    <3>1. /\ pp[t] \in Records
          /\ pp[t].ping_counter = Stored(Ping) /\ pp[t].pong_counter = Stored(Pong)
          /\ pp[t].total_counter = Stored(Ping) + Stored(Pong)
      BY <1>1 DEF TypeOK, Own, Books, Created
    <3>2. Handover(t) \in Status
      BY DEF Handover, Status
    <3>3. /\ pp[t].ping_counter + (IF t = Ping THEN 1 ELSE 0) \in 0..PingCount
          /\ pp[t].pong_counter + (IF t = Pong THEN 1 ELSE 0) \in 0..PingCount
          /\ pp[t].total_counter + 1 \in 0..2 * PingCount
      BY <2>1, <3>1, TurnsBounded
    <3> QED
      BY <3>1, <3>2, <3>3 DEF Updated, Records
  <2>4. tls_counter[t] + 1 \in 0..PingCount
    BY <1>1, <2>1, TurnsBounded DEF Own
  <2> QED
    BY <1>1, <2>2, <2>3, <2>4 DEF TypeOK, Transition, WorkerLabels
<1>5. Phases'
    BY <1>1 DEF Phases, First, BeforePublish, BeforeStore, BeforeAdd, TypeOK
<1>6. Score'
    BY <1>1, <1>2, TurnsBounded DEF Score, Ready, Own
<1>7. Books'
    BY <1>1, <1>2, TurnsBounded DEF Books
<1>8. (\A u \in Workers : Own(u))'
  <2>1. ASSUME NEW u \in Workers \ {t} PROVE Own(u)'
    BY <1>1, <1>2, <1>3, <2>1, OneInTurn DEF Own, InTurn, TypeOK
  <2>2. Own(t)'
    <3>1. pp[t] = pingpong /\ tls_counter[t] = Added(t) /\ pingpong_status = Turn(t)
      BY <1>1 DEF Own, InTurn
    <3>2. pp'[t] = Updated(t) /\ tls_counter'[t] = tls_counter[t] + 1
      BY DEF TypeOK
    <3>3. /\ Updated(t).status = Handover(t)
          /\ Updated(t).ping_counter = pp[t].ping_counter + (IF t = Ping THEN 1 ELSE 0)
          /\ Updated(t).pong_counter = pp[t].pong_counter + (IF t = Pong THEN 1 ELSE 0)
          /\ Updated(t).total_counter = pp[t].total_counter + 1
      BY DEF Updated, TypeOK, Records
    <3> QED
      BY <1>1, <1>2, <1>3, <3>1, <3>2, <3>3 DEF Own, InTurn
  <2> QED
    BY <2>1, <2>2
<1> QED
    BY <1>4, <1>5, <1>6, <1>7, <1>8

LEMMA StoreStep == ASSUME IInv, NEW t \in Workers, Store(t) PROVE IInv'
<1> USE DEF Store, IInv, atomics, locals, round
<1>1. /\ pc[t] = "store" /\ pc'[t] = "publish" /\ pc[Main] = pc'[Main]
      /\ \A u \in Workers \ {t} : pc'[u] = pc[u]
      /\ Created(t)
      /\ \A u \in Workers : Created(u)' = Created(u)
    BY WorkerMoves
<1>2. /\ \A u \in Workers : Added(u)' = Added(u)
      /\ \A u \in Workers : Stored(u)' = Stored(u) + (IF u = t THEN 1 ELSE 0)
      /\ \A u \in Workers : Published(u)' = Published(u)
    BY <1>1 DEF Added, Stored, Published, Turns, BeforeAdd, BeforeStore, BeforePublish, TypeOK
<1>3. \A u \in Workers : Handover(u)' = Handover(u)
    BY DEF Handover
<1>4. TypeOK'
    BY <1>1 DEF TypeOK, Transition, WorkerLabels
<1>5. Phases'
    BY <1>1 DEF Phases, First, BeforePublish, BeforeStore, BeforeAdd, TypeOK
<1>6. Score'
    BY <1>1, <1>2, TurnsBounded DEF Score, Ready
<1>7. Books'
    BY <1>1, <1>2, TurnsBounded DEF Books, Own
<1>8. (\A u \in Workers : Own(u))'
    BY <1>1, <1>2, <1>3, OneInTurn DEF Own, InTurn
<1> QED
    BY <1>4, <1>5, <1>6, <1>7, <1>8

LEMMA PublishStep == ASSUME IInv, NEW t \in Workers, Publish(t) PROVE IInv'
<1> USE DEF Publish, IInv, atomics, locals, round
<1>1. /\ pc[t] = "publish" /\ pc'[t] = "loop" /\ pc[Main] = pc'[Main]
      /\ \A u \in Workers \ {t} : pc'[u] = pc[u]
      /\ Created(t)
      /\ \A u \in Workers : Created(u)' = Created(u)
    BY WorkerMoves
<1>2. /\ \A u \in Workers : Added(u)' = Added(u)
      /\ \A u \in Workers : Stored(u)' = Stored(u)
      /\ \A u \in Workers : Published(u)' = Published(u) + (IF u = t THEN 1 ELSE 0)
    BY <1>1 DEF Added, Stored, Published, Turns, BeforeAdd, BeforeStore, BeforePublish, TypeOK
<1>3. \A u \in Workers : Handover(u)' = Handover(u)
    BY DEF Handover
<1>4. TypeOK'
    BY <1>1 DEF TypeOK, Handover, Status, Transition, WorkerLabels
<1>5. Phases'
    BY <1>1 DEF Phases, First, BeforePublish, BeforeStore, BeforeAdd, TypeOK
<1>6. Score'
  <2>1. Published(t) = PingCount - count[t] - 1 /\ count[t] \in 0..PingCount
    BY <1>1 DEF Published, Turns, BeforePublish, TypeOK
  <2>2. pingpong_status = Turn(t)
    BY <1>1 DEF Own, InTurn
  <2>3. /\ Published(Ping)' \in {Published(Pong)', Published(Pong)' + 1}
        /\ pingpong_status' =
              IF Published(Ping)' # Published(Pong)' THEN "PONG"
              ELSE IF Published(Ping)' # PingCount THEN "PING" ELSE "IDLE"
    <3>1. pc[Main] # "round"
      BY <1>1 DEF Created
    <3>2. CASE t = Ping
      BY <1>2, <2>1, <2>2, <3>1, <3>2, TurnsBounded DEF Score, Handover, Turn
    <3>3. CASE t = Pong
      BY <1>2, <2>1, <2>2, <3>1, <3>3, TurnsBounded DEF Score, Handover, Turn
    <3> QED
      BY <3>2, <3>3
  <2> QED
    BY <1>1, <1>2, <2>3 DEF Score, Ready
<1>7. Books'
    BY <1>1, <1>2, TurnsBounded DEF Books, Own
<1>8. (\A u \in Workers : Own(u))'
    BY <1>1, <1>2, <1>3, OneInTurn DEF Own, InTurn
<1> QED
    BY <1>4, <1>5, <1>6, <1>7, <1>8

-----------------------------------------------------------------------------
(* The steps of main.                                                       *)

LEMMA ResetStep == ASSUME IInv, Reset PROVE IInv'
<1>1. /\ pc[Main] = "round" /\ pc'[Main] = "create first" /\ loop > 0
      /\ \A t \in Workers : pc'[t] = pc[t] /\ pc[t] \in {"not created", "end"}
      /\ \A t \in Workers : ~Created(t)'
    BY DEF Reset, Transition, IInv, TypeOK, Phases, Created
<1>2. \A t \in Workers : Added(t)' = 0 /\ Stored(t)' = 0 /\ Published(t)' = 0 /\ Ready(t)' = 0
    BY <1>1 DEF Added, Stored, Published, Turns, Ready
<1>3. /\ threads_ready' = 0 /\ pingpong_counter' = 0 /\ pingpong_status' = "PING"
      /\ pingpong' = Fresh("PING") /\ tls_counter' = [tls_counter EXCEPT ![Main] = 0]
      /\ UNCHANGED <<pp, loaded, count, startPongFirst, loop>>
    BY DEF Reset, locals, round
<1>4. TypeOK'
  <2>1. Fresh("PING") \in Records /\ "PING" \in Status
    BY FreshRecords DEF Status
  <2>2. tls_counter' \in [Threads -> 0..PingCount]
    BY <1>3, Bounds DEF IInv, TypeOK
  <2>3. pc' \in [Threads -> WorkerLabels \cup MainLabels]
    BY DEF Reset, Transition, IInv, TypeOK, MainLabels
  <2>4. \A t \in Workers : pc'[t] \in WorkerLabels
    BY <1>1 DEF WorkerLabels
  <2>5. pingpong_counter' \in 0..2 * PingCount /\ threads_ready' \in 0..2
    BY <1>3
  <2> QED
    BY <1>1, <1>3, <2>1, <2>2, <2>3, <2>4, <2>5, Zenon DEF IInv, TypeOK, MainLabels
<1>5. Phases'
    BY <1>1, <1>3 DEF IInv, Phases, TypeOK, BeforePublish, BeforeStore, BeforeAdd
<1>6. Score'
    BY <1>2, <1>3 DEF Score
<1>7. Books'
    BY <1>2, <1>3 DEF Books, Fresh
<1>8. (\A t \in Workers : Own(t))'
    BY <1>1 DEF Own, InTurn
<1> QED
    BY <1>4, <1>5, <1>6, <1>7, <1>8 DEF IInv

\* A thread that has just been created has taken no turn.
LEMMA NoTurnYet ==
    ASSUME NEW t \in Workers, Created(t)', pc'[t] = "start", count'[t] = PingCount
    PROVE  Added(t)' = 0 /\ Stored(t)' = 0 /\ Published(t)' = 0
<1>1. "start" \notin BeforeAdd /\ "start" \notin BeforeStore /\ "start" \notin BeforePublish
    BY DEF BeforePublish, BeforeStore, BeforeAdd
<1>2. PingCount - PingCount - 0 = 0
    OBVIOUS
<1> QED
    BY <1>1, <1>2 DEF Added, Stored, Published, Turns

LEMMA CreateStep ==
    ASSUME IInv, NEW t \in Workers, NEW from, NEW to, Create(t, from, to),
           \/ t = First /\ from = "create first" /\ to = "create second"
           \/ t = Second /\ from = "create second" /\ to = "peek"
    PROVE  IInv'
<1>1. /\ pc[Main] = from /\ pc'[Main] = to /\ pc'[t] = "start"
      /\ \A u \in Workers \ {t} : pc'[u] = pc[u]
      /\ from # "round" /\ to \notin {"round", "join second", "check"}
    BY DEF Create, IInv, TypeOK
<1>2. /\ ~Created(t) /\ Created(t)'
      /\ \A u \in Workers \ {t} : Created(u)' = Created(u)
    BY <1>1 DEF Create, Created, First, Second, round
<1>3. count' \in [Workers -> 0..PingCount] /\ tls_counter' \in [Threads -> 0..PingCount]
    BY Bounds DEF Create, IInv, TypeOK
<1>4. /\ count'[t] = PingCount /\ tls_counter'[t] = 0 /\ tls_counter'[Main] = tls_counter[Main]
      /\ \A u \in Workers \ {t} : count'[u] = count[u] /\ tls_counter'[u] = tls_counter[u]
      /\ UNCHANGED <<atomics, pingpong, pp, loaded, round>>
    BY DEF Create, IInv, TypeOK
<1>5. \A u \in Workers :
          /\ Added(u)' = Added(u) /\ Stored(u)' = Stored(u) /\ Published(u)' = Published(u)
          /\ Ready(u)' = Ready(u)
  <2>1. /\ Added(t)' = 0 /\ Stored(t)' = 0 /\ Published(t)' = 0 /\ Ready(t)' = 0
        /\ Added(t) = 0 /\ Stored(t) = 0 /\ Published(t) = 0 /\ Ready(t) = 0
    <3>3. Added(t)' = 0 /\ Stored(t)' = 0 /\ Published(t)' = 0
      BY <1>1, <1>2, <1>4, NoTurnYet
    <3> QED
      BY <1>1, <1>2, <3>3 DEF Added, Stored, Published, Turns, Ready
  <2>2. ASSUME NEW u \in Workers \ {t}
        PROVE  /\ Added(u)' = Added(u) /\ Stored(u)' = Stored(u) /\ Published(u)' = Published(u)
               /\ Ready(u)' = Ready(u)
    BY <1>1, <1>2, <1>4, <2>2 DEF Added, Stored, Published, Turns, Ready
  <2> QED
    BY <2>1, <2>2
<1>6. TypeOK'
  <2>1. to \in MainLabels /\ "start" \in WorkerLabels
    BY DEF MainLabels, WorkerLabels
  <2>2. pc' \in [Threads -> WorkerLabels \cup MainLabels]
    BY <2>1 DEF Create, IInv, TypeOK
  <2> QED
    BY <1>1, <1>3, <1>4, <2>1, <2>2 DEF IInv, TypeOK, atomics, round
<1>7. Phases'
  <2>1. /\ loop' > 0 /\ tls_counter'[Main] = 0 /\ Main \notin Workers
    BY <1>1, <1>4 DEF IInv, Phases, round
  <2>2. /\ Created(t)' /\ pc'[t] = "start" /\ count'[t] = PingCount
    BY <1>1, <1>2, <1>4
  <2>3. ASSUME NEW u \in Workers \ {t}
        PROVE  /\ ~Created(u)' => pc'[u] \in {"not created", "end"}
               /\ Created(u)' => pc'[u] # "not created"
               /\ pc'[u] = "end" /\ Created(u)' => count'[u] = 0
               /\ pc'[u] = "start" => count'[u] = PingCount
               /\ pc'[u] \in BeforePublish => count'[u] < PingCount
    BY <1>1, <1>2, <1>4, <2>3 DEF IInv, Phases
  <2> QED
    BY <1>1, <2>1, <2>2, <2>3 DEF Phases, BeforePublish, BeforeStore, BeforeAdd
<1>8. Score'
    BY <1>1, <1>4, <1>5 DEF IInv, Score, atomics
<1>9. Books'
    BY <1>1, <1>2, <1>4, <1>5 DEF IInv, Books, Phases, atomics
<1>10. (\A u \in Workers : Own(u))'
  <2>1. ASSUME NEW u \in Workers \ {t} PROVE Own(u)'
    BY <1>1, <1>2, <1>4, <1>5, <2>1 DEF IInv, Own, InTurn, Handover, atomics
  <2>2. Own(t)'
    BY <1>1, <1>2, <1>4, <1>5 DEF Own, InTurn, Added, Turns
  <2> QED
    BY <2>1, <2>2
<1> QED
    BY <1>6, <1>7, <1>8, <1>9, <1>10 DEF IInv

\* Between the creations and the last join only main's place changes.
LEMMA MainStep ==
    ASSUME IInv, NEW from, NEW to, Transition(Main, from, to),
           UNCHANGED <<atomics, pingpong, locals, round>>,
           \/ from = "peek" /\ to = "wait ready"
           \/ from = "wait ready" /\ to = "join first"
           \/ from = "join first" /\ to = "join second" /\ pc[First] = "end"
           \/ from = "join second" /\ to = "check" /\ pc[Second] = "end"
    PROVE  IInv'
<1> USE DEF IInv, Transition, atomics, locals, round
<1>1. /\ pc[Main] = from /\ pc'[Main] = to
      /\ \A t \in Workers : pc'[t] = pc[t] /\ Created(t) /\ Created(t)'
    BY DEF TypeOK, Created
<1>2. \A t \in Workers :
          /\ Added(t)' = Added(t) /\ Stored(t)' = Stored(t) /\ Published(t)' = Published(t)
          /\ Ready(t)' = Ready(t) /\ Handover(t)' = Handover(t)
    BY <1>1 DEF Added, Stored, Published, Turns, Ready, Handover
<1>3. TypeOK'
  <2>1. to \in MainLabels
    BY DEF MainLabels
  <2> QED
    BY <1>1, <2>1 DEF TypeOK
<1>4. Phases'
    BY <1>1 DEF Phases, First, Second
<1>5. Score'
    BY <1>1, <1>2 DEF Score
<1>6. Books'
    BY <1>1, <1>2 DEF Books
<1>7. (\A t \in Workers : Own(t))'
    BY <1>1, <1>2 DEF Own, InTurn
<1> QED
    BY <1>3, <1>4, <1>5, <1>6, <1>7

LEMMA EndRoundStep == ASSUME IInv, EndRound PROVE IInv'
<1> USE DEF EndRound, Transition, IInv, atomics, locals
<1>1. /\ pc[Main] = "check" /\ pc'[Main] = "round"
      /\ \A t \in Workers : pc'[t] = "end" /\ ~Created(t)'
    BY DEF TypeOK, Phases, Created
<1>2. TypeOK'
  <2>1. loop' \in 0..Loops
    <3>1. loop \in 0..Loops /\ loop > 0 /\ loop' = loop - 1
      BY <1>1 DEF TypeOK, Phases
    <3> QED
      BY <3>1
  <2>2. pc' \in [Threads -> WorkerLabels \cup MainLabels]
    BY DEF TypeOK, MainLabels
  <2>3. startPongFirst' \in BOOLEAN
    BY DEF TypeOK
  <2>4. pc'[Main] \in MainLabels /\ \A t \in Workers : pc'[t] \in WorkerLabels
    BY <1>1 DEF MainLabels, WorkerLabels
  <2>5. UNCHANGED <<pingpong_counter, pingpong_status, threads_ready, pingpong, pp, loaded, tls_counter, count>>
    OBVIOUS
  <2> QED
    BY <2>1, <2>2, <2>3, <2>4, <2>5, Zenon DEF TypeOK
<1>3. Phases'
    BY <1>1 DEF Phases, BeforePublish, BeforeStore, BeforeAdd
<1>4. (\A t \in Workers : Own(t))'
    BY <1>1 DEF Own, InTurn
<1> QED
    BY <1>1, <1>2, <1>3, <1>4 DEF Score, Books

LEMMA NextIInv == IInv /\ [Next]_vars => IInv'
<1> SUFFICES ASSUME IInv, [Next]_vars PROVE IInv'
    OBVIOUS
<1>1. ASSUME NEW t \in Workers, Worker(t) PROVE IInv'
    BY <1>1, AnnounceStep, NextTurnStep, EndThreadStep, WaitForStep, CopyStep, LoadCounterStep,
       AddStep, StoreStep, PublishStep DEF Worker
<1>2. CASE MainThread
  <2>1. CASE Reset
    BY <2>1, ResetStep
  <2>2. CASE Create(First, "create first", "create second")
    BY <2>2, CreateStep DEF First
  <2>3. CASE Create(Second, "create second", "peek")
    BY <2>3, CreateStep DEF Second
  <2>4. CASE Peek
    BY <2>4, MainStep DEF Peek
  <2>5. CASE WaitReady
    BY <2>5, MainStep DEF WaitReady
  <2>6. CASE Join(First, "join first", "join second")
    BY <2>6, MainStep DEF Join
  <2>7. CASE Join(Second, "join second", "check")
    BY <2>7, MainStep DEF Join
  <2>8. CASE EndRound
    BY <2>8, EndRoundStep
  <2> QED
    BY <1>2, <2>1, <2>2, <2>3, <2>4, <2>5, <2>6, <2>7, <2>8 DEF MainThread
<1>3. CASE UNCHANGED vars
  <2>1. \A t \in Workers :
          /\ Created(t)' = Created(t) /\ Ready(t)' = Ready(t) /\ Handover(t)' = Handover(t)
          /\ Added(t)' = Added(t) /\ Stored(t)' = Stored(t) /\ Published(t)' = Published(t)
    BY <1>3 DEF vars, atomics, locals, round, Created, First, Ready, Handover, Added, Stored,
       Published, Turns
  <2> QED
    BY <1>3, <2>1 DEF vars, atomics, locals, round, IInv, TypeOK, Phases, First, Score, Books, Own, InTurn
<1> QED
    BY <1>1, <1>2, <1>3 DEF Next, Finished

\* The invariant holds in every state the program reaches.
THEOREM AlwaysIInv == Spec => []IInv
BY InitIInv, NextIInv, PTL DEF Spec

-----------------------------------------------------------------------------
\* The types, and every REQUIRE of ping(), pong() and test01(), whatever the
\* number of turns and of rounds.
THEOREM RequiresHold == Spec => []Inv
<1>1. IInv => Inv
  <2> SUFFICES ASSUME IInv PROVE Requires
    BY DEF IInv, Inv
  <2>1. ASSUME NEW t \in Workers, pc[t] = "copy" PROVE pingpong_status = Turn(t)
    BY <2>1 DEF IInv, Own, InTurn
  <2>2. ASSUME NEW t \in Workers, pc[t] = "load"
        PROVE  /\ pp[t].status = Turn(t)
               /\ pingpong_counter = pp[t].total_counter
               /\ pp[t].total_counter = pp[t].ping_counter + pp[t].pong_counter
               /\ tls_counter[t] = OwnCounter(t, pp[t])
    <3>1. Created(t) /\ pc[Main] # "round" /\ pp[t] = pingpong /\ pingpong_status = Turn(t)
      BY <2>2 DEF IInv, Phases, Created, Own, InTurn
    <3>2. \A u \in Workers : pc[u] \notin {"store", "publish"}
      BY <2>2, OneInTurn DEF InTurn
    <3>3. \A u \in Workers : Stored(u) = Added(u)
      BY <3>2 DEF Stored, Added, Turns, BeforeStore
    <3>4. /\ pingpong.ping_counter = Added(Ping) /\ pingpong.pong_counter = Added(Pong)
          /\ pingpong.total_counter = Added(Ping) + Added(Pong)
          /\ pingpong.status = pingpong_status
      BY <3>1, <3>2, <3>3 DEF IInv, Books
    <3>5. pingpong_counter = Added(Ping) + Added(Pong) /\ tls_counter[t] = Added(t)
      BY <3>1 DEF IInv, Score, Own
    <3> QED
      <4>1. CASE t = Ping
        BY <3>1, <3>4, <3>5, <4>1 DEF OwnCounter
      <4>2. CASE t = Pong
        BY <3>1, <3>4, <3>5, <4>2 DEF OwnCounter
      <4> QED
        BY <4>1, <4>2
  <2>3. ASSUME pc[Main] = "check"
        PROVE  /\ pingpong.ping_counter = PingCount /\ pingpong.pong_counter = PingCount
               /\ pingpong.total_counter = 2 * PingCount
               /\ pingpong_counter = 2 * PingCount
               /\ pingpong.status = "IDLE" /\ pingpong_status = "IDLE"
               /\ tls_counter[Main] = 0
    <3>1. \A t \in Workers : pc[t] = "end" /\ Created(t) /\ count[t] = 0
      BY <2>3 DEF IInv, Phases, Created
    <3>2. \A t \in Workers :
            Added(t) = PingCount /\ Stored(t) = PingCount /\ Published(t) = PingCount
      BY <3>1 DEF Added, Stored, Published, Turns, BeforePublish, BeforeStore, BeforeAdd
    <3>3. PingCount + PingCount = 2 * PingCount /\ PingCount # PingCount + 1
      OBVIOUS
    <3>4. pingpong_counter = 2 * PingCount /\ pingpong_status = "IDLE"
      BY <2>3, <3>2, <3>3 DEF IInv, Score
    <3>5. /\ pingpong.ping_counter = PingCount /\ pingpong.pong_counter = PingCount
          /\ pingpong.total_counter = 2 * PingCount
      BY <2>3, <3>2, <3>3 DEF IInv, Books
    <3>6. pingpong.status = "IDLE"
      BY <2>3, <3>1, <3>4 DEF IInv, Books
    <3> QED
      BY <2>3, <3>4, <3>5, <3>6 DEF IInv, Phases
  <2> QED
    BY <2>1, <2>2, <2>3 DEF Requires
<1> QED
    BY <1>1, AlwaysIInv, PTL

\* Spinning on one atomic keeps the accesses to the plain record apart, but for
\* the debug output of main.
THEOREM HandoverExcludes == Spec => []NoRaceInHandover
<1>1. IInv => NoRaceInHandover
  <2> SUFFICES ASSUME IInv, NEW t \in Threads, NEW u \in Threads \ {t}, RaceBetween(t, u)
               PROVE  pc[Main] = "peek" /\ Main \in {t, u}
    BY DEF NoRaceInHandover
  <2>1. \A v \in Workers : pc[v] \in {"copy", "store"} => pc[Main] \notin {"round", "check"}
    BY DEF IInv, Phases, Created
  <2>2. ~(t \in Workers /\ u \in Workers)
    BY OneInTurn DEF RaceBetween, Reads, Writes, InTurn
  <2> QED
    BY <2>1, <2>2 DEF RaceBetween, Reads, Writes, IInv, TypeOK, WorkerLabels, MainLabels
<1> QED
    BY <1>1, AlwaysIInv, PTL

\* The turns alternate, none is skipped, and the last one ends the game.
THEOREM TurnsAlternate == Spec => Alternation
<1>1. IInv /\ [Next]_vars =>
        [pc[Main] # "round" =>
            \/ pingpong_status' = pingpong_status
            \/ /\ pingpong_status = "PING" /\ pingpong_status' = "PONG"
               /\ pingpong_counter % 2 = 1
            \/ /\ pingpong_status = "PONG" /\ pingpong_status' = "PING"
               /\ pingpong_counter % 2 = 0 /\ pingpong_counter < 2 * PingCount
            \/ /\ pingpong_status = "PONG" /\ pingpong_status' = "IDLE"
               /\ pingpong_counter = 2 * PingCount]_vars
  <2> SUFFICES ASSUME IInv, Next, pc[Main] # "round", pingpong_status' # pingpong_status
               PROVE  \/ /\ pingpong_status = "PING" /\ pingpong_status' = "PONG"
                         /\ pingpong_counter % 2 = 1
                      \/ /\ pingpong_status = "PONG" /\ pingpong_status' = "PING"
                         /\ pingpong_counter % 2 = 0 /\ pingpong_counter < 2 * PingCount
                      \/ /\ pingpong_status = "PONG" /\ pingpong_status' = "IDLE"
                         /\ pingpong_counter = 2 * PingCount
    BY DEF vars
  <2>1. PICK t \in Workers : Publish(t)
    BY DEF Next, Finished, vars, atomics, Worker, MainThread, Announce, NextTurn, EndThread, WaitFor,
       Copy, LoadCounter, Add, Store, Reset, Create, Peek, WaitReady, Join, EndRound, Transition
  <2>2. pc[t] = "publish" /\ Created(t) /\ pingpong_status = Turn(t) /\ pingpong_status' = Handover(t)
    BY <2>1 DEF Publish, Transition, IInv, Phases, Own, InTurn
  <2>3. /\ Added(t) = PingCount - count[t] /\ Published(t) = PingCount - count[t] - 1
        /\ count[t] \in 0..PingCount
    BY <2>2 DEF Added, Published, Turns, BeforePublish, BeforeStore, BeforeAdd, IInv, TypeOK
  <2>4. \A u \in Workers \ {t} : Added(u) = Published(u)
    BY <2>2, OneInTurn DEF InTurn, Added, Published, Turns, BeforePublish, BeforeStore
  <2>5. \A u \in Workers : Published(u) \in 0..PingCount
    BY TurnsBounded DEF IInv
  <2>6. CASE t = Ping
    <3>1. Published(Ping) = Published(Pong) /\ pingpong_counter = 2 * Published(Pong) + 1
      BY <2>2, <2>3, <2>4, <2>5, <2>6 DEF IInv, Score, Turn
    <3> QED
      BY <2>2, <2>5, <2>6, <3>1 DEF Turn, Handover
  <2>7. CASE t = Pong
    <3>1. /\ pingpong_counter = 2 * (PingCount - count[Pong])
      BY <2>2, <2>3, <2>4, <2>5, <2>7 DEF IInv, Score, Turn
    <3> QED
      BY <2>2, <2>3, <2>7, <3>1 DEF Turn, Handover
  <2> QED
    BY <2>6, <2>7
<1> QED
    BY <1>1, AlwaysIInv, PTL DEF Spec, Alternation
=============================================================================
