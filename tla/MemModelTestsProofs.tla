------------------------ MODULE MemModelTestsProofs ------------------------
(***************************************************************************)
(* The safety properties of MemModelTests, for any readers, any number of  *)
(* pairs, any size of the array and any number of rounds: in the first     *)
(* half the place of the writer says what has been written and whether the *)
(* readers are still held back, in the second half the value of the atomic *)
(* says who alone is in its turn, and what it will find.                   *)
(***************************************************************************)
EXTENDS MemModelTests, TLAPS

PutLabels == {"not created", "start", "put array", "put value1", "publish", "end"}
GetLabels == {"not created", "start", "get value1", "get array", "release", "end"}
SpinLabels == {"not created", "spin", "end"}
PutLabels11 == SpinLabels \cup {"write value1", "write array", "release"}
GetLabels11 == SpinLabels \cup {"read array", "read value1", "turn value1", "release"}

\* The threads of the first half; between two rounds there are none.
Types01 ==
    /\ acquired \in [Readers -> 0..T01!FirstStart + Rounds]
    /\ i \in [T01!Workers -> 0..array_size]
    /\ pc01 \in [T01!Workers -> T01!Labels]
    /\ pc01[Writer] \in PutLabels
    /\ \A r \in Readers : pc01[r] \in GetLabels
    /\ main01 \in {"reset", "create", "join"}
    /\ round \in 0..Rounds
    /\ main01 = "reset" => \A t \in T01!Workers : pc01[t] \in {"not created", "end"}
    /\ main01 # "reset" => round < Rounds

\* What they leave in the object.
Memory01 ==
    /\ sync_value \in 0..T01!FirstStart + Rounds
    /\ value1 \in 0..T01!FirstStart + Rounds
    /\ array \in [T01!Slots -> T01!Blank..T01!FirstStart + Rounds + array_size]

Filled(upto) == \A s \in T01!Slots : s < upto => array[s] = T01!startValue + s

\* The writer fills the array and value1 before any reader passes its spin.
Publication ==
    main01 # "reset" =>
        /\ sync_value = IF pc01[Writer] = "end" THEN T01!startValue ELSE 0
        /\ pc01[Writer] = "put array" => Filled(i[Writer])
        /\ pc01[Writer] \in {"put value1", "publish", "end"} => Filled(array_size)
        /\ pc01[Writer] \in {"publish", "end"} => value1 = T01!startValue
        /\ \A r \in Readers :
              pc01[r] \in {"get value1", "get array", "release"} =>
                  pc01[Writer] = "end" /\ acquired[r] = T01!startValue

\* The threads of the second half; between two loops there are none.
Types11 ==
    /\ pc11 \in [T11!Workers -> T11!Labels]
    /\ \A k \in T11!Indices : /\ pc11[T11!WriterOf(k)] \in PutLabels11
                              /\ pc11[T11!ReaderOf(k)] \in GetLabels11
    /\ main11 \in {"reset", "create", "join"}
    /\ loop \in 0..Loops
    /\ main11 = "reset" => \A t \in T11!Workers : pc11[t] \in {"not created", "end"}
    /\ main11 # "reset" => loop > 0

Memory11 ==
    /\ sync_value \in -array_size..array_size - 1
    /\ value1 \in -array_size..array_size - 1
    /\ array \in [0..array_size - 1 -> -array_size..array_size - 1]

\* Whose turn it is as the atomic says it, and what the reader of the turn
\* finds until it turns value1 over.
Turns ==
    main11 # "reset" =>
        \A k \in T11!Indices :
            /\ T11!InTurn(T11!WriterOf(k)) => sync_value = -(k + 1)
            /\ T11!InTurn(T11!ReaderOf(k)) => sync_value = k
            /\ pc11[T11!WriterOf(k)] \in {"write array", "release"} => value1 = k
            /\ pc11[T11!WriterOf(k)] = "release" => array[k] = k
            /\ sync_value = k /\ pc11[T11!ReaderOf(k)] \notin {"turn value1", "release", "end"}
                  => value1 = k /\ array[k] = k

\* One half at a time has the object.
FirstHalf == ~Begun11 /\ Memory01 /\ Publication
SecondHalf == Begun11 /\ T01!Done /\ Memory11 /\ Turns
IInv == Types01 /\ Types11 /\ (FirstHalf \/ SecondHalf)

USE Assumptions01, Assumptions11

-----------------------------------------------------------------------------
(* The values of the two halves.                                            *)

\* No round publishes the value that reset leaves.
LEMMA StartValues ==
    ASSUME round \in 0..Rounds
    PROVE  /\ T01!startValue \in 0..T01!FirstStart + Rounds
           /\ T01!startValue # 0
           /\ \A s \in T01!Slots :
                 T01!startValue + s \in T01!Blank..T01!FirstStart + Rounds + array_size
BY DEF T01!startValue, T01!FirstStart, T01!Blank, T01!Slots, T01!RoundsAssumption, T01!LengthAssumption

LEMMA Bounds01 ==
    /\ 0 \in 0..T01!FirstStart + Rounds /\ 0 \in 0..array_size /\ 0 \in 0..Rounds
    /\ T01!Blank \in T01!Blank..T01!FirstStart + Rounds + array_size
    /\ 0 \in T01!Blank..T01!FirstStart + Rounds + array_size
BY DEF T01!FirstStart, T01!Blank, T01!RoundsAssumption, T01!LengthAssumption

LEMMA SlotsBelow == \A n \in 0..array_size : n < array_size => n \in T01!Slots
BY DEF T01!Slots, T01!LengthAssumption

\* The indices are the array's, and the next turn is the next writer's.
LEMMA Indices11 ==
    ASSUME NEW k \in T11!Indices
    PROVE  /\ k \in Int /\ 0 <= k /\ k < array_size /\ T11!Idx(k) = k
           /\ k \in 0..array_size - 1
           /\ k \in -array_size..array_size - 1
           /\ -(k + 1) \in -array_size..array_size - 1
BY DEF T11!Indices, T11!Idx, T11!PairsAssumption, T11!SizeAssumption

LEMMA NextPuts ==
    ASSUME NEW k \in T11!Indices
    PROVE  /\ T11!NextPut(k) = IF k = array_size - 1 THEN -1 ELSE -(k + 2)
           /\ T11!NextPut(k) \in -array_size..array_size - 1
           /\ T11!NextPut(k) < 0
<1>1. array_size \in Nat \ {0} /\ k \in 0..array_size - 1 /\ T11!Idx(k) = k
    BY Indices11 DEF T11!SizeAssumption
<1>2. CASE k = array_size - 1
  <2>1. array_size % array_size = 0
    BY <1>1
  <2> QED
    BY <1>1, <1>2, <2>1 DEF T11!NextPut
<1>3. CASE k # array_size - 1
  <2>1. (k + 1) % array_size = k + 1
    BY <1>1, <1>3
  <2> QED
    BY <1>1, <1>3, <2>1 DEF T11!NextPut
<1> QED
    BY <1>2, <1>3

-----------------------------------------------------------------------------
(* The first half.                                                          *)

LEMMA Init01 ==
    ASSUME T01!Init
    PROVE  Types01 /\ Memory01 /\ Publication
<1>1. /\ acquired \in [Readers -> 0..T01!FirstStart + Rounds]
      /\ i \in [T01!Workers -> 0..array_size]
      /\ round \in 0..Rounds
      /\ Memory01
    BY Bounds01 DEF T01!Init, Memory01
<1> QED
    BY <1>1 DEF T01!Init, Types01, Publication, T01!Workers, T01!Labels, PutLabels, GetLabels

\* A step of the writer moves nobody else, and is one of a round.
LEMMA WriterMoves ==
    ASSUME Types01, NEW to \in PutLabels \ {"not created"}, pc01[Writer] \notin {"not created", "end"},
           pc01' = [pc01 EXCEPT ![Writer] = to], UNCHANGED <<acquired, main01, round>>,
           i' \in [T01!Workers -> 0..array_size]
    PROVE  /\ Types01' /\ main01 # "reset"
           /\ pc01'[Writer] = to /\ \A r \in Readers : pc01'[r] = pc01[r]
<1>1. \A r \in Readers : r # Writer /\ r \in T01!Workers
    BY DEF T01!ReadersAssumption, T01!Workers
<1>2. pc01' \in [T01!Workers -> T01!Labels] /\ Writer \in T01!Workers
    BY DEF Types01, T01!Labels, PutLabels, T01!Workers
<1>3. pc01'[Writer] = to /\ \A r \in Readers : pc01'[r] = pc01[r]
    BY <1>1, <1>2 DEF Types01
<1>4. main01 # "reset"
    BY <1>2 DEF Types01
<1> QED
    BY <1>2, <1>3, <1>4 DEF Types01

\* As long as the writer is at work all readers are held back.
LEMMA HeldBack ==
    ASSUME Types01, Publication, main01 # "reset", pc01[Writer] # "end"
    PROVE  /\ sync_value = 0
           /\ \A r \in Readers : pc01[r] \notin {"get value1", "get array", "release"}
BY DEF Publication

LEMMA StartPutStep ==
    ASSUME Types01, Memory01, Publication, T01!StartPut
    PROVE  Types01' /\ Memory01' /\ Publication'
<1>1. i' \in [T01!Workers -> 0..array_size] /\ i'[Writer] = 0
    BY Bounds01 DEF T01!StartPut, Types01, T01!Workers
<1>2. /\ Types01' /\ main01 # "reset"
      /\ pc01'[Writer] = "put array" /\ \A r \in Readers : pc01'[r] = pc01[r]
    BY <1>1, WriterMoves DEF T01!StartPut, T01!Transition, PutLabels
<1>3. UNCHANGED <<sync_value, value1, array, acquired, main01, round>> /\ pc01[Writer] = "start"
    BY DEF T01!StartPut, T01!Transition, T01!plain
<1>4. Filled(0)'
    BY DEF Filled, T01!Slots, T01!LengthAssumption
<1> QED
    BY <1>1, <1>2, <1>3, <1>4, HeldBack DEF Memory01, Publication

LEMMA PutArrayStep ==
    ASSUME Types01, Memory01, Publication, T01!PutArray
    PROVE  Types01' /\ Memory01' /\ Publication'
<1>1. /\ pc01[Writer] = "put array" /\ pc01' = pc01
      /\ UNCHANGED <<sync_value, value1, acquired, main01, round>>
      /\ Writer \in T01!Workers
    BY DEF T01!PutArray, T01!Workers
<1>2. /\ i' \in [T01!Workers -> 0..array_size] /\ i'[Writer] = i[Writer] + 1
      /\ i[Writer] \in 0..array_size - 1
  <2>1. i[Writer] \in 0..array_size /\ i[Writer] < array_size /\ array_size \in Nat
    BY <1>1 DEF T01!PutArray, Types01, T01!LengthAssumption
  <2>2. i[Writer] + 1 \in 0..array_size /\ i[Writer] \in 0..array_size - 1
    BY <2>1
  <2> QED
    BY <1>1, <2>2 DEF T01!PutArray, Types01
<1>3. Types01' /\ main01 # "reset"
    BY <1>1, <1>2 DEF Types01
<1>4. /\ array' \in [T01!Slots -> T01!Blank..T01!FirstStart + Rounds + array_size]
      /\ array'[i[Writer]] = T01!startValue + i[Writer]
      /\ \A s \in T01!Slots \ {i[Writer]} : array'[s] = array[s]
    BY <1>1, <1>2, StartValues DEF T01!PutArray, Memory01, Types01, T01!Slots
<1>5. Filled(i[Writer]) /\ T01!startValue' = T01!startValue
    BY <1>1, <1>3 DEF Publication, T01!startValue
<1>6. Filled(i[Writer])'
  <2>1. SUFFICES ASSUME NEW s \in T01!Slots, s < i[Writer] + 1
                 PROVE  array'[s] = T01!startValue + s
    BY <1>2, <1>5 DEF Filled
  <2>2. s = i[Writer] \/ s < i[Writer]
    BY <1>2, <2>1 DEF T01!Slots
  <2> QED
    BY <1>4, <1>5, <2>1, <2>2 DEF Filled
<1>7. Memory01'
    BY <1>1, <1>4 DEF Memory01
<1> QED
    BY <1>1, <1>2, <1>3, <1>6, <1>7, HeldBack DEF Publication

LEMMA PutArrayDoneStep ==
    ASSUME Types01, Memory01, Publication, T01!PutArrayDone
    PROVE  Types01' /\ Memory01' /\ Publication'
<1>1. /\ UNCHANGED <<sync_value, value1, array, acquired, i, main01, round>>
      /\ pc01[Writer] = "put array" /\ i[Writer] = array_size
    BY DEF T01!PutArrayDone, T01!Transition, T01!plain
<1>2. /\ Types01' /\ main01 # "reset"
      /\ pc01'[Writer] = "put value1" /\ \A r \in Readers : pc01'[r] = pc01[r]
    BY <1>1, WriterMoves DEF T01!PutArrayDone, T01!Transition, PutLabels, Types01
<1>3. Filled(array_size)'
    BY <1>1, <1>2 DEF Publication, Filled, T01!startValue
<1> QED
    BY <1>1, <1>2, <1>3, HeldBack DEF Memory01, Publication

LEMMA PutValue1Step ==
    ASSUME Types01, Memory01, Publication, T01!PutValue1
    PROVE  Types01' /\ Memory01' /\ Publication'
<1>1. /\ UNCHANGED <<sync_value, array, acquired, i, main01, round>>
      /\ pc01[Writer] = "put value1" /\ value1' = T01!startValue
    BY DEF T01!PutValue1, T01!Transition
<1>2. /\ Types01' /\ main01 # "reset"
      /\ pc01'[Writer] = "publish" /\ \A r \in Readers : pc01'[r] = pc01[r]
    BY <1>1, WriterMoves DEF T01!PutValue1, T01!Transition, PutLabels, Types01
<1>3. Filled(array_size)' /\ T01!startValue' = T01!startValue
    BY <1>1, <1>2 DEF Publication, Filled, T01!startValue
<1> QED
    BY <1>1, <1>2, <1>3, StartValues, HeldBack DEF Memory01, Types01, Publication

LEMMA PublishStep ==
    ASSUME Types01, Memory01, Publication, T01!Publish
    PROVE  Types01' /\ Memory01' /\ Publication'
<1>1. /\ UNCHANGED <<value1, array, acquired, i, main01, round>>
      /\ pc01[Writer] = "publish" /\ sync_value' = T01!startValue
    BY DEF T01!Publish, T01!Transition, T01!plain
<1>2. /\ Types01' /\ main01 # "reset"
      /\ pc01'[Writer] = "end" /\ \A r \in Readers : pc01'[r] = pc01[r]
    BY <1>1, WriterMoves DEF T01!Publish, T01!Transition, PutLabels, Types01
<1>3. Filled(array_size)' /\ T01!startValue' = T01!startValue
    BY <1>1, <1>2 DEF Publication, Filled, T01!startValue
<1> QED
    BY <1>1, <1>2, <1>3, StartValues, HeldBack DEF Memory01, Types01, Publication

\* So does a step of a reader that has passed its spin or is about to.
LEMMA ReaderMoves ==
    ASSUME Types01, Memory01, Publication, NEW r \in Readers, NEW to \in GetLabels \ {"not created"},
           pc01[r] \notin {"not created", "end"}, pc01[Writer] = "end",
           pc01' = [pc01 EXCEPT ![r] = to], UNCHANGED <<sync_value, value1, array, main01, round>>,
           i' \in [T01!Workers -> 0..array_size],
           acquired' \in [Readers -> 0..T01!FirstStart + Rounds],
           acquired'[r] = T01!startValue, \A q \in Readers \ {r} : acquired'[q] = acquired[q]
    PROVE  Types01' /\ Memory01' /\ Publication'
<1>1. r # Writer /\ r \in T01!Workers
    BY DEF T01!ReadersAssumption, T01!Workers
<1>2. pc01' \in [T01!Workers -> T01!Labels]
    BY DEF Types01, T01!Labels, GetLabels, T01!Workers
<1>3. /\ pc01'[r] = to /\ pc01'[Writer] = pc01[Writer]
      /\ \A q \in Readers \ {r} : pc01'[q] = pc01[q]
    BY <1>1 DEF Types01, T01!Workers
<1>4. main01 # "reset"
    BY <1>1 DEF Types01
<1>5. Types01'
    BY <1>2, <1>3, <1>4 DEF Types01
<1>6. Filled(array_size)' /\ T01!startValue' = T01!startValue
    BY <1>4 DEF Publication, Filled, T01!startValue
<1> QED
    BY <1>3, <1>4, <1>5, <1>6 DEF Memory01, Publication

LEMMA AcquireStep ==
    ASSUME Types01, Memory01, Publication, NEW r \in Readers, T01!Acquire(r)
    PROVE  Types01' /\ Memory01' /\ Publication'
<1>1. /\ pc01[r] = "start" /\ sync_value = T01!startValue
      /\ UNCHANGED <<sync_value, value1, array, main01, round>>
      /\ pc01' = [pc01 EXCEPT ![r] = "get value1"]
    BY DEF T01!Acquire, T01!Transition, T01!plain
<1>2. pc01[Writer] = "end"
    BY <1>1, StartValues DEF Publication, Types01, T01!Workers
<1>3. /\ i' \in [T01!Workers -> 0..array_size]
      /\ acquired' \in [Readers -> 0..T01!FirstStart + Rounds]
      /\ acquired'[r] = T01!startValue /\ \A q \in Readers \ {r} : acquired'[q] = acquired[q]
    BY <1>1, Bounds01 DEF T01!Acquire, Types01, Memory01
<1> QED
    BY <1>1, <1>2, <1>3, ReaderMoves DEF GetLabels

\* What a reader between its spin and its end knows.
LEMMA Acquired ==
    ASSUME Types01, Publication, NEW r \in Readers,
           pc01[r] \in {"get value1", "get array", "release"}
    PROVE  /\ main01 # "reset" /\ pc01[Writer] = "end" /\ acquired[r] = T01!startValue
           /\ sync_value = T01!startValue /\ value1 = T01!startValue /\ Filled(array_size)
BY DEF Types01, Publication, T01!Workers

LEMMA GetStep ==
    ASSUME Types01, Memory01, Publication, NEW r \in Readers,
           T01!GetValue1(r) \/ T01!GetArray(r) \/ T01!GetArrayDone(r) \/ T01!Release(r)
    PROVE  Types01' /\ Memory01' /\ Publication'
<1>1. pc01[r] \in {"get value1", "get array", "release"}
    BY DEF T01!GetValue1, T01!GetArray, T01!GetArrayDone, T01!Release, T01!Transition
<1>2. UNCHANGED <<sync_value, value1, array, acquired, main01, round>>
    BY <1>1, Acquired DEF T01!GetValue1, T01!GetArray, T01!GetArrayDone, T01!Release, T01!plain
<1>3. i' \in [T01!Workers -> 0..array_size]
  <2>1. T01!GetArray(r) => i[r] + 1 \in 0..array_size
    <3>1. i[r] \in 0..array_size /\ array_size \in Nat
      BY DEF Types01, T01!Workers, T01!LengthAssumption
    <3>2. T01!GetArray(r) => i[r] < array_size
      BY DEF T01!GetArray
    <3> QED
      BY <3>1, <3>2
  <2> QED
    BY <2>1 DEF T01!GetValue1, T01!GetArray, T01!GetArrayDone, T01!Release, Types01
<1>4. PICK to \in {"get array", "release", "end"} : pc01' = [pc01 EXCEPT ![r] = to]
  <2>1. pc01[r] = "get array" => pc01 = [pc01 EXCEPT ![r] = "get array"]
    BY DEF Types01, T01!Workers
  <2> QED
    BY <2>1 DEF T01!GetValue1, T01!GetArray, T01!GetArrayDone, T01!Release, T01!Transition
<1>5. to \in GetLabels \ {"not created"}
    BY DEF GetLabels
<1>6. acquired' \in [Readers -> 0..T01!FirstStart + Rounds] /\ acquired' = acquired
    BY <1>2 DEF Types01
<1> QED
    BY <1>1, <1>2, <1>3, <1>4, <1>5, <1>6, Acquired, ReaderMoves

LEMMA Reset01Step ==
    ASSUME Types01, Memory01, Publication, T01!Reset
    PROVE  Types01' /\ Memory01' /\ Publication'
<1>1. /\ value1' = 0 /\ sync_value' = 0 /\ array' = [s \in T01!Slots |-> T01!Blank]
      /\ main01' = "create" /\ pc01' = [t \in T01!Workers |-> "not created"]
      /\ UNCHANGED <<acquired, i, round>> /\ round < Rounds
    BY DEF T01!Reset
<1>2. Memory01'
    BY <1>1, Bounds01 DEF Memory01
<1>3. \A t \in T01!Workers : pc01'[t] = "not created"
    BY <1>1
<1>4. Types01'
    BY <1>1, <1>3 DEF Types01, T01!Labels, PutLabels, GetLabels, T01!Workers
<1> QED
    BY <1>1, <1>2, <1>3, <1>4 DEF Publication, T01!Workers

LEMMA Create01Step ==
    ASSUME Types01, Memory01, Publication, NEW t \in T01!Workers, T01!Create(t)
    PROVE  Types01' /\ Memory01' /\ Publication'
<1>1. /\ UNCHANGED <<sync_value, value1, array, acquired, i, main01, round>>
      /\ main01 = "create" /\ pc01[t] = "not created" /\ pc01' = [pc01 EXCEPT ![t] = "start"]
    BY DEF T01!Create, T01!Transition, T01!plain
<1>2. /\ pc01' \in [T01!Workers -> T01!Labels] /\ pc01'[t] = "start"
      /\ \A u \in T01!Workers \ {t} : pc01'[u] = pc01[u]
    BY <1>1 DEF Types01, T01!Labels
<1>3. Types01'
    BY <1>1, <1>2 DEF Types01, PutLabels, GetLabels, T01!Workers
<1>4. T01!startValue' = T01!startValue /\ \A n : Filled(n)' = Filled(n)
    BY <1>1 DEF Filled, T01!startValue
<1>5. /\ (pc01'[Writer] = "end") = (pc01[Writer] = "end")
      /\ pc01'[Writer] # "start" => pc01'[Writer] = pc01[Writer]
      /\ \A r \in Readers : pc01'[r] # "start" => pc01'[r] = pc01[r]
    BY <1>1, <1>2 DEF T01!Workers
<1> QED
    BY <1>1, <1>3, <1>4, <1>5 DEF Memory01, Publication

LEMMA Main01Step ==
    ASSUME Types01, Memory01, Publication, T01!CreatedAll \/ T01!JoinAll
    PROVE  Types01' /\ Memory01' /\ Publication'
<1>1. CASE T01!CreatedAll
  <2>1. /\ UNCHANGED <<sync_value, value1, array, acquired, i, pc01, round>>
        /\ main01 = "create" /\ main01' = "join"
    BY <1>1 DEF T01!CreatedAll, T01!plain
  <2> QED
    BY <2>1 DEF Types01, Memory01, Publication, Filled, T01!startValue
<1>2. CASE T01!JoinAll
  <2>1. /\ UNCHANGED <<sync_value, value1, array, acquired, i, pc01>>
        /\ main01' = "reset" /\ \A t \in T01!Workers : pc01[t] = "end"
        /\ round' = round + 1 /\ main01 # "reset"
    BY <1>2 DEF T01!JoinAll, T01!plain
  <2>2. round' \in 0..Rounds
    <3>1. round \in 0..Rounds /\ round < Rounds /\ Rounds \in Nat
      BY <2>1 DEF Types01, T01!RoundsAssumption
    <3> QED
      BY <2>1, <3>1
  <2> QED
    BY <2>1, <2>2 DEF Types01, Memory01, Publication
<1> QED
    BY <1>1, <1>2

-----------------------------------------------------------------------------
(* The second half.                                                         *)

\* Every worker is the writer or the reader of one index.
LEMMA Places ==
    /\ \A k \in T11!Indices : T11!WriterOf(k) \in T11!Workers /\ T11!ReaderOf(k) \in T11!Workers
    /\ \A k, j \in T11!Indices :
          /\ T11!WriterOf(k) # T11!ReaderOf(j)
          /\ k # j => T11!WriterOf(k) # T11!WriterOf(j) /\ T11!ReaderOf(k) # T11!ReaderOf(j)
    /\ \A t \in T11!Workers :
          /\ t[2] \in T11!Indices
          /\ (t = T11!WriterOf(t[2]) /\ t[1] = "put") \/ (t = T11!ReaderOf(t[2]) /\ t[1] = "get")
    /\ \A k \in T11!Indices :
          /\ T11!WriterOf(k)[1] = "put" /\ T11!WriterOf(k)[2] = k
          /\ T11!ReaderOf(k)[1] = "get" /\ T11!ReaderOf(k)[2] = k
<1>1. \A k \in T11!Indices : T11!WriterOf(k) \in T11!Workers /\ T11!ReaderOf(k) \in T11!Workers
    BY DEF T11!WriterOf, T11!ReaderOf, T11!Workers
<1>2. \A k \in T11!Indices :
          /\ T11!WriterOf(k)[1] = "put" /\ T11!WriterOf(k)[2] = k
          /\ T11!ReaderOf(k)[1] = "get" /\ T11!ReaderOf(k)[2] = k
    BY DEF T11!WriterOf, T11!ReaderOf
<1>3. ASSUME NEW t \in T11!Workers
      PROVE  /\ t[2] \in T11!Indices
             /\ (t = T11!WriterOf(t[2]) /\ t[1] = "put") \/ (t = T11!ReaderOf(t[2]) /\ t[1] = "get")
  <2>1. PICK k \in T11!Indices : t = <<"put", k>> \/ t = <<"get", k>>
    BY DEF T11!Workers
  <2> QED
    BY <2>1 DEF T11!WriterOf, T11!ReaderOf
<1>4. \A k, j \in T11!Indices :
          /\ T11!WriterOf(k) # T11!ReaderOf(j)
          /\ k # j => T11!WriterOf(k) # T11!WriterOf(j) /\ T11!ReaderOf(k) # T11!ReaderOf(j)
    BY <1>2
<1> QED
    BY <1>1, <1>2, <1>3, <1>4

LEMMA Gates ==
    ASSUME NEW k \in T11!Indices
    PROVE  T11!Gate(T11!WriterOf(k)) = {-(k + 1)} /\ T11!Gate(T11!ReaderOf(k)) = {k}
BY Places, Indices11 DEF T11!Gate

LEMMA Labels11 == PutLabels11 \cup GetLabels11 = T11!Labels
BY DEF PutLabels11, GetLabels11, SpinLabels, T11!Labels

\* The atomic gives the turn to one worker only.
LEMMA OneInTurn ==
    ASSUME Turns, main11 # "reset", NEW k \in T11!Indices, NEW j \in T11!Indices
    PROVE  /\ T11!InTurn(T11!WriterOf(k)) =>
                 /\ sync_value = -(k + 1) /\ sync_value # j /\ ~T11!InTurn(T11!ReaderOf(j))
                 /\ j # k => ~T11!InTurn(T11!WriterOf(j))
           /\ T11!InTurn(T11!ReaderOf(k)) =>
                 /\ sync_value = k /\ ~T11!InTurn(T11!WriterOf(j))
                 /\ j # k => ~T11!InTurn(T11!ReaderOf(j))
<1>1. k \in Int /\ 0 <= k /\ j \in Int /\ 0 <= j
    BY Indices11
<1>2. -(k + 1) # j /\ -(j + 1) # k /\ (j # k => -(k + 1) # -(j + 1))
    BY <1>1
<1> QED
    BY <1>2 DEF Turns

\* A step that moves one worker only.
LEMMA Moves11 ==
    ASSUME Types11, NEW t \in T11!Workers, NEW to, main11 # "reset",
           (to \in PutLabels11 /\ t[1] = "put") \/ (to \in GetLabels11 /\ t[1] = "get"),
           pc11' = [pc11 EXCEPT ![t] = to], UNCHANGED <<main11, loop>>
    PROVE  Types11' /\ pc11'[t] = to /\ \A u \in T11!Workers \ {t} : pc11'[u] = pc11[u]
<1>1. pc11' \in [T11!Workers -> T11!Labels]
    BY Labels11 DEF Types11
<1>2. pc11'[t] = to /\ \A u \in T11!Workers \ {t} : pc11'[u] = pc11[u]
    BY DEF Types11
<1>3. \A k \in T11!Indices : /\ pc11'[T11!WriterOf(k)] \in PutLabels11
                             /\ pc11'[T11!ReaderOf(k)] \in GetLabels11
    BY <1>2, Places DEF Types11
<1> QED
    BY <1>1, <1>2, <1>3 DEF Types11

LEMMA PutMoves ==
    ASSUME Types11, NEW k \in T11!Indices, NEW to \in PutLabels11, main11 # "reset",
           pc11' = [pc11 EXCEPT ![T11!WriterOf(k)] = to], UNCHANGED <<main11, loop>>
    PROVE  /\ Types11' /\ pc11'[T11!WriterOf(k)] = to
           /\ \A j \in T11!Indices :
                 /\ pc11'[T11!ReaderOf(j)] = pc11[T11!ReaderOf(j)]
                 /\ j # k => pc11'[T11!WriterOf(j)] = pc11[T11!WriterOf(j)]
<1>1. T11!WriterOf(k) \in T11!Workers /\ T11!WriterOf(k)[1] = "put"
    BY Places
<1>2. /\ Types11' /\ pc11'[T11!WriterOf(k)] = to
      /\ \A u \in T11!Workers \ {T11!WriterOf(k)} : pc11'[u] = pc11[u]
    BY <1>1, Moves11
<1> QED
    BY <1>2, Places

LEMMA GetMoves ==
    ASSUME Types11, NEW k \in T11!Indices, NEW to \in GetLabels11, main11 # "reset",
           pc11' = [pc11 EXCEPT ![T11!ReaderOf(k)] = to], UNCHANGED <<main11, loop>>
    PROVE  /\ Types11' /\ pc11'[T11!ReaderOf(k)] = to
           /\ \A j \in T11!Indices :
                 /\ pc11'[T11!WriterOf(j)] = pc11[T11!WriterOf(j)]
                 /\ j # k => pc11'[T11!ReaderOf(j)] = pc11[T11!ReaderOf(j)]
<1>1. T11!ReaderOf(k) \in T11!Workers /\ T11!ReaderOf(k)[1] = "get"
    BY Places
<1>2. /\ Types11' /\ pc11'[T11!ReaderOf(k)] = to
      /\ \A u \in T11!Workers \ {T11!ReaderOf(k)} : pc11'[u] = pc11[u]
    BY <1>1, Moves11
<1> QED
    BY <1>2, Places

\* Between two loops no worker takes a step.
LEMMA Idle11 ==
    ASSUME Types11, NEW t \in T11!Workers, pc11[t] \notin {"not created", "end"}
    PROVE  main11 # "reset"
BY DEF Types11

LEMMA Acquire11Step ==
    ASSUME Types11, Memory11, Turns, NEW t \in T11!Workers, T11!Acquire(t)
    PROVE  Types11' /\ Memory11' /\ Turns'
<1>1. /\ pc11[t] = "spin" /\ sync_value \in T11!Gate(t)
      /\ UNCHANGED <<sync_value, value1, array, main11, loop>>
    BY DEF T11!Acquire, T11!plain, T11!Transition
<1>2. main11 # "reset"
    BY <1>1, Idle11
<1>3. PICK k \in T11!Indices : t = T11!WriterOf(k) \/ t = T11!ReaderOf(k)
    BY Places
<1>4. CASE t = T11!WriterOf(k)
  <2>1. pc11' = [pc11 EXCEPT ![T11!WriterOf(k)] = "write value1"]
    BY <1>4, Places DEF T11!Acquire, T11!Transition
  <2>2. sync_value = -(k + 1)
    BY <1>1, <1>4, Gates
  <2>3. /\ Types11' /\ pc11'[T11!WriterOf(k)] = "write value1"
        /\ \A j \in T11!Indices :
              /\ pc11'[T11!ReaderOf(j)] = pc11[T11!ReaderOf(j)]
              /\ j # k => pc11'[T11!WriterOf(j)] = pc11[T11!WriterOf(j)]
    BY <1>1, <1>2, <2>1, PutMoves DEF PutLabels11
  <2> QED
    BY <1>1, <1>2, <2>2, <2>3 DEF Turns, T11!InTurn, Memory11
<1>5. CASE t = T11!ReaderOf(k)
  <2>1. pc11' = [pc11 EXCEPT ![T11!ReaderOf(k)] = "read array"]
    BY <1>5, Places DEF T11!Acquire, T11!Transition
  <2>2. sync_value = k /\ pc11[T11!ReaderOf(k)] = "spin"
    BY <1>1, <1>5, Gates
  <2>3. /\ Types11' /\ pc11'[T11!ReaderOf(k)] = "read array"
        /\ \A j \in T11!Indices :
              /\ pc11'[T11!WriterOf(j)] = pc11[T11!WriterOf(j)]
              /\ j # k => pc11'[T11!ReaderOf(j)] = pc11[T11!ReaderOf(j)]
    BY <1>1, <1>2, <2>1, GetMoves DEF GetLabels11
  <2> QED
    BY <1>1, <1>2, <2>2, <2>3 DEF Turns, T11!InTurn, Memory11
<1> QED
    BY <1>3, <1>4, <1>5

LEMMA WriteValue1Step ==
    ASSUME Types11, Memory11, Turns, NEW k \in T11!Indices, T11!WriteValue1(k)
    PROVE  Types11' /\ Memory11' /\ Turns'
<1>1. /\ pc11[T11!WriterOf(k)] = "write value1" /\ value1' = k
      /\ pc11' = [pc11 EXCEPT ![T11!WriterOf(k)] = "write array"]
      /\ UNCHANGED <<sync_value, array, main11, loop>>
    BY Indices11 DEF T11!WriteValue1, T11!Transition
<1>2. main11 # "reset" /\ T11!InTurn(T11!WriterOf(k))
    BY <1>1, Idle11, Places DEF T11!InTurn
<1>3. /\ Types11' /\ pc11'[T11!WriterOf(k)] = "write array"
      /\ \A j \in T11!Indices :
            /\ pc11'[T11!ReaderOf(j)] = pc11[T11!ReaderOf(j)]
            /\ j # k => pc11'[T11!WriterOf(j)] = pc11[T11!WriterOf(j)]
    BY <1>1, <1>2, PutMoves DEF PutLabels11
<1>4. Turns'
    BY <1>1, <1>2, <1>3, OneInTurn DEF Turns, T11!InTurn
<1> QED
    BY <1>1, <1>3, <1>4, Indices11 DEF Memory11

LEMMA WriteArrayStep ==
    ASSUME Types11, Memory11, Turns, NEW k \in T11!Indices, T11!WriteArray(k)
    PROVE  Types11' /\ Memory11' /\ Turns'
<1>1. /\ pc11[T11!WriterOf(k)] = "write array" /\ array' = [array EXCEPT ![k] = k]
      /\ pc11' = [pc11 EXCEPT ![T11!WriterOf(k)] = "release"]
      /\ UNCHANGED <<sync_value, value1, main11, loop>>
    BY Indices11 DEF T11!WriteArray, T11!Transition
<1>2. main11 # "reset" /\ T11!InTurn(T11!WriterOf(k))
    BY <1>1, Idle11, Places DEF T11!InTurn
<1>3. /\ Types11' /\ pc11'[T11!WriterOf(k)] = "release"
      /\ \A j \in T11!Indices :
            /\ pc11'[T11!ReaderOf(j)] = pc11[T11!ReaderOf(j)]
            /\ j # k => pc11'[T11!WriterOf(j)] = pc11[T11!WriterOf(j)]
    BY <1>1, <1>2, PutMoves DEF PutLabels11
<1>4. Memory11' /\ array'[k] = k
    BY <1>1, Indices11 DEF Memory11
<1>5. Turns'
    BY <1>1, <1>2, <1>3, <1>4, OneInTurn DEF Turns, T11!InTurn
<1> QED
    BY <1>3, <1>4, <1>5

LEMMA ReleasePutStep ==
    ASSUME Types11, Memory11, Turns, NEW k \in T11!Indices, T11!ReleasePut(k)
    PROVE  Types11' /\ Memory11' /\ Turns'
<1>1. /\ pc11[T11!WriterOf(k)] = "release" /\ sync_value' = k
      /\ pc11' = [pc11 EXCEPT ![T11!WriterOf(k)] = "end"]
      /\ UNCHANGED <<value1, array, main11, loop>>
    BY Indices11 DEF T11!ReleasePut, T11!Transition, T11!plain
<1>2. main11 # "reset" /\ T11!InTurn(T11!WriterOf(k))
    BY <1>1, Idle11, Places DEF T11!InTurn
<1>3. /\ Types11' /\ pc11'[T11!WriterOf(k)] = "end"
      /\ \A j \in T11!Indices :
            /\ pc11'[T11!ReaderOf(j)] = pc11[T11!ReaderOf(j)]
            /\ j # k => pc11'[T11!WriterOf(j)] = pc11[T11!WriterOf(j)]
    BY <1>1, <1>2, PutMoves DEF PutLabels11, SpinLabels
<1>4. value1 = k /\ array[k] = k
    BY <1>1, <1>2 DEF Turns
<1>5. \A j \in T11!Indices : ~T11!InTurn(T11!ReaderOf(j)) /\ ~T11!InTurn(T11!WriterOf(j))'
    BY <1>2, <1>3, OneInTurn DEF T11!InTurn
<1>6. Turns'
    BY <1>1, <1>2, <1>3, <1>4, <1>5 DEF Turns, T11!InTurn
<1> QED
    BY <1>1, <1>3, <1>6, Indices11 DEF Memory11

LEMMA ReadStep ==
    ASSUME Types11, Memory11, Turns, NEW k \in T11!Indices, T11!ReadArray(k) \/ T11!ReadValue1(k)
    PROVE  Types11' /\ Memory11' /\ Turns'
<1>1. /\ pc11[T11!ReaderOf(k)] \in {"read array", "read value1"}
      /\ UNCHANGED <<sync_value, value1, array, main11, loop>>
    BY DEF T11!ReadArray, T11!ReadValue1, T11!Transition, T11!plain
<1>2. PICK to \in {"read value1", "turn value1"} : pc11' = [pc11 EXCEPT ![T11!ReaderOf(k)] = to]
    BY DEF T11!ReadArray, T11!ReadValue1, T11!Transition
<1>3. main11 # "reset" /\ T11!InTurn(T11!ReaderOf(k))
    BY <1>1, Idle11, Places DEF T11!InTurn
<1>4. /\ Types11' /\ pc11'[T11!ReaderOf(k)] = to
      /\ \A j \in T11!Indices :
            /\ pc11'[T11!WriterOf(j)] = pc11[T11!WriterOf(j)]
            /\ j # k => pc11'[T11!ReaderOf(j)] = pc11[T11!ReaderOf(j)]
    BY <1>1, <1>2, <1>3, GetMoves DEF GetLabels11
<1>5. Turns'
    BY <1>1, <1>2, <1>3, <1>4 DEF Turns, T11!InTurn
<1> QED
    BY <1>1, <1>4, <1>5 DEF Memory11

LEMMA TurnValue1Step ==
    ASSUME Types11, Memory11, Turns, NEW k \in T11!Indices, T11!TurnValue1(k)
    PROVE  Types11' /\ Memory11' /\ Turns'
<1>1. /\ pc11[T11!ReaderOf(k)] = "turn value1" /\ value1' = T11!NextPut(k)
      /\ pc11' = [pc11 EXCEPT ![T11!ReaderOf(k)] = "release"]
      /\ UNCHANGED <<sync_value, array, main11, loop>>
    BY DEF T11!TurnValue1, T11!Transition
<1>2. main11 # "reset" /\ T11!InTurn(T11!ReaderOf(k))
    BY <1>1, Idle11, Places DEF T11!InTurn
<1>3. /\ Types11' /\ pc11'[T11!ReaderOf(k)] = "release"
      /\ \A j \in T11!Indices :
            /\ pc11'[T11!WriterOf(j)] = pc11[T11!WriterOf(j)]
            /\ j # k => pc11'[T11!ReaderOf(j)] = pc11[T11!ReaderOf(j)]
    BY <1>1, <1>2, GetMoves DEF GetLabels11
<1>4. Turns'
    BY <1>1, <1>2, <1>3, OneInTurn DEF Turns, T11!InTurn
<1> QED
    BY <1>1, <1>3, <1>4, NextPuts DEF Memory11

LEMMA ReleaseGetStep ==
    ASSUME Types11, Memory11, Turns, NEW k \in T11!Indices, T11!ReleaseGet(k)
    PROVE  Types11' /\ Memory11' /\ Turns'
<1>1. /\ pc11[T11!ReaderOf(k)] = "release" /\ sync_value' = T11!NextPut(k)
      /\ pc11' = [pc11 EXCEPT ![T11!ReaderOf(k)] = "end"]
      /\ UNCHANGED <<value1, array, main11, loop>>
    BY DEF T11!ReleaseGet, T11!Transition, T11!plain
<1>2. main11 # "reset" /\ T11!InTurn(T11!ReaderOf(k))
    BY <1>1, Idle11, Places DEF T11!InTurn
<1>3. /\ Types11' /\ pc11'[T11!ReaderOf(k)] = "end"
      /\ \A j \in T11!Indices :
            /\ pc11'[T11!WriterOf(j)] = pc11[T11!WriterOf(j)]
            /\ j # k => pc11'[T11!ReaderOf(j)] = pc11[T11!ReaderOf(j)]
    BY <1>1, <1>2, GetMoves DEF GetLabels11, SpinLabels
<1>4. \A j \in T11!Indices :
          /\ ~T11!InTurn(T11!ReaderOf(j))' /\ ~T11!InTurn(T11!WriterOf(j))'
          /\ sync_value' # j
  <2>1. \A j \in T11!Indices : T11!NextPut(k) # j
    BY NextPuts, Indices11
  <2> QED
    BY <1>1, <1>2, <1>3, <2>1, OneInTurn DEF T11!InTurn
<1>5. Turns'
    BY <1>4 DEF Turns, T11!InTurn
<1> QED
    BY <1>1, <1>3, <1>5, NextPuts DEF Memory11

\* reset starts a loop on whatever the object holds.
LEMMA Reset11Step ==
    ASSUME Types11, T11!Reset
    PROVE  Types11' /\ Memory11' /\ Turns' /\ Begun11'
<1>1. /\ value1' = -1 /\ sync_value' = -1 /\ array' = [k \in 0..array_size - 1 |-> -1]
      /\ main11' = "create" /\ pc11' = [t \in T11!Workers |-> "not created"]
      /\ loop' = loop /\ loop > 0
    BY DEF T11!Reset
<1>2. -1 \in -array_size..array_size - 1
    BY DEF T11!SizeAssumption
<1>3. \A k \in T11!Indices :
          pc11'[T11!WriterOf(k)] = "not created" /\ pc11'[T11!ReaderOf(k)] = "not created"
    BY <1>1, Places
<1>4. Types11'
    BY <1>1, <1>3 DEF Types11, T11!Labels, PutLabels11, GetLabels11, SpinLabels
<1>5. ASSUME NEW k \in T11!Indices PROVE sync_value' # k
  <2>1. k \in Int /\ 0 <= k
    BY Indices11
  <2>2. -1 # k
    BY <2>1
  <2> QED
    BY <1>1, <2>2
<1>6. Turns'
    BY <1>3, <1>5 DEF Turns, T11!InTurn
<1> QED
    BY <1>1, <1>2, <1>4, <1>6 DEF Memory11, Begun11

LEMMA Create11Step ==
    ASSUME Types11, Memory11, Turns, NEW t \in T11!Workers, T11!Create(t)
    PROVE  Types11' /\ Memory11' /\ Turns'
<1>1. /\ pc11[t] = "not created" /\ pc11' = [pc11 EXCEPT ![t] = "spin"]
      /\ UNCHANGED <<sync_value, value1, array, main11, loop>> /\ main11 = "create"
    BY DEF T11!Create, T11!Transition, T11!plain
<1>2. /\ Types11' /\ pc11'[t] = "spin"
      /\ \A u \in T11!Workers \ {t} : pc11'[u] = pc11[u]
    BY <1>1, Moves11, Places DEF PutLabels11, GetLabels11, SpinLabels
<1>3. Turns'
  <2>1. \A u \in T11!Workers :
            pc11'[u] = pc11[u] \/ (pc11[u] = "not created" /\ pc11'[u] = "spin")
    BY <1>1, <1>2
  <2>2. \A k \in T11!Indices :
            /\ T11!InTurn(T11!WriterOf(k))' => pc11'[T11!WriterOf(k)] = pc11[T11!WriterOf(k)]
            /\ T11!InTurn(T11!ReaderOf(k))' => pc11'[T11!ReaderOf(k)] = pc11[T11!ReaderOf(k)]
            /\ pc11'[T11!ReaderOf(k)] = pc11[T11!ReaderOf(k)] \/ pc11[T11!ReaderOf(k)] = "not created"
    BY <2>1, Places DEF T11!InTurn
  <2> QED
    BY <1>1, <2>2 DEF Turns, T11!InTurn
<1> QED
    BY <1>1, <1>2, <1>3 DEF Memory11

LEMMA Main11Step ==
    ASSUME Types11, Memory11, Turns, Begun11, T11!CreatedAll \/ T11!JoinAll
    PROVE  Types11' /\ Memory11' /\ Turns' /\ Begun11'
<1>1. CASE T11!CreatedAll
    BY <1>1 DEF T11!CreatedAll, T11!plain, Types11, Memory11, Turns, Begun11, T11!InTurn
<1>2. CASE T11!JoinAll
  <2>1. /\ UNCHANGED <<sync_value, value1, array, pc11>>
        /\ main11' = "reset" /\ \A t \in T11!Workers : pc11[t] = "end"
        /\ loop' = loop - 1
    BY <1>2 DEF T11!JoinAll, T11!plain
  <2>2. loop' \in 0..Loops /\ loop' < Loops
    <3>1. loop \in 0..Loops /\ loop > 0 /\ Loops \in Nat
      BY <1>2 DEF T11!JoinAll, Types11, T11!LoopsAssumption
    <3> QED
      BY <2>1, <3>1
  <2> QED
    BY <2>1, <2>2 DEF Types11, Memory11, Turns, Begun11
<1> QED
    BY <1>1, <1>2

-----------------------------------------------------------------------------
(* The two halves together.                                                 *)

\* Once all rounds are over the first half does nothing any more.
LEMMA OnlyFinished ==
    ASSUME Types01, T01!Done, T01!Next
    PROVE  UNCHANGED <<object, vars01>>
<1>1. \A t \in T01!Workers : pc01[t] \in {"not created", "end"}
    BY DEF Types01, T01!Done
<1>2. ~T01!Put
  <2>1. pc01[Writer] \in {"not created", "end"}
    BY <1>1 DEF T01!Workers
  <2> QED
    BY <2>1 DEF T01!Put, T01!StartPut, T01!PutArray, T01!PutArrayDone, T01!PutValue1, T01!Publish,
                T01!Transition
<1>3. \A r \in Readers : ~T01!Get(r)
  <2> SUFFICES ASSUME NEW r \in Readers PROVE ~T01!Get(r)
    OBVIOUS
  <2>1. pc01[r] \in {"not created", "end"}
    BY <1>1 DEF T01!Workers
  <2> QED
    BY <2>1 DEF T01!Get, T01!Acquire, T01!GetValue1, T01!GetArray, T01!GetArrayDone, T01!Release,
                T01!Transition
<1>4. ~T01!MainThread
  <2>1. main01 = "reset" /\ round = Rounds /\ ~(Rounds < Rounds)
    BY DEF T01!Done, T01!RoundsAssumption
  <2> QED
    BY <2>1 DEF T01!MainThread, T01!Reset, T01!Create, T01!CreatedAll, T01!JoinAll
<1>5. UNCHANGED T01!vars
    BY <1>2, <1>3, <1>4 DEF T01!Next, T01!Finished
<1> QED
    BY <1>5 DEF T01!vars, T01!plain, object, vars01

LEMMA Step01 ==
    ASSUME Types01, Memory01, Publication, T01!Next
    PROVE  Types01' /\ Memory01' /\ Publication'
<1>1. CASE T01!Put
    BY <1>1, StartPutStep, PutArrayStep, PutArrayDoneStep, PutValue1Step, PublishStep DEF T01!Put
<1>2. CASE \E r \in Readers : T01!Get(r)
    BY <1>2, AcquireStep, GetStep DEF T01!Get
<1>3. CASE T01!MainThread
    BY <1>3, Reset01Step, Create01Step, Main01Step DEF T01!MainThread
<1>4. CASE T01!Finished
    BY <1>4 DEF T01!Finished, T01!vars, T01!plain, Types01, Memory01, Publication, Filled,
                T01!startValue
<1> QED
    BY <1>1, <1>2, <1>3, <1>4 DEF T01!Next

\* Before the first reset of the second half nothing else can happen in it.
LEMMA OnlyReset ==
    ASSUME Types11, ~Begun11, T11!Next
    PROVE  T11!Reset \/ UNCHANGED <<object, vars11>>
<1>1. /\ main11 = "reset" /\ \A t \in T11!Workers : pc11[t] \in {"not created", "end"}
    BY DEF Begun11, Types11
<1>2. \A t \in T11!Workers : ~T11!Worker(t)
  <2> SUFFICES ASSUME NEW t \in T11!Workers, T11!Worker(t) PROVE FALSE
    OBVIOUS
  <2>1. pc11[t] \in {"not created", "end"}
    BY <1>1
  <2>2. (t = T11!WriterOf(t[2]) /\ t[1] = "put") \/ (t = T11!ReaderOf(t[2]) /\ t[1] = "get")
    BY Places
  <2> QED
    BY <2>1, <2>2 DEF T11!Worker, T11!Acquire, T11!Put, T11!Get, T11!WriteValue1, T11!WriteArray,
       T11!ReleasePut, T11!ReadArray, T11!ReadValue1, T11!TurnValue1, T11!ReleaseGet, T11!Transition
<1>3. T11!Reset \/ UNCHANGED T11!vars
    BY <1>1, <1>2 DEF T11!Next, T11!MainThread, T11!Create, T11!CreatedAll, T11!JoinAll, T11!Finished
<1> QED
    BY <1>3 DEF T11!vars, T11!plain, object, vars11

LEMMA WorkerStep ==
    ASSUME Types11, Memory11, Turns, NEW t \in T11!Workers, T11!Worker(t)
    PROVE  Types11' /\ Memory11' /\ Turns' /\ UNCHANGED <<main11, loop>>
<1>1. t[2] \in T11!Indices
    BY Places
<1>2. UNCHANGED <<main11, loop>>
    BY DEF T11!Worker, T11!Acquire, T11!Put, T11!Get, T11!WriteValue1, T11!WriteArray,
       T11!ReleasePut, T11!ReadArray, T11!ReadValue1, T11!TurnValue1, T11!ReleaseGet
<1>3. CASE T11!Acquire(t)
    BY <1>3, Acquire11Step, <1>2
<1>4. CASE T11!Put(t[2])
    BY <1>1, <1>2, <1>4, WriteValue1Step, WriteArrayStep, ReleasePutStep DEF T11!Put
<1>5. CASE T11!Get(t[2])
    BY <1>1, <1>2, <1>5, ReadStep, TurnValue1Step, ReleaseGetStep DEF T11!Get
<1> QED
    BY <1>3, <1>4, <1>5 DEF T11!Worker

LEMMA Step11 ==
    ASSUME Types11, Memory11, Turns, Begun11, T11!Next
    PROVE  Types11' /\ Memory11' /\ Turns' /\ Begun11'
<1>1. CASE \E t \in T11!Workers : T11!Worker(t)
    BY <1>1, WorkerStep DEF Begun11
<1>2. CASE T11!Reset
    BY <1>2, Reset11Step
<1>3. CASE \E t \in T11!Workers : T11!Create(t)
  <2>1. UNCHANGED <<main11, loop>>
    BY <1>3 DEF T11!Create
  <2> QED
    BY <1>3, <2>1, Create11Step DEF Begun11
<1>4. CASE T11!CreatedAll \/ T11!JoinAll
    BY <1>4, Main11Step
<1>5. CASE T11!Finished
    BY <1>5 DEF T11!Finished, T11!vars, T11!plain, Types11, Memory11, Turns, Begun11, T11!InTurn
<1> QED
    BY <1>1, <1>2, <1>3, <1>4, <1>5 DEF T11!Next, T11!MainThread

LEMMA Types01Stays == ASSUME Types01, UNCHANGED vars01 PROVE Types01' /\ T01!Done' = T01!Done
BY DEF Types01, vars01, T01!Done

LEMMA Types11Stays == ASSUME Types11, UNCHANGED vars11 PROVE Types11' /\ Begun11' = Begun11
BY DEF Types11, vars11, Begun11

LEMMA NextIInv == IInv /\ [Next]_vars => IInv'
<1> SUFFICES ASSUME IInv, [Next]_vars PROVE IInv'
    OBVIOUS
<1>1. CASE Tests01 /\ FirstHalf
  <2>1. Types01' /\ Memory01' /\ Publication'
    BY <1>1, Step01 DEF Tests01, FirstHalf, IInv
  <2>2. Types11' /\ ~Begun11'
    BY <1>1, Types11Stays DEF Tests01, FirstHalf, IInv
  <2> QED
    BY <2>1, <2>2 DEF IInv, FirstHalf
<1>2. CASE (Tests01 /\ SecondHalf) \/ UNCHANGED vars
  <2>1. UNCHANGED vars
    BY <1>2, OnlyFinished DEF Tests01, SecondHalf, IInv, vars
  <2>2. Types01' /\ T01!Done' = T01!Done /\ Types11' /\ Begun11' = Begun11
    BY <2>1, Types01Stays, Types11Stays DEF IInv, vars
  <2>3. Memory01 /\ Publication => Memory01' /\ Publication'
    BY <2>1 DEF vars, object, vars01, Memory01, Publication, Filled, T01!startValue
  <2>4. Memory11 /\ Turns => Memory11' /\ Turns'
    BY <2>1 DEF vars, object, vars11, Memory11, Turns, T11!InTurn
  <2> QED
    BY <2>2, <2>3, <2>4 DEF IInv, FirstHalf, SecondHalf
<1>3. CASE Tests11
  <2>1. Types01' /\ T01!Done' /\ T01!Done
    BY <1>3, Types01Stays DEF Tests11, IInv
  <2>2. CASE Begun11
    <3>1. Types11' /\ Memory11' /\ Turns' /\ Begun11'
      BY <1>3, <2>2, Step11 DEF Tests11, IInv, FirstHalf, SecondHalf
    <3> QED
      BY <2>1, <3>1 DEF IInv, SecondHalf
  <2>3. CASE ~Begun11 /\ T11!Reset
    <3>1. Types11' /\ Memory11' /\ Turns' /\ Begun11'
      BY <2>3, Reset11Step DEF IInv
    <3> QED
      BY <2>1, <3>1 DEF IInv, SecondHalf
  <2>4. CASE ~Begun11 /\ UNCHANGED <<object, vars11>>
    <3>1. Types11' /\ ~Begun11'
      BY <2>4, Types11Stays DEF IInv
    <3>2. Memory01' /\ Publication'
      BY <1>3, <2>4 DEF Tests11, IInv, FirstHalf, SecondHalf, object, vars01, Memory01, Publication,
                        Filled, T01!startValue
    <3> QED
      BY <2>1, <3>1, <3>2 DEF IInv, FirstHalf
  <2> QED
    BY <1>3, <2>2, <2>3, <2>4, OnlyReset DEF Tests11, IInv
<1> QED
    BY <1>1, <1>2, <1>3 DEF Next, IInv

LEMMA InitIInv == Init => IInv
<1> SUFFICES ASSUME Init PROVE IInv
    OBVIOUS
<1>1. Types01 /\ Memory01 /\ Publication
    BY Init01 DEF Init
<1>2. Types11 /\ ~Begun11
  <2>1. loop \in 0..Loops /\ loop = Loops /\ ~(loop < Loops)
    <3>1. loop = Loops /\ Loops \in Nat
      BY DEF Init, T11!LoopsAssumption
    <3> QED
      BY <3>1
  <2> QED
    BY <2>1, Places DEF Init, Types11, T11!Labels, PutLabels11, GetLabels11, SpinLabels, Begun11
<1> QED
    BY <1>1, <1>2 DEF IInv, FirstHalf

\* The inductive invariant of the two halves.
THEOREM AlwaysIInv == Spec => []IInv
BY InitIInv, NextIInv, PTL DEF Spec

-----------------------------------------------------------------------------
\* Each half finds the object as it needs it: the types, and every REQUIRE of
\* getThreadType01 and getThreadType11; in the first half nobody reads plain
\* memory another one is about to write.
THEOREM EachHalfFindsItsObject == Spec => []Inv
<1>1. IInv => Inv
  <2> SUFFICES ASSUME IInv PROVE Inv
    OBVIOUS
  <2>1. ~T01!Done => T01!TypeOK
    BY DEF IInv, FirstHalf, SecondHalf, Types01, Memory01, T01!TypeOK
  <2>2. Begun11 => T11!TypeOK
    BY DEF IInv, FirstHalf, SecondHalf, Types11, Memory11, T11!TypeOK
  <2>3. ASSUME NEW r \in Readers, pc01[r] \in {"get value1", "get array"}
        PROVE  /\ sync_value = T01!startValue /\ value1 = T01!startValue /\ Filled(array_size)
               /\ pc01[Writer] = "end" /\ main01 # "reset"
    <3>1. Publication
      BY <2>3 DEF IInv, FirstHalf, SecondHalf, Types01, T01!Done, T01!Workers
    <3> QED
      BY <2>3, <3>1, Acquired DEF IInv
  <2>4. T01!Requires
    <3> SUFFICES ASSUME NEW r \in Readers, pc01[r] = "get array", i[r] < array_size
                 PROVE  array[i[r]] = T01!startValue + i[r]
      BY <2>3 DEF T01!Requires
    <3>1. i[r] \in T01!Slots
      <4>1. i[r] \in 0..array_size
        BY DEF IInv, Types01, T01!Workers
      <4> QED
        BY <4>1, SlotsBelow
    <3> QED
      BY <2>3, <3>1 DEF Filled
  <2>5. T01!NoDataRace
    <3>1. \A r \in Readers : T01!Touches(Writer) \cap T01!Touches(r) = {}
      <4>1. CASE pc01[Writer] \in {"put value1", "put array"}
        <5>1. \A r \in Readers : pc01[r] \in {"not created", "start", "release", "end"}
          BY <2>3, <4>1 DEF IInv, Types01, GetLabels
        <5>2. \A r \in Readers : T01!Touches(r) = {}
          BY <5>1 DEF T01!Touches
        <5> QED
          BY <5>2
      <4>2. CASE pc01[Writer] \notin {"put value1", "put array"}
        BY <4>2 DEF T01!Touches, IInv, Types01, PutLabels
      <4> QED
        BY <4>1, <4>2
    <3>2. main01 = "reset" => \A t \in T01!Workers : T01!Touches(t) = {}
      BY DEF IInv, Types01, T01!Touches
    <3> QED
      BY <3>1, <3>2 DEF T01!NoDataRace
  <2>6. T11!Requires
    <3> SUFFICES ASSUME NEW k \in T11!Indices,
                        pc11[T11!ReaderOf(k)] \in {"read array", "read value1"}
                 PROVE  array[k] = k /\ value1 = k
      BY Indices11 DEF T11!Requires
    <3>1. main11 # "reset" /\ Turns
      BY Idle11, Places DEF IInv, FirstHalf, SecondHalf, Begun11
    <3> QED
      BY <3>1 DEF Turns, T11!InTurn
  <2> QED
    BY <2>1, <2>2, <2>4, <2>5, <2>6 DEF Inv
<1> QED
    BY <1>1, AlwaysIInv, PTL

\* In the second half nobody touches plain memory out of turn.
THEOREM OnlyInTurn == Spec => []NoDataRace
<1>1. IInv => NoDataRace
  <2> SUFFICES ASSUME IInv PROVE T11!NoDataRace
    BY DEF NoDataRace
  <2>1. ASSUME NEW t \in T11!Workers, NEW u \in T11!Workers, t # u,
               T11!InTurn(t), T11!InTurn(u)
        PROVE  FALSE
    <3>1. main11 # "reset" /\ Turns
      BY <2>1, Idle11 DEF IInv, FirstHalf, SecondHalf, Begun11, T11!InTurn
    <3>2. PICK k \in T11!Indices : t = T11!WriterOf(k) \/ t = T11!ReaderOf(k)
      BY Places
    <3>3. PICK j \in T11!Indices : u = T11!WriterOf(j) \/ u = T11!ReaderOf(j)
      BY Places
    <3> QED
      BY <2>1, <3>1, <3>2, <3>3, OneInTurn
  <2>2. \A t \in T11!Workers :
            (T11!Writes(t) \/ T11!Touches(t) # {}) => T11!InTurn(t) /\ main11 # "reset"
    <3> SUFFICES ASSUME NEW t \in T11!Workers, T11!Writes(t) \/ T11!Touches(t) # {}
                 PROVE  T11!InTurn(t) /\ main11 # "reset"
      OBVIOUS
    <3>1. T11!InTurn(t)
      BY DEF T11!Writes, T11!Touches, T11!InTurn
    <3> QED
      BY <3>1, Idle11 DEF IInv, T11!InTurn
  <2>3. \A t, u \in T11!Workers : t # u /\ T11!Writes(t) => T11!Touches(t) \cap T11!Touches(u) = {}
    BY <2>1, <2>2
  <2> QED
    BY <2>2, <2>3 DEF T11!NoDataRace
<1> QED
    BY <1>1, AlwaysIInv, PTL

\* What has been published stays so until all readers have it.
THEOREM PublicationHolds == Spec => PublicationStands
<1>1. IInv /\ [Next]_vars =>
        [main01 # "reset" /\ sync_value = T01!startValue =>
            sync_value' = T01!startValue /\ UNCHANGED T01!plain]_T01!vars
  <2> SUFFICES ASSUME IInv, [Next]_vars, main01 # "reset", sync_value = T01!startValue
               PROVE  sync_value' = T01!startValue /\ UNCHANGED T01!plain
    OBVIOUS
  <2>1. Publication /\ ~T01!Done
    BY DEF IInv, FirstHalf, SecondHalf, T01!Done
  <2>2. pc01[Writer] = "end"
    BY <2>1, StartValues DEF Publication, IInv, Types01
  <2>3. CASE T01!Next
    <3>1. ~T01!Put
      BY <2>2 DEF T01!Put, T01!StartPut, T01!PutArray, T01!PutArrayDone, T01!PutValue1,
                  T01!Publish, T01!Transition
    <3>2. CASE \E r \in Readers : T01!Get(r)
      <4>1. PICK r \in Readers : T01!Get(r)
        BY <3>2
      <4>2. T01!Release(r) => acquired[r] = T01!startValue
        BY <2>1, Acquired DEF T01!Release, T01!Transition, IInv
      <4> QED
        BY <4>1, <4>2 DEF T01!Get, T01!Acquire, T01!GetValue1, T01!GetArray, T01!GetArrayDone,
                          T01!Release
    <3>3. CASE T01!MainThread
      BY <3>3 DEF T01!MainThread, T01!Reset, T01!Create, T01!CreatedAll, T01!JoinAll
    <3>4. CASE T01!Finished
      BY <3>4 DEF T01!Finished, T01!vars
    <3> QED
      BY <2>3, <3>1, <3>2, <3>3, <3>4 DEF T01!Next
  <2>4. CASE UNCHANGED vars
    BY <2>4 DEF vars, object, T01!plain
  <2> QED
    BY <2>1, <2>3, <2>4 DEF Next, Tests01, Tests11
<1> QED
    BY <1>1, AlwaysIInv, PTL DEF Spec, PublicationStands, T01!PublicationStands

\* In the second half no turn is skipped and none is taken twice.
THEOREM TurnsPassInOrder == Spec => TurnsInOrder
<1>1. IInv /\ [Next]_vars =>
        [main11 # "reset" =>
            sync_value' = sync_value \/ T11!PassTurn]_T11!vars
  <2> SUFFICES ASSUME IInv, [Next]_vars, main11 # "reset", sync_value' # sync_value
               PROVE  T11!PassTurn
    OBVIOUS
  <2>1. SecondHalf
    BY DEF IInv, FirstHalf, SecondHalf, Begun11
  <2>2. T11!Next
    BY <2>1, OnlyFinished DEF Next, Tests01, Tests11, IInv, SecondHalf, vars, object
  <2>3. PICK t \in T11!Workers : T11!Worker(t)
    BY <2>2 DEF T11!Next, T11!MainThread, T11!Reset, T11!Create, T11!CreatedAll, T11!JoinAll,
                T11!Finished, T11!vars
  <2>4. T11!ReleasePut(t[2]) \/ T11!ReleaseGet(t[2])
    BY <2>3 DEF T11!Worker, T11!Acquire, T11!Put, T11!Get, T11!WriteValue1, T11!WriteArray,
                T11!ReadArray, T11!ReadValue1, T11!TurnValue1
  <2>5. t[2] \in T11!Indices
    BY Places
  <2>6. CASE T11!ReleasePut(t[2])
    <3>1. sync_value' = t[2] /\ T11!InTurn(T11!WriterOf(t[2]))
      BY <2>5, <2>6, Indices11 DEF T11!ReleasePut, T11!Transition, T11!InTurn
    <3> QED
      BY <2>1, <2>5, <3>1 DEF SecondHalf, Turns, T11!PassTurn
  <2>7. CASE T11!ReleaseGet(t[2])
    <3>1. sync_value' = T11!NextPut(t[2]) /\ T11!InTurn(T11!ReaderOf(t[2]))
      BY <2>7 DEF T11!ReleaseGet, T11!Transition, T11!InTurn
    <3> QED
      BY <2>1, <2>5, <3>1, NextPuts DEF SecondHalf, Turns, T11!PassTurn
  <2> QED
    BY <2>4, <2>6, <2>7
<1> QED
    BY <1>1, AlwaysIInv, PTL DEF Spec, TurnsInOrder, T11!TurnsInOrder
=============================================================================
