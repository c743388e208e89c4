------------------------- MODULE EvaluatorGroupProofs -------------------------
(***************************************************************************)
(* EvaluatorGroup for any number of workers, readings and faults and for   *)
(* every batch size.                                                       *)
(***************************************************************************)
EXTENDS EvaluatorGroup, FiniteSetTheorems, TLAPS

USE BoundsAreNaturals, SizesArePositive
    DEF BoundsAreNaturals, SizesArePositive

(***************************************************************************)
(* What one XREADGROUP delivers: a batch of consecutive entries behind the *)
(* cursor, up to the new cursor.                                           *)
(***************************************************************************)
Delivery(w, n, taken, new) ==
  /\ new \subseteq (cursor + 1)..cursor'
  /\ cursor' \in (cursor + 1)..Len(log)
  /\ \A e \in (cursor + 1)..cursor' : e \in new \/ Trimmed(e)
  /\ IsFiniteSet(new) /\ Cardinality(new) <= n
  /\ pending' = pending \cup new
  /\ batch' = [batch EXCEPT ![w] = IF taken THEN new ELSE {}]
  /\ pc' = [pc EXCEPT ![w] = IF taken THEN "tick" ELSE "sleep"]

\* XREADGROUP hands out at most COUNT entries and skips only trimmed ones.
LEMMA DeliverHandsOut ==
  ASSUME TypeOK, NEW w \in Workers, NEW n \in Nat \ {0}, NEW taken \in BOOLEAN,
         Deliver(w, n, taken)
  PROVE  \E new : Delivery(w, n, taken, new)
<1> DEFINE first == IF Trimmed(cursor + 1) THEN firstId ELSE cursor + 1
           last  == IF first + n <= Len(log) THEN first + n - 1 ELSE Len(log)
<1>1. /\ first..last # {}
      /\ cursor' = last
      /\ pending' = pending \cup (first..last)
      /\ batch' = [batch EXCEPT ![w] = IF taken THEN first..last ELSE {}]
      /\ pc' = [pc EXCEPT ![w] = IF taken THEN "tick" ELSE "sleep"]
  BY DEF Deliver, Goto
<1>0. cursor \in Nat /\ firstId \in Nat /\ Len(log) \in Nat
  BY DEF TypeOK
<1>2. /\ first \in Nat /\ first >= cursor + 1
      /\ last \in Nat /\ last <= Len(log) /\ first <= last
      /\ last - first + 1 <= n
  <2>1. first \in Nat /\ first >= cursor + 1
    BY <1>0 DEF Trimmed
  <2>2. last \in Int
    BY <1>0, <2>1
  <2>3. first <= last
    BY <1>1, <2>1, <2>2
  <2> HIDE DEF first
  <2>4. QED
    BY <1>0, <2>1, <2>3
<1>2a. ASSUME NEW e \in (cursor + 1)..last PROVE e \in first..last \/ Trimmed(e)
  BY <1>0, <1>2a DEF Trimmed
<1> HIDE DEF first, last
<1>3. IsFiniteSet(first..last) /\ Cardinality(first..last) = last - first + 1
  BY <1>2, FS_Interval
<1>4. Delivery(w, n, taken, first..last)
  <2>1. \A e \in (cursor + 1)..last : e \in first..last \/ Trimmed(e)
    BY <1>2a
  <2>2. last \in (cursor + 1)..Len(log) /\ first..last \subseteq (cursor + 1)..last
    BY <1>0, <1>2
  <2>3. Cardinality(first..last) <= n
    BY <1>2, <1>3
  <2>4. QED
    BY <1>1, <1>3, <2>1, <2>2, <2>3 DEF Delivery
<1>5. QED
  BY <1>4

\* Counting one more keeps the counts.
LEMMA CountTypes ==
  ASSUME NEW count \in [1..MaxEntries -> Nat], NEW e \in 1..MaxEntries
  PROVE  [count EXCEPT ![e] = @ + 1] \in [1..MaxEntries -> Nat]
<1>1. count[e] + 1 \in Nat
  OBVIOUS
<1>2. QED
  BY <1>1

\* What a worker holds is in the log, and between two steps it is somewhere.
LEMMA WorkerTypes ==
  ASSUME TypeOK
  PROVE  /\ 1..cursor \subseteq Ids /\ Ids \subseteq 1..MaxEntries
         /\ \A w \in Workers : batch[w] \subseteq Ids
         /\ \A w \in Workers : \A p \in Points : Goto(w, p) => pc' \in [Workers -> Points]
         /\ \A w \in Workers : \A e : Advance(w, e) =>
               /\ batch' \in [Workers -> SUBSET (1..cursor)]
               /\ pc' \in [Workers -> Points]
<1>1. 1..cursor \subseteq Ids /\ Ids \subseteq 1..MaxEntries
  BY DEF TypeOK, Ids
<1>2. \A w \in Workers : batch[w] \subseteq Ids
  BY <1>1 DEF TypeOK
<1>3. \A w \in Workers : \A p \in Points : Goto(w, p) => pc' \in [Workers -> Points]
  BY DEF TypeOK, Goto
<1>4. ASSUME NEW w \in Workers, NEW e, Advance(w, e)
      PROVE  /\ batch' \in [Workers -> SUBSET (1..cursor)]
             /\ pc' \in [Workers -> Points]
  <2>1. batch' \in [Workers -> SUBSET (1..cursor)]
    BY <1>4 DEF Advance, TypeOK
  <2>2. "read" \in Points /\ "tick" \in Points
    BY DEF Points, InEntry
  <2>3. QED
    BY <1>4, <2>1, <2>2, <1>3 DEF Advance
<1>5. QED
  BY <1>1, <1>2, <1>3, <1>4

\* Types hold, and workers hold only what the group has delivered.
THEOREM TypeCorrect == Spec => []TypeOK
<1>1. Init => TypeOK
  <2> SUFFICES ASSUME Init PROVE TypeOK
    OBVIOUS
  <2>1. log \in Seq(Kinds) /\ Len(log) = 0
    BY DEF Init
  <2>2. QED
    BY <2>1 DEF Init, TypeOK, Points, Ids
<1>2. TypeOK /\ [Next]_vars => TypeOK'
  <2> SUFFICES ASSUME TypeOK, [Next]_vars PROVE TypeOK'
    OBVIOUS
  <2>p. InEntry \subseteq Points /\ {"read", "handler", "sleep", "down"} \subseteq Points
    BY DEF Points
  <2> USE WorkerTypes, <2>p DEF InEntry
  <2>1. ASSUME NEW k \in Kinds, Ingest(k) PROVE TypeOK'
    <3>1. log' \in Seq(Kinds) /\ Len(log') = Len(log) + 1 /\ Len(log') <= MaxEntries
      BY <2>1 DEF Ingest, TypeOK
    <3>2. firstId' \in Nat \ {0}
      BY <2>1, <3>1 DEF Ingest, TypeOK
    <3>3. Ids \subseteq Ids' /\ 0..Len(log) \subseteq 0..Len(log')
      BY <3>1 DEF TypeOK, Ids
    <3>4. QED
      BY <2>1, <3>1, <3>2, <3>3 DEF Ingest, worker, effects, TypeOK
  <2>2. ASSUME NEW w \in Workers, NEW taken \in BOOLEAN, Deliver(w, BatchSize, taken),
               UNCHANGED <<stream, effects>>, faults' \in 0..MaxFaults
        PROVE  TypeOK'
    <3>1. PICK new : Delivery(w, BatchSize, taken, new)
      BY <2>2, DeliverHandsOut
    <3>2. /\ cursor' \in 0..Len(log) /\ 1..cursor \subseteq 1..cursor'
          /\ new \subseteq 1..cursor'
      BY <3>1 DEF Delivery, TypeOK
    <3>3. batch' \in [Workers -> SUBSET (1..cursor')] /\ pc' \in [Workers -> Points]
      BY <3>1, <3>2 DEF Delivery, TypeOK
    <3>4. pending' \subseteq 1..cursor'
      BY <3>1, <3>2 DEF Delivery, TypeOK
    <3>5. QED
      BY <2>2, <3>2, <3>3, <3>4 DEF stream, effects, TypeOK, Ids
  <2>3. ASSUME UNCHANGED <<stream, cursor, ticks, evaluations>>,
               pending' \subseteq pending, flagged' \subseteq Ids, failed' \subseteq Ids,
               faults' \in 0..MaxFaults,
               pc' \in [Workers -> Points], batch' \in [Workers -> SUBSET (1..cursor)]
        PROVE  TypeOK'
    BY <2>3 DEF TypeOK, stream, Ids
  <2>4. ASSUME NEW w \in Workers, WorkerStep(w) PROVE TypeOK'
    <3>1. CASE Read(w)
      BY <3>1, <2>2 DEF Read, TypeOK
    <3>2. CASE IdleTurn(w)
      BY <3>2 DEF IdleTurn, vars, stream, worker, effects, TypeOK, Ids
    <3>3. CASE Tick(w)
      <4>1. ticks' \in [1..MaxEntries -> Nat] /\ pc' \in [Workers -> Points]
        <5>1. PICK e \in batch[w] : ticks' = [ticks EXCEPT ![e] = @ + 1]
          BY <3>3 DEF Tick
        <5>2. e \in 1..MaxEntries
          BY <5>1
        <5>3. ticks' \in [1..MaxEntries -> Nat]
          BY <5>1, <5>2, CountTypes DEF TypeOK
        <5>4. QED
          BY <3>3, <5>3 DEF Tick
      <4>2. QED
        <5> HIDE WorkerTypes
        <5>1. UNCHANGED <<log, firstId, cursor, pending, batch, flagged, failed, faults>>
          BY <3>3 DEF Tick, stream
        <5>2. QED
          BY <3>3, <4>1, <5>1 DEF Tick, TypeOK, Ids
    <3>4. CASE Unparseable(w)
      BY <3>4, <2>3 DEF Unparseable, GiveUp, TypeOK
    <3>5. CASE DetectAnomalies(w)
      BY <3>5, <2>3 DEF DetectAnomalies, TypeOK
    <3>6. CASE ApplyRules(w)
      <4>1. evaluations' \in [1..MaxEntries -> Nat] /\ pc' \in [Workers -> Points]
        <5>1. PICK e \in batch[w] : evaluations' = [evaluations EXCEPT ![e] = @ + 1]
          BY <3>6 DEF ApplyRules
        <5>2. e \in 1..MaxEntries
          BY <5>1
        <5>3. evaluations' \in [1..MaxEntries -> Nat]
          BY <5>1, <5>2, CountTypes DEF TypeOK
        <5>4. QED
          BY <3>6, <5>3 DEF ApplyRules
      <4>2. QED
        <5> HIDE WorkerTypes
        <5>1. UNCHANGED <<log, firstId, cursor, pending, batch, flagged, failed, faults>>
          BY <3>6 DEF ApplyRules, stream
        <5>2. QED
          BY <3>6, <4>1, <5>1 DEF ApplyRules, TypeOK, Ids
    <3>7. CASE Ack(w)
      BY <3>7, <2>3 DEF Ack, effects, TypeOK
    <3>8. CASE HandlerAck(w)
      BY <3>8, <2>3 DEF HandlerAck, effects, TypeOK
    <3>9. CASE Wake(w)
      BY <3>9, <2>3 DEF Wake, effects, TypeOK
    <3>10. QED
      BY <2>4, <3>1, <3>2, <3>3, <3>4, <3>5, <3>6, <3>7, <3>8, <3>9 DEF WorkerStep
  <2>5. ASSUME NEW w \in Workers, Failure(w) PROVE TypeOK'
    <3>0. Fault => faults' \in 0..MaxFaults
      BY DEF Fault, TypeOK
    <3>1. CASE RaiseInEntry(w)
      <4>1. pending' \subseteq pending /\ failed' \subseteq Ids /\ pc' \in [Workers -> Points]
        BY <3>1 DEF RaiseInEntry, GiveUp, TypeOK
      <4>2. UNCHANGED <<stream, cursor, batch, ticks, flagged, evaluations>>
        BY <3>1 DEF RaiseInEntry, GiveUp
      <4>3. QED
        BY <3>0, <3>1, <4>1, <4>2, <2>3 DEF RaiseInEntry, TypeOK
    <3>2. CASE RaiseInHandler(w)
      <4>1. pending' \subseteq pending /\ batch' \in [Workers -> SUBSET (1..cursor)]
        BY <3>2 DEF RaiseInHandler, TypeOK
      <4>2. QED
        BY <3>0, <3>2, <4>1, <2>3 DEF RaiseInHandler, effects, TypeOK
    <3>3. CASE RaiseInRead(w)
      <4>1. CASE Deliver(w, BatchSize, FALSE)
        BY <3>0, <3>3, <4>1, <2>2 DEF RaiseInRead
      <4>2. CASE Goto(w, "sleep") /\ UNCHANGED <<cursor, pending, batch>>
        BY <3>0, <3>3, <4>2, <2>3 DEF RaiseInRead, effects, TypeOK
      <4>3. QED
        BY <3>3, <4>1, <4>2 DEF RaiseInRead
    <3>4. CASE Crash(w)
      <4>1. batch' \in [Workers -> SUBSET (1..cursor)]
        BY <3>4 DEF Crash, TypeOK
      <4>2. QED
        BY <3>0, <3>4, <4>1, <2>3 DEF Crash, effects, TypeOK
    <3>5. CASE Restart(w)
      BY <3>5, <2>3 DEF Restart, effects, TypeOK
    <3>6. QED
      BY <2>5, <3>1, <3>2, <3>3, <3>4, <3>5 DEF Failure
  <2>6. CASE UNCHANGED vars
    BY <2>6 DEF vars, stream, worker, effects, TypeOK, Ids
  <2>7. QED
    BY <2>1, <2>4, <2>5, <2>6 DEF Next
<1>3. QED
  BY <1>1, <1>2, PTL DEF Spec

-----------------------------------------------------------------------------
(***************************************************************************)
(* OwnBatch: batches only shrink, except for what XREADGROUP hands out,    *)
(* which lies behind everything handed out before.                         *)
(***************************************************************************)

\* A worker that puts readings down, and rests only with empty hands.
LEMMA ShrinkKeepsOwnBatch ==
  ASSUME TypeOK, OwnBatch, NEW w \in Workers, NEW S \in SUBSET batch[w], NEW p,
         batch' = [batch EXCEPT ![w] = S], pc' = [pc EXCEPT ![w] = p],
         p \in {"read", "sleep", "down"} => S = {}
  PROVE  OwnBatch'
<1>1. \A v \in Workers : batch'[v] \subseteq batch[v]
  BY DEF TypeOK
<1>2. \A v \in Workers : IsFiniteSet(batch'[v]) /\ Cardinality(batch'[v]) <= BatchSize
  <2> SUFFICES ASSUME NEW v \in Workers
               PROVE  IsFiniteSet(batch'[v]) /\ Cardinality(batch'[v]) <= BatchSize
    OBVIOUS
  <2>1. IsFiniteSet(batch[v]) /\ Cardinality(batch[v]) <= BatchSize
    BY DEF OwnBatch
  <2>2. /\ IsFiniteSet(batch'[v])
        /\ Cardinality(batch'[v]) <= Cardinality(batch[v])
    BY <1>1, <2>1, FS_Subset
  <2>3. Cardinality(batch[v]) \in Nat /\ Cardinality(batch'[v]) \in Nat
    BY <2>1, <2>2, FS_CardinalityType
  <2>4. QED
    BY <2>1, <2>2, <2>3
<1>3. \A v \in Workers : pc'[v] \in {"read", "sleep", "down"} => batch'[v] = {}
  BY DEF TypeOK, OwnBatch
<1>4. \A u, v \in Workers : u # v => batch'[u] \cap batch'[v] = {}
  BY <1>1 DEF OwnBatch
<1>5. QED
  BY <1>2, <1>3, <1>4 DEF OwnBatch

\* What XREADGROUP hands out nobody holds.
LEMMA DeliveryKeepsOwnBatch ==
  ASSUME TypeOK, OwnBatch, NEW w \in Workers, NEW taken \in BOOLEAN, NEW new,
         pc[w] = "read", Delivery(w, BatchSize, taken, new)
  PROVE  OwnBatch'
<1>1. CASE ~taken
  <2>1. batch[w] = {}
    BY DEF OwnBatch
  <2>2. batch' = [batch EXCEPT ![w] = {}] /\ pc' = [pc EXCEPT ![w] = "sleep"]
    BY <1>1 DEF Delivery
  <2>3. QED
    BY <2>1, <2>2, ShrinkKeepsOwnBatch
<1>2. CASE taken
  <2>1. batch' = [batch EXCEPT ![w] = new] /\ pc' = [pc EXCEPT ![w] = "tick"]
    BY <1>2 DEF Delivery
  <2>2. \A v \in Workers : batch[v] \cap new = {}
    <3>1. cursor \in Nat
      BY DEF TypeOK
    <3>2. \A e \in new : e \in Int /\ e > cursor
      BY <3>1 DEF Delivery, TypeOK
    <3>3. \A v \in Workers : \A e \in batch[v] : e \in Int /\ e <= cursor
      BY <3>1 DEF TypeOK
    <3>4. QED
      BY <3>1, <3>2, <3>3
  <2>3. IsFiniteSet(new) /\ Cardinality(new) <= BatchSize
    BY DEF Delivery
  <2>4. \A v \in Workers : /\ v # w => batch'[v] = batch[v] /\ pc'[v] = pc[v]
                           /\ v = w => batch'[v] = new /\ pc'[v] = "tick"
    BY <2>1 DEF TypeOK
  <2>5. QED
    BY <2>2, <2>3, <2>4 DEF OwnBatch
<1>3. QED
  BY <1>1, <1>2

\* Every step keeps batches apart.
LEMMA NextOwnBatch ==
  ASSUME TypeOK, OwnBatch, [Next]_vars PROVE OwnBatch'
<1>1. ASSUME UNCHANGED <<pc, batch>> PROVE OwnBatch'
  BY <1>1 DEF OwnBatch
<1>2. ASSUME NEW w \in Workers, NEW p \in {"tick", "anomaly", "alerts", "ack", "handler"},
             Goto(w, p), UNCHANGED batch
      PROVE  OwnBatch'
  <2>1. batch' = [batch EXCEPT ![w] = batch[w]]
    BY <1>2 DEF TypeOK
  <2>2. QED
    BY <1>2, <2>1, ShrinkKeepsOwnBatch DEF Goto
<1>3. ASSUME NEW w \in Workers, NEW p, Goto(w, p), batch' = [batch EXCEPT ![w] = {}]
      PROVE  OwnBatch'
  BY <1>3, ShrinkKeepsOwnBatch DEF Goto
<1>4. ASSUME NEW w \in Workers, NEW p, Goto(w, p), UNCHANGED batch, batch[w] = {}
      PROVE  OwnBatch'
  <2>1. batch' = [batch EXCEPT ![w] = {}]
    BY <1>4 DEF TypeOK
  <2>2. QED
    BY <1>4, <2>1, <1>3
<1>5. ASSUME NEW w \in Workers, NEW e, Advance(w, e) PROVE OwnBatch'
  <2>1. batch' = [batch EXCEPT ![w] = batch[w] \ {e}]
        /\ pc' = [pc EXCEPT ![w] = IF batch[w] = {e} THEN "read" ELSE "tick"]
    BY <1>5 DEF Advance, Goto
  <2>2. QED
    BY <2>1, ShrinkKeepsOwnBatch
<1>6. ASSUME NEW w \in Workers, NEW taken \in BOOLEAN, pc[w] = "read",
             Deliver(w, BatchSize, taken)
      PROVE  OwnBatch'
  BY <1>6, DeliverHandsOut, DeliveryKeepsOwnBatch
<1>7. ASSUME NEW w \in Workers, WorkerStep(w) PROVE OwnBatch'
  <2>1. CASE Read(w)
    BY <2>1, <1>6 DEF Read
  <2>2. CASE IdleTurn(w)
    BY <2>2, <1>1 DEF IdleTurn, vars, worker
  <2>3. CASE Tick(w)
    BY <2>3, <1>2 DEF Tick
  <2>4. CASE Unparseable(w)
    BY <2>4, <1>2 DEF Unparseable, GiveUp
  <2>5. CASE DetectAnomalies(w)
    BY <2>5, <1>2 DEF DetectAnomalies
  <2>6. CASE ApplyRules(w)
    BY <2>6, <1>2 DEF ApplyRules
  <2>7. CASE Ack(w)
    BY <2>7, <1>5 DEF Ack
  <2>8. CASE HandlerAck(w)
    BY <2>8, <1>5 DEF HandlerAck
  <2>9. CASE Wake(w)
    <3>1. batch[w] = {}
      BY <2>9 DEF Wake, OwnBatch
    <3>2. QED
      BY <2>9, <3>1, <1>4 DEF Wake
  <2>10. QED
    BY <1>7, <2>1, <2>2, <2>3, <2>4, <2>5, <2>6, <2>7, <2>8, <2>9 DEF WorkerStep
<1>8. ASSUME NEW w \in Workers, Failure(w) PROVE OwnBatch'
  <2>1. CASE RaiseInEntry(w)
    BY <2>1, <1>2 DEF RaiseInEntry, GiveUp
  <2>2. CASE RaiseInHandler(w)
    BY <2>2, <1>3 DEF RaiseInHandler
  <2>3. CASE RaiseInRead(w)
    <3>1. batch[w] = {} /\ pc[w] = "read"
      BY <2>3 DEF RaiseInRead, OwnBatch
    <3>2. QED
      BY <2>3, <3>1, <1>4, <1>6 DEF RaiseInRead
  <2>4. CASE Crash(w)
    BY <2>4, <1>3 DEF Crash
  <2>5. CASE Restart(w)
    <3>1. batch[w] = {}
      BY <2>5 DEF Restart, OwnBatch
    <3>2. QED
      BY <2>5, <3>1, <1>4 DEF Restart
  <2>6. QED
    BY <1>8, <2>1, <2>2, <2>3, <2>4, <2>5 DEF Failure
<1>9. QED
  BY <1>1, <1>7, <1>8 DEF Next, Ingest, vars, worker

-----------------------------------------------------------------------------
(***************************************************************************)
(* InTurn and AtMostOnce: what has happened to a reading follows its       *)
(* worker, and only the worker that holds it adds to it.                   *)
(***************************************************************************)
Counted == InTurn /\ AtMostOnce

\* Putting readings down, or doing nothing to them, loses no count.
LEMMA PutDownKeepsCounted ==
  ASSUME TypeOK, Counted, NEW w \in Workers, NEW S \in SUBSET batch[w], NEW p,
         batch' = [batch EXCEPT ![w] = S], pc' = [pc EXCEPT ![w] = p],
         UNCHANGED <<cursor, ticks, evaluations, failed>>,
         \/ S = {}
         \/ p = "tick" /\ \A e \in S : ~AtHand(w, e)
  PROVE  Counted'
<1>1. \A v \in Workers : v # w => batch'[v] = batch[v] /\ pc'[v] = pc[v]
  BY DEF TypeOK
<1>2. batch'[w] = S /\ pc'[w] = p
  BY DEF TypeOK
<1>3. \A e \in batch'[w] : ticks'[e] = 0 /\ evaluations'[e] = 0 /\ pc'[w] = "tick"
  <2> SUFFICES ASSUME NEW e \in batch'[w]
               PROVE  ticks'[e] = 0 /\ evaluations'[e] = 0 /\ pc'[w] = "tick"
    OBVIOUS
  <2>1. e \in batch[w] /\ ~AtHand(w, e) /\ pc'[w] = "tick"
    BY <1>2
  <2>2. e \in 1..MaxEntries
    BY <2>1, WorkerTypes
  <2>3. ticks[e] \in Nat /\ evaluations[e] \in Nat /\ ~(ticks[e] > 0)
        /\ evaluations[e] <= ticks[e]
    BY <2>1, <2>2 DEF Counted, InTurn, AtMostOnce, TypeOK
  <2>4. QED
    BY <2>1, <2>3
<1>4. InTurn'
  BY <1>1, <1>3 DEF Counted, InTurn, AtHand
<1>5. QED
  BY <1>4 DEF Counted, AtMostOnce

\* A delivered reading is new to everybody.
LEMMA DeliveryKeepsCounted ==
  ASSUME TypeOK, OwnBatch, Counted, NEW w \in Workers, NEW taken \in BOOLEAN, NEW new,
         pc[w] = "read", Delivery(w, BatchSize, taken, new),
         UNCHANGED <<log, ticks, evaluations, failed>>
  PROVE  Counted'
<1>1. \A v \in Workers : v # w => batch'[v] = batch[v] /\ pc'[v] = pc[v]
  BY DEF TypeOK, Delivery
<1>2. batch'[w] = {} \/ (batch'[w] = new /\ pc'[w] = "tick")
  BY DEF TypeOK, Delivery
<1>3. cursor \in Nat /\ cursor' \in Nat /\ cursor' > cursor /\ cursor' <= MaxEntries
  BY DEF TypeOK, Delivery
<1>4. \A e \in new : ticks[e] = 0 /\ evaluations[e] = 0
  <2> SUFFICES ASSUME NEW e \in new PROVE ticks[e] = 0 /\ evaluations[e] = 0
    OBVIOUS
  <2>1. e \in 1..MaxEntries /\ e > cursor
    BY <1>3 DEF Delivery
  <2>2. QED
    BY <2>1 DEF Counted, InTurn, AtMostOnce, TypeOK
<1>5. \A e \in 1..MaxEntries : e > cursor' => ticks'[e] = 0
  BY <1>3 DEF Counted, InTurn
<1>6. \A e \in batch'[w] : ticks'[e] = 0 /\ evaluations'[e] = 0 /\ pc'[w] = "tick"
  BY <1>2, <1>4
<1>7. InTurn'
  BY <1>1, <1>5, <1>6 DEF Counted, InTurn, AtHand
<1>8. QED
  BY <1>7 DEF Counted, AtMostOnce

(* A worker moves on with the reading at hand: what the step adds to the   *)
(* reading is what its new place asks for.                                 *)
LEMMA MoveKeepsCounted ==
  ASSUME TypeOK, OwnBatch, Counted, NEW w \in Workers, NEW e \in batch[w], AtHand(w, e),
         NEW p \in {"anomaly", "alerts", "ack", "handler"},
         pc[w] \notin {"read", "sleep", "down"},
         pc' = [pc EXCEPT ![w] = p],
         UNCHANGED <<cursor, batch>>,
         failed \subseteq failed', p = "handler" => e \in failed',
         ticks' \in [1..MaxEntries -> Nat], evaluations' \in [1..MaxEntries -> Nat],
         \A d \in 1..MaxEntries : d # e => ticks'[d] = ticks[d]
                                           /\ evaluations'[d] = evaluations[d],
         evaluations'[e] <= ticks'[e], ticks'[e] <= 1,
         p \in {"anomaly", "alerts", "ack"} => ticks'[e] = 1,
         p \in {"anomaly", "alerts"} => evaluations'[e] = 0,
         p = "ack" => evaluations'[e] = 1
  PROVE  Counted'
<1>1. \A v \in Workers : v # w => pc'[v] = pc[v]
  BY DEF TypeOK
<1>2. pc'[w] = p
  BY DEF TypeOK
<1>3. \A v \in Workers : batch[v] \subseteq 1..MaxEntries
  BY WorkerTypes
<1>4. \A v \in Workers : v # w => e \notin batch[v]
  BY DEF OwnBatch
<1>5. \A d \in batch[w] : AtHand(w, d) => d = e
  BY <1>3 DEF AtHand
<1>6. e \in 1..cursor /\ cursor \in Nat
  BY DEF TypeOK
<1>7. \A d \in 1..MaxEntries : d > cursor' => ticks'[d] = 0
  <2>1. \A d \in 1..MaxEntries : d > cursor => d # e
    BY <1>6
  <2>2. QED
    BY <2>1 DEF Counted, InTurn
<1>8. AtMostOnce'
  BY DEF Counted, AtMostOnce
<1>9. \A v \in Workers : \A d \in batch[v] : AtHand(v, d)' <=> AtHand(v, d)
  BY DEF AtHand
<1>10. ASSUME NEW v \in Workers, NEW d \in batch[v]
       PROVE  /\ ticks'[d] > 0 => AtHand(v, d) /\ pc'[v] # "tick"
              /\ evaluations'[d] > 0 => pc'[v] \in {"ack", "handler"}
              /\ AtHand(v, d) /\ pc'[v] \in {"anomaly", "alerts", "ack"} => ticks'[d] = 1
              /\ AtHand(v, d) /\ pc'[v] = "ack" => evaluations'[d] = 1
              /\ AtHand(v, d) /\ pc'[v] = "handler" => d \in failed'
  <2>0. d \in 1..MaxEntries
    BY <1>3
  <2>1. CASE v # w
    <3>1. d # e /\ pc'[v] = pc[v] /\ ticks'[d] = ticks[d] /\ evaluations'[d] = evaluations[d]
      BY <2>0, <2>1, <1>1, <1>4
    <3>2. QED
      BY <3>1 DEF Counted, InTurn
  <2>2. CASE v = w /\ d # e
    <3>1. ticks'[d] = ticks[d] /\ evaluations'[d] = evaluations[d] /\ ~AtHand(w, d)
      BY <2>0, <2>2, <1>5
    <3>2. ticks[d] \in Nat /\ evaluations[d] \in Nat /\ ~(ticks[d] > 0)
          /\ evaluations[d] <= ticks[d]
      BY <2>0, <2>2, <3>1 DEF Counted, InTurn, AtMostOnce, TypeOK
    <3>3. QED
      BY <2>2, <3>1, <3>2
  <2>3. CASE v = w /\ d = e
    BY <2>3, <1>2
  <2>4. QED
    BY <2>1, <2>2, <2>3
<1>11. InTurn'
  BY <1>7, <1>9, <1>10 DEF InTurn
<1>12. QED
  BY <1>8, <1>11 DEF Counted

\* Every step keeps the counts in turn.
LEMMA NextCounted ==
  ASSUME TypeOK, OwnBatch, Counted, [Next]_vars PROVE Counted'
<1>1. ASSUME UNCHANGED <<cursor, pc, batch, ticks, evaluations, failed>> PROVE Counted'
  BY <1>1 DEF Counted, InTurn, AtMostOnce, AtHand
<1>2. ASSUME NEW w \in Workers, NEW p, Goto(w, p), batch' = [batch EXCEPT ![w] = {}],
             UNCHANGED <<cursor, ticks, evaluations, failed>>
      PROVE  Counted'
  BY <1>2, PutDownKeepsCounted DEF Goto
<1>3. ASSUME NEW w \in Workers, NEW p, Goto(w, p), UNCHANGED batch,
             pc[w] \in {"read", "sleep", "down"},
             UNCHANGED <<cursor, ticks, evaluations, failed>>
      PROVE  Counted'
  <2>1. batch[w] = {}
    BY <1>3 DEF OwnBatch
  <2>2. batch' = [batch EXCEPT ![w] = {}]
    BY <1>3, <2>1 DEF TypeOK
  <2>3. QED
    BY <1>3, <2>2, <1>2
<1>4. ASSUME NEW w \in Workers, NEW e, AtHand(w, e), Advance(w, e),
             UNCHANGED <<cursor, ticks, evaluations, failed>>
      PROVE  Counted'
  <2>1. batch' = [batch EXCEPT ![w] = batch[w] \ {e}]
        /\ pc' = [pc EXCEPT ![w] = IF batch[w] = {e} THEN "read" ELSE "tick"]
    BY <1>4 DEF Advance, Goto
  <2>2. \A d \in batch[w] \ {e} : ~AtHand(w, d)
    BY <1>4, WorkerTypes DEF AtHand
  <2>3. CASE batch[w] = {e}
    BY <1>4, <2>1, <2>3, PutDownKeepsCounted
  <2>4. CASE batch[w] # {e}
    BY <1>4, <2>1, <2>2, <2>4, PutDownKeepsCounted
  <2>5. QED
    BY <2>3, <2>4
<1>5. ASSUME NEW w \in Workers, NEW taken \in BOOLEAN, pc[w] = "read",
             Deliver(w, BatchSize, taken), UNCHANGED <<stream, effects>>
      PROVE  Counted'
  BY <1>5, DeliverHandsOut, DeliveryKeepsCounted DEF stream, effects
<1>6. ASSUME NEW w \in Workers, NEW e \in batch[w], AtHand(w, e)
      PROVE  /\ e \in 1..MaxEntries
             /\ ticks[e] \in Nat /\ evaluations[e] \in Nat
             /\ evaluations[e] <= ticks[e] /\ ticks[e] <= 1
             /\ pc[w] = "tick" => ticks[e] = 0 /\ evaluations[e] = 0
             /\ pc[w] \in {"anomaly", "alerts"} => ticks[e] = 1 /\ evaluations[e] = 0
             /\ pc[w] = "ack" => ticks[e] = 1 /\ evaluations[e] = 1
  <2>1. e \in 1..MaxEntries
    BY WorkerTypes
  <2>2. ticks[e] \in Nat /\ evaluations[e] \in Nat
    BY <2>1 DEF TypeOK
  <2>3. QED
    BY <1>6, <2>1, <2>2 DEF Counted, InTurn, AtMostOnce
<1>7. ASSUME NEW w \in Workers, NEW e \in batch[w], AtHand(w, e), GiveUp(w, e),
             pc[w] \in InEntry
      PROVE  Counted'
  <2>1. /\ pc' = [pc EXCEPT ![w] = "handler"] /\ failed' = failed \cup {e}
        /\ UNCHANGED <<cursor, batch, ticks, evaluations>>
    BY <1>7 DEF GiveUp, Goto
  <2>2. pc[w] \notin {"read", "sleep", "down"}
    BY <1>7 DEF InEntry
  <2>3. ticks' \in [1..MaxEntries -> Nat] /\ evaluations' \in [1..MaxEntries -> Nat]
    BY <2>1 DEF TypeOK
  <2>4. QED
    BY <1>6, <1>7, <2>1, <2>2, <2>3, MoveKeepsCounted
<1>8. ASSUME NEW w \in Workers, WorkerStep(w) PROVE Counted'
  <2>1. CASE Read(w)
    BY <2>1, <1>5 DEF Read
  <2>2. CASE IdleTurn(w)
    BY <2>2, <1>1 DEF IdleTurn, vars, worker, effects
  <2>3. CASE Tick(w)
    <3>1. PICK e \in batch[w] : AtHand(w, e) /\ ticks' = [ticks EXCEPT ![e] = @ + 1]
      BY <2>3 DEF Tick
    <3>2. /\ pc' = [pc EXCEPT ![w] = "anomaly"] /\ pc[w] = "tick"
          /\ UNCHANGED <<cursor, batch, evaluations, failed>>
      BY <2>3 DEF Tick, Goto
    <3>3. /\ ticks' \in [1..MaxEntries -> Nat] /\ ticks'[e] = 1
          /\ \A d \in 1..MaxEntries : d # e => ticks'[d] = ticks[d]
      BY <3>1, <3>2, <1>6, CountTypes DEF TypeOK
    <3>4. evaluations' \in [1..MaxEntries -> Nat] /\ evaluations'[e] = 0
      BY <3>1, <3>2, <1>6 DEF TypeOK
    <3>5. /\ evaluations'[e] <= ticks'[e] /\ ticks'[e] <= 1
          /\ \A d \in 1..MaxEntries : d # e => ticks'[d] = ticks[d]
                                            /\ evaluations'[d] = evaluations[d]
      BY <3>2, <3>3, <3>4
    <3>6. failed \subseteq failed' /\ pc[w] \notin {"read", "sleep", "down"}
      BY <3>2
    <3>7. QED
      BY <3>1, <3>2, <3>3, <3>4, <3>5, <3>6, MoveKeepsCounted
  <2>4. CASE Unparseable(w)
    BY <2>4, <1>7 DEF Unparseable, InEntry
  <2>5. CASE DetectAnomalies(w)
    <3>1. PICK e \in batch[w] : AtHand(w, e)
      BY <2>5 DEF DetectAnomalies
    <3>2. /\ pc' = [pc EXCEPT ![w] = "alerts"] /\ pc[w] = "anomaly"
          /\ UNCHANGED <<cursor, batch, ticks, evaluations, failed>>
      BY <2>5 DEF DetectAnomalies, Goto
    <3>3. ticks' \in [1..MaxEntries -> Nat] /\ evaluations' \in [1..MaxEntries -> Nat]
      BY <3>2 DEF TypeOK
    <3>4. QED
      BY <3>1, <3>2, <3>3, <1>6, MoveKeepsCounted
  <2>6. CASE ApplyRules(w)
    <3>1. PICK e \in batch[w] :
             AtHand(w, e) /\ evaluations' = [evaluations EXCEPT ![e] = @ + 1]
      BY <2>6 DEF ApplyRules
    <3>2. /\ pc' = [pc EXCEPT ![w] = "ack"] /\ pc[w] = "alerts"
          /\ UNCHANGED <<cursor, batch, ticks, failed>>
      BY <2>6 DEF ApplyRules, Goto
    <3>3. /\ evaluations' \in [1..MaxEntries -> Nat] /\ evaluations'[e] = 1
          /\ \A d \in 1..MaxEntries : d # e => evaluations'[d] = evaluations[d]
      BY <3>1, <3>2, <1>6, CountTypes DEF TypeOK
    <3>4. ticks' \in [1..MaxEntries -> Nat] /\ ticks'[e] = 1
      BY <3>1, <3>2, <1>6 DEF TypeOK
    <3>5. /\ evaluations'[e] <= ticks'[e] /\ ticks'[e] <= 1
          /\ \A d \in 1..MaxEntries : d # e => ticks'[d] = ticks[d]
                                            /\ evaluations'[d] = evaluations[d]
      BY <3>2, <3>3, <3>4
    <3>6. failed \subseteq failed' /\ pc[w] \notin {"read", "sleep", "down"}
      BY <3>2
    <3>7. QED
      BY <3>1, <3>2, <3>3, <3>4, <3>5, <3>6, MoveKeepsCounted
  <2>7. CASE Ack(w)
    BY <2>7, <1>4 DEF Ack, effects
  <2>8. CASE HandlerAck(w)
    BY <2>8, <1>4 DEF HandlerAck, effects
  <2>9. CASE Wake(w)
    BY <2>9, <1>3 DEF Wake, effects
  <2>10. QED
    BY <1>8, <2>1, <2>2, <2>3, <2>4, <2>5, <2>6, <2>7, <2>8, <2>9 DEF WorkerStep
<1>9. ASSUME NEW w \in Workers, Failure(w) PROVE Counted'
  <2>1. CASE RaiseInEntry(w)
    BY <2>1, <1>7 DEF RaiseInEntry
  <2>2. CASE RaiseInHandler(w)
    BY <2>2, <1>2 DEF RaiseInHandler, effects
  <2>3. CASE RaiseInRead(w)
    <3>1. CASE Deliver(w, BatchSize, FALSE)
      BY <2>3, <3>1, <1>5 DEF RaiseInRead
    <3>2. CASE Goto(w, "sleep") /\ UNCHANGED <<cursor, pending, batch>>
      BY <2>3, <3>2, <1>3 DEF RaiseInRead, effects
    <3>3. QED
      BY <2>3, <3>1, <3>2 DEF RaiseInRead
  <2>4. CASE Crash(w)
    BY <2>4, <1>2 DEF Crash, effects
  <2>5. CASE Restart(w)
    BY <2>5, <1>3 DEF Restart, effects
  <2>6. QED
    BY <1>9, <2>1, <2>2, <2>3, <2>4, <2>5 DEF Failure
<1>10. QED
  BY <1>1, <1>8, <1>9 DEF Next, Ingest, vars, worker, effects

-----------------------------------------------------------------------------
(***************************************************************************)
(* SettledForAReason: only an XACK settles a delivered reading, and only   *)
(* trimming lets the group skip one.                                       *)
(***************************************************************************)

\* Acknowledging readings that have their reason keeps the invariant.
LEMMA AckKeepsReason ==
  ASSUME TypeOK, SettledForAReason, UNCHANGED <<stream, cursor>>,
         \A e \in pending \ pending' : evaluations'[e] > 0 \/ e \in failed',
         \A e \in Ids : evaluations[e] > 0 => evaluations'[e] > 0,
         failed \subseteq failed'
  PROVE  SettledForAReason'
BY DEF SettledForAReason, Settled, stream, Ids, Trimmed

\* Delivering readings settles only what the stream had trimmed.
LEMMA DeliverKeepsReason ==
  ASSUME TypeOK, SettledForAReason, NEW w \in Workers, NEW taken \in BOOLEAN,
         Deliver(w, BatchSize, taken), UNCHANGED <<stream, effects>>
  PROVE  SettledForAReason'
<1>1. PICK new : Delivery(w, BatchSize, taken, new)
  BY DeliverHandsOut
<1>2. cursor \in Nat /\ cursor' \in Nat
  BY <1>1 DEF Delivery, TypeOK
<1>3. \A e \in Ids : Settled(e)' => Settled(e) \/ Trimmed(e)
  BY <1>1, <1>2 DEF Delivery, Settled, Ids
<1>4. QED
  BY <1>3 DEF SettledForAReason, stream, effects, Ids, Trimmed

\* Every step settles readings for a reason.
LEMMA NextForAReason ==
  ASSUME TypeOK, OwnBatch, Counted, SettledForAReason, [Next]_vars
  PROVE  SettledForAReason'
<1>1. ASSUME UNCHANGED <<stream, cursor, evaluations>>, pending \subseteq pending',
             failed \subseteq failed'
      PROVE  SettledForAReason'
  BY <1>1, AckKeepsReason
<1>2. ASSUME NEW w \in Workers, NEW e \in batch[w], AtHand(w, e),
             \/ pc[w] = "ack"
             \/ pc[w] = "handler",
             UNCHANGED <<stream, cursor, evaluations>>, failed \subseteq failed',
             pending' \in {pending, pending \ {e}}
      PROVE  SettledForAReason'
  <2>1. evaluations[e] > 0 \/ e \in failed
    BY <1>2 DEF Counted, InTurn
  <2>2. QED
    BY <1>2, <2>1, AckKeepsReason
<1>3. ASSUME NEW k \in Kinds, Ingest(k) PROVE SettledForAReason'
  <2>1. Len(log') = Len(log) + 1 /\ firstId' \in Nat /\ firstId' >= firstId
    BY <1>3 DEF Ingest, TypeOK
  <2>2. \A e : Settled(e)' <=> Settled(e)
    BY <1>3 DEF Ingest, Settled
  <2>3. \A e : Settled(e) => e \in Ids
    BY WorkerTypes DEF Settled
  <2>4. \A e \in Ids : Trimmed(e) => Trimmed(e)'
    BY <2>1 DEF Trimmed, TypeOK, Ids
  <2>5. QED
    BY <1>3, <2>2, <2>3, <2>4 DEF Ingest, SettledForAReason, effects
<1>4. ASSUME NEW w \in Workers, WorkerStep(w) PROVE SettledForAReason'
  <2>1. CASE Read(w)
    BY <2>1, DeliverKeepsReason DEF Read
  <2>2. CASE IdleTurn(w)
    BY <2>2, <1>1 DEF IdleTurn, vars, effects
  <2>3. CASE Tick(w)
    BY <2>3, <1>1 DEF Tick
  <2>4. CASE Unparseable(w)
    BY <2>4, <1>1 DEF Unparseable, GiveUp
  <2>5. CASE DetectAnomalies(w)
    BY <2>5, <1>1 DEF DetectAnomalies
  <2>6. CASE ApplyRules(w)
    <3>1. PICK e \in batch[w] : evaluations' = [evaluations EXCEPT ![e] = @ + 1]
      BY <2>6 DEF ApplyRules
    <3>2. \A d \in Ids : d \in 1..MaxEntries
      BY WorkerTypes
    <3>3. \A d \in Ids : evaluations[d] > 0 => evaluations'[d] > 0
      BY <3>1, <3>2 DEF TypeOK
    <3>4. QED
      BY <2>6, <3>3, AckKeepsReason DEF ApplyRules
  <2>7. CASE Ack(w)
    BY <2>7, <1>2 DEF Ack, effects
  <2>8. CASE HandlerAck(w)
    BY <2>8, <1>2 DEF HandlerAck, effects
  <2>9. CASE Wake(w)
    BY <2>9, <1>1 DEF Wake, effects
  <2>10. QED
    BY <1>4, <2>1, <2>2, <2>3, <2>4, <2>5, <2>6, <2>7, <2>8, <2>9 DEF WorkerStep
<1>5. ASSUME NEW w \in Workers, Failure(w) PROVE SettledForAReason'
  <2>1. CASE RaiseInEntry(w)
    <3>1. PICK e \in batch[w] :
             /\ AtHand(w, e) /\ GiveUp(w, e)
             /\ pending' \in IF pc[w] = "ack" THEN {pending, pending \ {e}} ELSE {pending}
      BY <2>1 DEF RaiseInEntry
    <3>2. UNCHANGED <<stream, cursor, evaluations>> /\ failed \subseteq failed'
      BY <3>1 DEF GiveUp
    <3>3. CASE pc[w] = "ack"
      BY <3>1, <3>2, <3>3, <1>2
    <3>4. CASE pc[w] # "ack"
      BY <3>1, <3>2, <3>4, <1>1
    <3>5. QED
      BY <3>3, <3>4
  <2>2. CASE RaiseInHandler(w)
    BY <2>2, <1>2 DEF RaiseInHandler, effects
  <2>3. CASE RaiseInRead(w)
    <3>1. CASE Deliver(w, BatchSize, FALSE)
      BY <2>3, <3>1, DeliverKeepsReason DEF RaiseInRead
    <3>2. CASE Goto(w, "sleep") /\ UNCHANGED <<cursor, pending, batch>>
      BY <2>3, <3>2, <1>1 DEF RaiseInRead, effects
    <3>3. QED
      BY <2>3, <3>1, <3>2 DEF RaiseInRead
  <2>4. CASE Crash(w)
    BY <2>4, <1>1 DEF Crash, effects
  <2>5. CASE Restart(w)
    BY <2>5, <1>1 DEF Restart, effects
  <2>6. QED
    BY <1>5, <2>1, <2>2, <2>3, <2>4, <2>5 DEF Failure
<1>6. QED
  BY <1>1, <1>3, <1>4, <1>5 DEF Next, vars, effects

-----------------------------------------------------------------------------
(***************************************************************************)
(* AbandonedBounded: only a failure abandons readings, those of one batch. *)
(***************************************************************************)

\* What is abandoned is in the log.
LEMMA AbandonedIsFinite ==
  ASSUME TypeOK
  PROVE  IsFiniteSet(Abandoned) /\ Cardinality(Abandoned) \in Nat
<1>1. cursor \in Int /\ 1 \in Int
  BY DEF TypeOK
<1>2. IsFiniteSet(1..cursor)
  BY <1>1, FS_Interval
<1>3. Abandoned \subseteq 1..cursor
  BY DEF Abandoned, TypeOK
<1>4. IsFiniteSet(Abandoned)
  BY <1>2, <1>3, FS_Subset
<1>5. QED
  BY <1>4, FS_CardinalityType

\* A step that abandons nothing keeps the bound.
LEMMA NothingAbandoned ==
  ASSUME TypeOK, AbandonedBounded, Abandoned' \subseteq Abandoned, UNCHANGED faults
  PROVE  AbandonedBounded'
<1>1. /\ IsFiniteSet(Abandoned') /\ Cardinality(Abandoned') <= Cardinality(Abandoned)
  BY AbandonedIsFinite, FS_Subset
<1>2. Cardinality(Abandoned') \in Nat /\ Cardinality(Abandoned) \in Nat
  BY <1>1, AbandonedIsFinite, FS_CardinalityType
<1>3. BatchSize * faults \in Nat
  BY DEF TypeOK
<1>4. QED
  BY <1>1, <1>2, <1>3 DEF AbandonedBounded

\* A failure that abandons a batch at most keeps the bound.
LEMMA BatchAbandoned ==
  ASSUME TypeOK, AbandonedBounded, faults' = faults + 1,
         NEW S, IsFiniteSet(S), Cardinality(S) <= BatchSize,
         Abandoned' \subseteq Abandoned \cup S
  PROVE  AbandonedBounded'
<1>1. /\ IsFiniteSet(Abandoned \cup S)
      /\ Cardinality(Abandoned \cup S)
           = Cardinality(Abandoned) + Cardinality(S) - Cardinality(Abandoned \cap S)
  BY AbandonedIsFinite, FS_Union
<1>2. /\ IsFiniteSet(Abandoned')
      /\ Cardinality(Abandoned') <= Cardinality(Abandoned \cup S)
  BY <1>1, FS_Subset
<1>3. IsFiniteSet(Abandoned \cap S)
  BY FS_Subset
<1>4. /\ Cardinality(Abandoned) \in Nat /\ Cardinality(S) \in Nat
      /\ Cardinality(Abandoned \cap S) \in Nat /\ Cardinality(Abandoned') \in Nat
  BY <1>2, <1>3, AbandonedIsFinite, FS_CardinalityType
<1>5. Cardinality(Abandoned') <= Cardinality(Abandoned) + BatchSize
  BY <1>1, <1>2, <1>4
<1>6. faults \in Nat /\ BatchSize * (faults + 1) = BatchSize * faults + BatchSize
  BY DEF TypeOK
<1>7. Cardinality(Abandoned) <= BatchSize * faults /\ BatchSize * faults \in Nat
  BY <1>6 DEF AbandonedBounded
<1>8. Cardinality(Abandoned') <= BatchSize * faults'
  BY <1>4, <1>5, <1>6, <1>7
<1>9. QED
  BY <1>8 DEF AbandonedBounded

\* Every step keeps the bound.
LEMMA NextAbandonedBounded ==
  ASSUME TypeOK, OwnBatch, AbandonedBounded, [Next]_vars
  PROVE  AbandonedBounded'
<1>1. ASSUME pending' \subseteq pending, UNCHANGED <<batch, faults>>
      PROVE  AbandonedBounded'
  <2>1. Abandoned' \subseteq Abandoned
    BY <1>1 DEF Abandoned, InHand
  <2>2. QED
    BY <1>1, <2>1, NothingAbandoned
<1>2. ASSUME NEW w \in Workers, NEW e, pending' = pending \ {e}, Advance(w, e),
             UNCHANGED faults
      PROVE  AbandonedBounded'
  <2>1. \A v \in Workers : batch[v] \subseteq batch'[v] \cup {e}
    BY <1>2 DEF Advance, TypeOK
  <2>2. Abandoned' \subseteq Abandoned
    BY <1>2, <2>1 DEF Abandoned, InHand
  <2>3. QED
    BY <1>2, <2>2, NothingAbandoned
<1>3. ASSUME NEW w \in Workers, batch' = [batch EXCEPT ![w] = {}], Fault,
             pending' \subseteq pending
      PROVE  AbandonedBounded'
  <2>1. \A v \in Workers : v # w => batch'[v] = batch[v]
    BY <1>3 DEF TypeOK
  <2>2. Abandoned' \subseteq Abandoned \cup batch[w]
    BY <1>3, <2>1 DEF Abandoned, InHand
  <2>3. IsFiniteSet(batch[w]) /\ Cardinality(batch[w]) <= BatchSize
    BY DEF OwnBatch
  <2>4. QED
    BY <1>3, <2>2, <2>3, BatchAbandoned DEF Fault
<1>4. ASSUME Fault, UNCHANGED batch, pending' \subseteq pending PROVE AbandonedBounded'
  <2>1. Abandoned' \subseteq Abandoned \cup {}
    BY <1>4 DEF Abandoned, InHand
  <2>2. IsFiniteSet({}) /\ Cardinality({}) = 0
    BY FS_EmptySet
  <2>3. QED
    BY <1>4, <2>1, <2>2, BatchAbandoned DEF Fault
<1>5. ASSUME NEW w \in Workers, NEW new, pc[w] = "read",
             Delivery(w, BatchSize, TRUE, new), UNCHANGED faults
      PROVE  AbandonedBounded'
  <2>1. batch[w] = {}
    BY <1>5 DEF OwnBatch
  <2>2. batch'[w] = new /\ \A v \in Workers : batch[v] \subseteq batch'[v]
    BY <1>5, <2>1 DEF Delivery, TypeOK
  <2>3. pending' = pending \cup new
    BY <1>5 DEF Delivery
  <2>4. Abandoned' \subseteq Abandoned
    BY <2>2, <2>3 DEF Abandoned, InHand
  <2>5. QED
    BY <1>5, <2>4, NothingAbandoned
<1>6. ASSUME NEW w \in Workers, NEW new, pc[w] = "read",
             Delivery(w, BatchSize, FALSE, new), Fault
      PROVE  AbandonedBounded'
  <2>1. batch[w] = {}
    BY <1>6 DEF OwnBatch
  <2>2. \A v \in Workers : batch[v] \subseteq batch'[v]
    BY <1>6, <2>1 DEF Delivery, TypeOK
  <2>3. pending' = pending \cup new /\ IsFiniteSet(new) /\ Cardinality(new) <= BatchSize
    BY <1>6 DEF Delivery
  <2>4. Abandoned' \subseteq Abandoned \cup new
    BY <2>2, <2>3 DEF Abandoned, InHand
  <2>5. QED
    BY <1>6, <2>3, <2>4, BatchAbandoned DEF Fault
<1>7. ASSUME NEW w \in Workers, WorkerStep(w) PROVE AbandonedBounded'
  <2>1. CASE Read(w)
    BY <2>1, <1>5, DeliverHandsOut DEF Read
  <2>2. CASE IdleTurn(w)
    BY <2>2, <1>1 DEF IdleTurn, vars, worker
  <2>3. CASE Tick(w)
    BY <2>3, <1>1 DEF Tick
  <2>4. CASE Unparseable(w)
    BY <2>4, <1>1 DEF Unparseable, GiveUp
  <2>5. CASE DetectAnomalies(w)
    BY <2>5, <1>1 DEF DetectAnomalies
  <2>6. CASE ApplyRules(w)
    BY <2>6, <1>1 DEF ApplyRules
  <2>7. CASE Ack(w)
    BY <2>7, <1>2 DEF Ack
  <2>8. CASE HandlerAck(w)
    BY <2>8, <1>2 DEF HandlerAck
  <2>9. CASE Wake(w)
    BY <2>9, <1>1 DEF Wake
  <2>10. QED
    BY <1>7, <2>1, <2>2, <2>3, <2>4, <2>5, <2>6, <2>7, <2>8, <2>9 DEF WorkerStep
<1>8. ASSUME NEW w \in Workers, Failure(w) PROVE AbandonedBounded'
  <2>1. CASE RaiseInEntry(w)
    <3>1. pending' \subseteq pending /\ UNCHANGED batch /\ Fault
      BY <2>1 DEF RaiseInEntry, GiveUp
    <3>2. QED
      BY <3>1, <1>4
  <2>2. CASE RaiseInHandler(w)
    BY <2>2, <1>3 DEF RaiseInHandler
  <2>3. CASE RaiseInRead(w)
    <3>1. CASE Deliver(w, BatchSize, FALSE)
      BY <2>3, <3>1, <1>6, DeliverHandsOut DEF RaiseInRead
    <3>2. CASE Goto(w, "sleep") /\ UNCHANGED <<cursor, pending, batch>>
      BY <2>3, <3>2, <1>4 DEF RaiseInRead
    <3>3. QED
      BY <2>3, <3>1, <3>2 DEF RaiseInRead
  <2>4. CASE Crash(w)
    BY <2>4, <1>3 DEF Crash
  <2>5. CASE Restart(w)
    BY <2>5, <1>1 DEF Restart
  <2>6. QED
    BY <1>8, <2>1, <2>2, <2>3, <2>4, <2>5 DEF Failure
<1>9. QED
  BY <1>1, <1>7, <1>8 DEF Next, Ingest, vars, worker

-----------------------------------------------------------------------------
(* The invariant of the group: readings are in turn, counted once, settled *)
(* for a reason, and abandoned only by failures, a batch each.             *)
THEOREM HandledOnceAlways == Spec => []HandledOnce
<1>1. Init => HandledOnce
  <2> SUFFICES ASSUME Init PROVE HandledOnce
    OBVIOUS
  <2>1. IsFiniteSet({}) /\ Cardinality({}) = 0
    BY FS_EmptySet
  <2>2. OwnBatch
    BY <2>1 DEF Init, OwnBatch
  <2>3. InTurn /\ AtMostOnce
    BY DEF Init, InTurn, AtMostOnce
  <2>4. Abandoned = {} /\ BatchSize * faults = 0
    BY DEF Init, Abandoned
  <2>5. AbandonedBounded
    BY <2>1, <2>4 DEF AbandonedBounded
  <2>6. SettledForAReason
    BY DEF Init, SettledForAReason, Settled
  <2>7. QED
    BY <2>2, <2>3, <2>5, <2>6 DEF HandledOnce
<1>2. TypeOK /\ HandledOnce /\ [Next]_vars => HandledOnce'
  BY NextOwnBatch, NextCounted, NextForAReason, NextAbandonedBounded
     DEF HandledOnce, Counted
<1>3. QED
  BY <1>1, <1>2, TypeCorrect, PTL DEF Spec

\* No reading is published or judged twice, whatever workers and failures do.
THEOREM AtMostOnceAlways == Spec => []AtMostOnce
<1>1. HandledOnce => AtMostOnce
  BY DEF HandledOnce
<1>2. QED
  BY <1>1, HandledOnceAlways, PTL

\* Readings left behind are at most a batch for each failure.
THEOREM AbandonedBoundedAlways == Spec => []AbandonedBounded
<1>1. HandledOnce => AbandonedBounded
  BY DEF HandledOnce
<1>2. QED
  BY <1>1, HandledOnceAlways, PTL

\* An acknowledged reading was judged, given up by the handler, or trimmed.
THEOREM SettledForAReasonAlways == Spec => []SettledForAReason
<1>1. HandledOnce => SettledForAReason
  BY DEF HandledOnce
<1>2. QED
  BY <1>1, HandledOnceAlways, PTL
=============================================================================
