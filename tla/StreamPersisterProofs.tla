------------------------ MODULE StreamPersisterProofs ------------------------
(***************************************************************************)
(* What TLC checks of StreamPersister for two workers and three entries,   *)
(* proved for any set of workers, any bounds and any points of failure.    *)
(***************************************************************************)
EXTENDS StreamPersister, TLAPS

USE BoundsAreNaturals, SizesArePositive, KindsAreKnown, FaultPointsAreKnown
    DEF BoundsAreNaturals, SizesArePositive, KindsAreKnown, FaultPointsAreKnown,
        Ids, AllKinds, Points

\* One of the first n elements of a set is one of its elements.
LEMMA FirstFewIsSubset ==
  ASSUME NEW S, NEW n PROVE FirstFew(S, n) \subseteq S
BY DEF FirstFew

\* Handing over entries keeps the types of what a delivery changes.
LEMMA DeliveryTypes ==
  ASSUME TypeOK, NEW w \in Workers, NEW S \in SUBSET Ids,
         NEW return \in {"loop", "read"},
         Process(w, S, return), Delivered(S), log' = log
  PROVE  /\ fresh' \in Seq(SUBSET Ids')
         /\ pc' \in [Workers -> Points]
         /\ back' \in [Workers -> {"loop", "read"}]
         /\ batch' \in [Workers -> SUBSET Ids']
<1>1. CASE S = {}
  BY <1>1 DEF TypeOK, Process, Delivered
<1>2. CASE S # {}
  <2>1. fresh' = Append(fresh, S) /\ Ids' = Ids
    BY <1>2 DEF Delivered
  <2>2. fresh' \in Seq(SUBSET Ids')
    <3>1. fresh \in Seq(SUBSET Ids)
      BY DEF TypeOK
    <3> HIDE DEF Ids
    <3>2. QED
      BY <2>1, <3>1
  <2>3. /\ pc' \in [Workers -> Points]
        /\ back' \in [Workers -> {"loop", "read"}]
        /\ batch' \in [Workers -> SUBSET Ids']
    <3>1. /\ pc' = [pc EXCEPT ![w] = "process"]
          /\ back' = [back EXCEPT ![w] = return]
          /\ batch' = [batch EXCEPT ![w] = S]
      BY <1>2 DEF Process
    <3>2. /\ pc \in [Workers -> Points]
          /\ back \in [Workers -> {"loop", "read"}]
          /\ batch \in [Workers -> SUBSET Ids]
      BY DEF TypeOK
    <3> HIDE DEF Ids
    <3>3. QED
      BY <2>1, <3>1, <3>2
  <2>4. QED
    BY <2>2, <2>3
<1>3. QED
  BY <1>1, <1>2

\* Variables keep their types: a PEL entry, a batch entry or a row is an id
\* of the log, whatever the order of appends, deliveries and claims.
THEOREM TypeCorrect == Spec => []TypeOK
<1>1. Init => TypeOK
  <2> SUFFICES ASSUME Init PROVE TypeOK
    OBVIOUS
  <2>1. log \in Seq(Kinds) /\ fresh \in Seq(SUBSET Ids)
    BY DEF Init
  <2>2. /\ pending \subseteq Ids /\ table \subseteq Ids
        /\ batch \in [Workers -> SUBSET Ids]
    BY DEF Init
  <2>3. QED
    BY <2>1, <2>2 DEF Init, TypeOK
<1>2. TypeOK /\ [Next]_vars => TypeOK'
  <2> SUFFICES ASSUME TypeOK, [Next]_vars PROVE TypeOK'
    OBVIOUS
  <2> USE DEF TypeOK, stream, pel, worker, Raise
  <2>1. CASE SetupStreams
    BY <2>1 DEF SetupStreams
  <2>2. ASSUME NEW k \in Kinds, Ingest(k) PROVE TypeOK'
    BY <2>2 DEF Ingest
  <2>3. CASE BecomeIdle
    BY <2>3 DEF BecomeIdle
  <2>4. ASSUME NEW w \in Workers, Fail(w) PROVE TypeOK'
    BY <2>4 DEF Fail
  <2>5. ASSUME NEW w \in Workers, Crash(w) PROVE TypeOK'
    BY <2>5 DEF Crash
  <2>6. ASSUME NEW w \in Workers, Restart(w) PROVE TypeOK'
    BY <2>6 DEF Restart
  <2>7. ASSUME NEW w \in Workers, Claim(w) PROVE TypeOK'
    <3>1. FirstFew(Claimable, BatchSize) \subseteq pending
      BY FirstFewIsSubset DEF Claimable
    <3> DEFINE claimed == FirstFew(Claimable, BatchSize)
                            \ {e \in FirstFew(Claimable, BatchSize) : Trimmed(e)}
    <3>2. claimed \in SUBSET Ids
      BY <3>1
    <3>3. /\ Process(w, claimed, "read")
          /\ Delivered(claimed)
          /\ pending' \subseteq pending
          /\ UNCHANGED <<stream, cursor, table, faults>>
      BY <2>7 DEF Claim
    <3>4. log' = log
      BY <3>3
    <3> HIDE DEF claimed, TypeOK
    <3>5. /\ fresh' \in Seq(SUBSET Ids')
          /\ pc' \in [Workers -> Points]
          /\ back' \in [Workers -> {"loop", "read"}]
          /\ batch' \in [Workers -> SUBSET Ids']
      BY <3>2, <3>3, <3>4, DeliveryTypes
    <3>6. QED
      BY <3>3, <3>5 DEF TypeOK
  <2>8. ASSUME NEW w \in Workers, SkipClaim(w) PROVE TypeOK'
    BY <2>8 DEF SkipClaim
  <2>9. ASSUME NEW w \in Workers, Read(w) PROVE TypeOK'
    <3> DEFINE first == IF Trimmed(cursor + 1) THEN firstId ELSE cursor + 1
               last  == IF first + BatchSize <= Len(log) THEN first + BatchSize - 1
                                                         ELSE Len(log)
               new   == first..last
    <3>1. /\ Process(w, new, "loop")
          /\ Delivered(new)
          /\ pending' = pending \cup new
          /\ UNCHANGED <<stream, table, faults>>
      BY <2>9 DEF Read
    <3>2. new \in SUBSET Ids
      BY DEF Trimmed
    <3>3. cursor' \in Nat
      BY <2>9 DEF Read, Trimmed
    <3>4. log' = log
      BY <3>1
    <3> HIDE DEF first, last, new, TypeOK
    <3>5. /\ fresh' \in Seq(SUBSET Ids')
          /\ pc' \in [Workers -> Points]
          /\ back' \in [Workers -> {"loop", "read"}]
          /\ batch' \in [Workers -> SUBSET Ids']
      BY <3>1, <3>2, <3>4, DeliveryTypes
    <3>6. QED
      BY <3>1, <3>2, <3>3, <3>5 DEF TypeOK
  <2>10. ASSUME NEW w \in Workers, NoGroup(w) PROVE TypeOK'
    BY <2>10 DEF NoGroup
  <2>11. ASSUME NEW w \in Workers, AckMalformed(w) PROVE TypeOK'
    <3>1. PICK e : /\ pending' = pending \ {e}
                   /\ batch' = [batch EXCEPT ![w] = @ \ {e}]
                   /\ pc' = [pc EXCEPT ![w] = IF batch[w] = {e} THEN back[w]
                                                                ELSE "process"]
      BY <2>11 DEF AckMalformed
    <3>2. pc' \in [Workers -> Points]
      BY <3>1
    <3>3. UNCHANGED <<stream, cursor, fresh, back, table, faults>>
      BY <2>11 DEF AckMalformed
    <3>4. QED
      BY <3>1, <3>2, <3>3
  <2>12. ASSUME NEW w \in Workers, Commit(w) PROVE TypeOK'
    BY <2>12 DEF Commit
  <2>13. ASSUME NEW w \in Workers, Reject(w) PROVE TypeOK'
    BY <2>13 DEF Reject
  <2>14. ASSUME NEW w \in Workers, Ack(w) PROVE TypeOK'
    BY <2>14 DEF Ack
  <2>15. ASSUME NEW w \in Workers, Wake(w) PROVE TypeOK'
    BY <2>15 DEF Wake
  <2>16. CASE UNCHANGED vars
    BY <2>16 DEF vars
  <2>17. QED
    BY <2>1, <2>2, <2>3, <2>4, <2>5, <2>6, <2>7, <2>8, <2>9, <2>10, <2>11,
       <2>12, <2>13, <2>14, <2>15, <2>16 DEF Next, Environment, WorkerStep
<1>3. QED
  BY <1>1, <1>2, PTL DEF Spec

-----------------------------------------------------------------------------
(***************************************************************************)
(* The inductive invariant.                                                *)
(***************************************************************************)

\* Nothing is delivered, stored or trimmed in the beginning.
LEMMA InitConsistent == Init => Consistent
BY DEF Init, Consistent, DeliveredInOrder, RetentionKept, SettledIsStored,
       RowsAreDelivered, Settled

\* The steps of the stream: a new entry is ahead of the cursor, and trimming
\* only adds to what SettledIsStored excuses.
LEMMA IngestConsistent ==
  ASSUME TypeOK, Consistent, NEW k \in Kinds, Ingest(k) PROVE Consistent'
<1> USE DEF TypeOK, Ingest, stream, pel, worker
<1>1. /\ Len(log') = Len(log) + 1
      /\ \A e \in Ids : log'[e] = log[e]
      /\ firstId' >= firstId
  OBVIOUS
<1>2. DeliveredInOrder'
  BY <1>1 DEF Consistent, DeliveredInOrder
<1>3. RetentionKept'
  BY <1>1 DEF Consistent, RetentionKept
<1>4. SettledIsStored'
  BY <1>1 DEF Consistent, SettledIsStored, DeliveredInOrder, Settled, Trimmed
<1>5. RowsAreDelivered'
  BY <1>1 DEF Consistent, RowsAreDelivered, DeliveredInOrder
<1>6. QED
  BY <1>2, <1>3, <1>4, <1>5 DEF Consistent

(* A failed or finished call leaves the stream and the table alone, takes  *)
(* nothing from the PEL and hands no worker an entry.                      *)
LEMMA QuietConsistent ==
  ASSUME TypeOK, Consistent,
         UNCHANGED <<log, firstId, cursor, pending, table>>,
         \A w \in Workers : batch'[w] \subseteq batch[w],
         \A w \in Workers : pc'[w] = "ack" => pc[w] = "ack"
  PROVE  Consistent'
<1>1. DeliveredInOrder'
  BY DEF Consistent, DeliveredInOrder
<1>2. RetentionKept' /\ SettledIsStored'
  BY DEF Consistent, RetentionKept, SettledIsStored, Settled, Trimmed
<1>3. RowsAreDelivered'
  BY DEF Consistent, RowsAreDelivered
<1>4. QED
  BY <1>1, <1>2, <1>3 DEF Consistent

\* XAUTOCLAIM takes only trimmed entries out of the PEL.
LEMMA ClaimConsistent ==
  ASSUME TypeOK, Consistent, NEW w \in Workers, Claim(w) PROVE Consistent'
<1> DEFINE scanned == FirstFew(Claimable, BatchSize)
           dropped == {e \in scanned : Trimmed(e)}
<1>1. scanned \subseteq pending
  BY FirstFewIsSubset DEF Claimable
<1>2. /\ pending' = pending \ dropped
      /\ Process(w, scanned \ dropped, "read")
      /\ UNCHANGED <<stream, cursor, table>>
  BY DEF Claim
<1>3. \A e \in dropped : Trimmed(e)
  OBVIOUS
<1>4. \A v \in Workers : batch'[v] \subseteq batch[v] \cup scanned
  BY <1>2 DEF Process, TypeOK
<1>5. \A v \in Workers : pc'[v] = "ack" => pc[v] = "ack" /\ batch'[v] = batch[v]
  BY <1>2 DEF Process, TypeOK
<1> HIDE DEF scanned, dropped
<1> USE DEF stream
<1>6. DeliveredInOrder'
  BY <1>1, <1>2, <1>4 DEF Consistent, DeliveredInOrder
<1>7. RetentionKept'
  BY <1>2 DEF Consistent, RetentionKept
<1>8. SettledIsStored'
  BY <1>2, <1>3 DEF Consistent, SettledIsStored, Settled, Trimmed
<1>9. RowsAreDelivered'
  BY <1>2, <1>5 DEF Consistent, RowsAreDelivered
<1>10. QED
  BY <1>6, <1>7, <1>8, <1>9 DEF Consistent

\* XREADGROUP moves the cursor only over entries it delivers and over trimmed ones.
LEMMA ReadConsistent ==
  ASSUME TypeOK, Consistent, NEW w \in Workers, Read(w) PROVE Consistent'
<1> DEFINE first == IF Trimmed(cursor + 1) THEN firstId ELSE cursor + 1
           last  == IF first + BatchSize <= Len(log) THEN first + BatchSize - 1
                                                     ELSE Len(log)
           new   == first..last
<1>1. /\ cursor' = IF new = {} THEN cursor ELSE last
      /\ pending' = pending \cup new
      /\ Process(w, new, "loop")
      /\ UNCHANGED <<stream, table>>
  BY DEF Read
<1>2. /\ \A e \in new : e <= cursor'
      /\ cursor <= cursor' /\ cursor' <= Len(log)
      /\ \A e \in Ids : cursor < e /\ e <= cursor' => e \in new \/ Trimmed(e)
  BY <1>1 DEF Trimmed, TypeOK, Consistent, DeliveredInOrder
<1>3. \A v \in Workers : batch'[v] \subseteq batch[v] \cup new
  BY <1>1 DEF Process, TypeOK
<1>4. \A v \in Workers : pc'[v] = "ack" => pc[v] = "ack" /\ batch'[v] = batch[v]
  BY <1>1 DEF Process, TypeOK
<1>5. /\ pending \subseteq Ids /\ table \subseteq Ids
      /\ \A v \in Workers : batch[v] \subseteq Ids
      /\ cursor \in Nat /\ cursor' \in Nat /\ new \subseteq Ids
  BY <1>1 DEF TypeOK, Trimmed
<1>6. log' = log /\ firstId' = firstId /\ table' = table /\ pending' = pending \cup new
  BY <1>1 DEF stream
<1> HIDE DEF first, last, new
<1>7. DeliveredInOrder'
  <2>1. \A e \in pending : e <= cursor'
    BY <1>2, <1>5 DEF Consistent, DeliveredInOrder
  <2>2. \A v \in Workers : \A e \in batch[v] : e <= cursor'
    BY <1>2, <1>5 DEF Consistent, DeliveredInOrder
  <2>3. cursor' <= Len(log')
    BY <1>2, <1>6
  <2>4. QED
    BY <1>2, <1>3, <1>6, <2>1, <2>2, <2>3 DEF DeliveredInOrder
<1>8. RetentionKept'
  BY <1>6 DEF Consistent, RetentionKept
<1>9. SettledIsStored'
  BY <1>2, <1>5, <1>6 DEF Consistent, SettledIsStored, Settled, Trimmed
<1>10. RowsAreDelivered'
  BY <1>2, <1>4, <1>5, <1>6 DEF Consistent, RowsAreDelivered
<1>11. QED
  BY <1>7, <1>8, <1>9, <1>10 DEF Consistent

\* The parse loop acknowledges what it could not parse, and nothing else.
LEMMA AckMalformedConsistent ==
  ASSUME TypeOK, Consistent, NEW w \in Workers, AckMalformed(w) PROVE Consistent'
<1>1. PICK e \in Malformed(batch[w]) :
        /\ pending' = pending \ {e}
        /\ batch' = [batch EXCEPT ![w] = @ \ {e}]
        /\ pc' = [pc EXCEPT ![w] = IF batch[w] = {e} THEN back[w] ELSE "process"]
  BY FirstFewIsSubset DEF AckMalformed
<1>2. UNCHANGED <<log, firstId, cursor, table>>
  BY DEF AckMalformed, stream
<1>3. log[e] = "malformed"
  BY <1>1 DEF Malformed
<1>4. \A v \in Workers : batch'[v] \subseteq batch[v]
  BY <1>1 DEF TypeOK
<1>5. \A v \in Workers : pc'[v] = "ack" => pc[v] = "ack"
  BY <1>1 DEF TypeOK
<1>6. DeliveredInOrder'
  BY <1>1, <1>2, <1>4 DEF Consistent, DeliveredInOrder
<1>7. RetentionKept'
  BY <1>2 DEF Consistent, RetentionKept
<1>8. SettledIsStored'
  BY <1>1, <1>2, <1>3 DEF Consistent, SettledIsStored, Settled, Trimmed
<1>9. RowsAreDelivered'
  BY <1>2, <1>4, <1>5 DEF Consistent, RowsAreDelivered
<1>10. QED
  BY <1>6, <1>7, <1>8, <1>9 DEF Consistent

\* The COPY commits a batch of delivered entries that PostgreSQL accepts.
LEMMA CommitConsistent ==
  ASSUME TypeOK, Consistent, NEW w \in Workers, Commit(w) PROVE Consistent'
<1>1. /\ table' = table \cup batch[w]
      /\ pc' = [pc EXCEPT ![w] = "ack"]
      /\ UNCHANGED <<log, firstId, cursor, pending, batch>>
  BY DEF Commit, stream, pel
<1>2. \A e \in batch[w] : e <= cursor /\ log[e] = "good"
  <2>1. \A e \in batch[w] : log[e] # "malformed" /\ log[e] # "unstorable"
    BY DEF Commit, ReadyToCopy, Malformed, Storable
  <2>2. \A e \in batch[w] : log[e] \in Kinds
    BY DEF TypeOK
  <2>3. QED
    BY <2>1, <2>2 DEF Consistent, DeliveredInOrder
<1>3. DeliveredInOrder'
  BY <1>1 DEF Consistent, DeliveredInOrder
<1>4. RetentionKept'
  BY <1>1 DEF Consistent, RetentionKept
<1>5. SettledIsStored'
  BY <1>1 DEF Consistent, SettledIsStored, Settled, Trimmed
<1>6. RowsAreDelivered'
  BY <1>1, <1>2 DEF Consistent, RowsAreDelivered, TypeOK
<1>7. QED
  BY <1>3, <1>4, <1>5, <1>6 DEF Consistent

\* The XACK behind the COMMIT settles entries whose rows are committed.
LEMMA AckConsistent ==
  ASSUME TypeOK, Consistent, NEW w \in Workers, Ack(w) PROVE Consistent'
<1>1. /\ pending' = pending \ batch[w]
      /\ batch' = [batch EXCEPT ![w] = {}]
      /\ pc' = [pc EXCEPT ![w] = back[w]]
      /\ UNCHANGED <<log, firstId, cursor, table>>
  BY DEF Ack, stream
<1>2. batch[w] \subseteq table
  BY DEF Ack, Consistent, RowsAreDelivered
<1>3. \A v \in Workers : batch'[v] \subseteq batch[v]
  BY <1>1 DEF TypeOK
<1>4. \A v \in Workers : pc'[v] = "ack" => pc[v] = "ack"
  BY <1>1 DEF TypeOK
<1>5. DeliveredInOrder'
  BY <1>1, <1>3 DEF Consistent, DeliveredInOrder
<1>6. RetentionKept'
  BY <1>1 DEF Consistent, RetentionKept
<1>7. SettledIsStored'
  BY <1>1, <1>2 DEF Consistent, SettledIsStored, Settled, Trimmed
<1>8. RowsAreDelivered'
  BY <1>1, <1>3, <1>4 DEF Consistent, RowsAreDelivered
<1>9. QED
  BY <1>5, <1>6, <1>7, <1>8 DEF Consistent

\* Every step of the pipeline preserves the invariant: one lemma per kind of step.
LEMMA NextConsistent ==
  ASSUME TypeOK, Consistent, [Next]_vars PROVE Consistent'
<1> USE DEF stream, pel, worker
<1>1. CASE SetupStreams
  BY <1>1, QuietConsistent DEF SetupStreams
<1>2. ASSUME NEW k \in Kinds, Ingest(k) PROVE Consistent'
  BY <1>2, IngestConsistent
<1>3. CASE BecomeIdle
  BY <1>3, QuietConsistent DEF BecomeIdle
<1>4. ASSUME NEW w \in Workers,
             \/ Fail(w) \/ Crash(w) \/ Restart(w) \/ SkipClaim(w)
             \/ NoGroup(w) \/ Reject(w) \/ Wake(w)
      PROVE Consistent'
  <2>1. UNCHANGED <<log, firstId, cursor, pending, table>>
    BY <1>4 DEF Fail, Crash, Restart, SkipClaim, NoGroup, Reject, Wake
  <2>2. /\ \A v \in Workers : batch'[v] \subseteq batch[v]
        /\ \A v \in Workers : pc'[v] = "ack" => pc[v] = "ack"
    BY <1>4 DEF Fail, Crash, Restart, SkipClaim, NoGroup, Reject, Wake, Raise, TypeOK
  <2>3. QED
    BY <2>1, <2>2, QuietConsistent
<1>5. ASSUME NEW w \in Workers,
             Claim(w) \/ Read(w) \/ AckMalformed(w) \/ Commit(w) \/ Ack(w)
      PROVE Consistent'
  BY <1>5, ClaimConsistent, ReadConsistent, AckMalformedConsistent,
     CommitConsistent, AckConsistent
<1>6. CASE UNCHANGED vars
  BY <1>6, QuietConsistent DEF vars
<1>7. QED
  BY <1>1, <1>2, <1>3, <1>4, <1>5, <1>6 DEF Next, Environment, WorkerStep

\* The invariant of the pipeline, and with it every conjunct that TLC checks.
THEOREM ConsistentAlways == Spec => []Consistent
<1>1. Init => Consistent
  BY InitConsistent
<1>2. TypeOK /\ Consistent /\ [Next]_vars => Consistent'
  BY NextConsistent
<1>3. QED
  BY <1>1, <1>2, TypeCorrect, PTL DEF Spec

\* No interleaving of acknowledgements, claims and failures settles a reading
\* that is neither stored nor malformed nor trimmed.
THEOREM SettledIsStoredAlways == Spec => []SettledIsStored
<1>1. Consistent => SettledIsStored
  BY DEF Consistent
<1>2. QED
  BY <1>1, ConsistentAlways, PTL

\* Rows are delivered, well-formed readings; XACK comes behind the COMMIT.
THEOREM RowsAreDeliveredAlways == Spec => []RowsAreDelivered
<1>1. Consistent => RowsAreDelivered
  BY DEF Consistent
<1>2. QED
  BY <1>1, ConsistentAlways, PTL

-----------------------------------------------------------------------------
(***************************************************************************)
(* What no step undoes.                                                    *)
(***************************************************************************)

\* No step takes a row back, delivers a settled entry again or stores one.
LEMMA NextIsFinal ==
  ASSUME TypeOK, Consistent, [Next]_vars PROVE FinalStep
<1> USE DEF stream, pel, worker
<1>1. ASSUME \A e \in Ids : e \in Ids',
             cursor' = cursor, pending' \subseteq pending, table' = table
      PROVE  FinalStep
  BY <1>1 DEF FinalStep, Settled
<1>2. ASSUME NEW k \in Kinds, Ingest(k) PROVE FinalStep
  <2>1. Len(log') = Len(log) + 1
    BY <1>2 DEF Ingest, TypeOK
  <2>2. QED
    BY <1>1, <1>2, <2>1 DEF Ingest, TypeOK
<1>3. CASE SetupStreams \/ BecomeIdle
  BY <1>1, <1>3 DEF SetupStreams, BecomeIdle
<1>4. ASSUME NEW w \in Workers,
             \/ Fail(w) \/ Crash(w) \/ Restart(w) \/ SkipClaim(w) \/ NoGroup(w)
             \/ Reject(w) \/ Wake(w) \/ Claim(w) \/ AckMalformed(w) \/ Ack(w)
      PROVE FinalStep
  <2>1. /\ log' = log /\ cursor' = cursor /\ table' = table
        /\ pending' \subseteq pending
    BY <1>4 DEF Fail, Crash, Restart, SkipClaim, NoGroup, Reject, Wake, Claim,
                AckMalformed, Ack
  <2>2. QED
    BY <1>1, <2>1
<1>5. ASSUME NEW w \in Workers, Read(w) PROVE FinalStep
  <2>1. /\ log' = log /\ table' = table /\ cursor <= cursor'
        /\ \A e \in pending' \ pending : e > cursor
    BY <1>5 DEF Read, Trimmed, TypeOK, Consistent, DeliveredInOrder
  <2>2. cursor \in Nat /\ cursor' \in Nat
    BY <1>5 DEF Read, Trimmed, TypeOK
  <2>3. \A e \in Ids : Settled(e) => Settled(e)'
    BY <2>1, <2>2 DEF Settled
  <2>4. QED
    BY <2>1, <2>3 DEF FinalStep
<1>6. ASSUME NEW w \in Workers, Commit(w) PROVE FinalStep
  <2>1. /\ table' = table \cup batch[w]
        /\ UNCHANGED <<log, cursor, pending>>
    BY <1>6 DEF Commit
  <2>2. \A e \in batch[w] : log[e] # "malformed"
    BY <1>6 DEF Commit, ReadyToCopy, Malformed
  <2>3. \A e \in table' \ table : Settled(e) => Trimmed(e)
    BY <2>1, <2>2 DEF Consistent, SettledIsStored, Settled, TypeOK
  <2>4. QED
    BY <2>1, <2>3 DEF FinalStep, Settled
<1>7. CASE UNCHANGED vars
  BY <1>1, <1>7 DEF vars
<1>8. QED
  BY <1>2, <1>3, <1>4, <1>5, <1>6, <1>7 DEF Next, Environment, WorkerStep

\* A settled entry stays settled, a row stays, and no row comes late.
THEOREM SettledIsFinalAlways == Spec => SettledIsFinal
<1>1. TypeOK /\ Consistent /\ [Next]_vars => [FinalStep]_vars
  BY NextIsFinal
<1>2. QED
  BY <1>1, TypeCorrect, ConsistentAlways, PTL DEF Spec, SettledIsFinal

-----------------------------------------------------------------------------
(***************************************************************************)
(* The pipeline implements ReadingDelivery.                                *)
(***************************************************************************)

\* Everything that is lost was malformed or older than the newest MaxLen.
LostForAReason == \A e \in lost : Delivery!MayLose(log, e)

\* What is lost was malformed or has been trimmed under MAXLEN.
LEMMA ConsistentLoss ==
  ASSUME TypeOK, Consistent PROVE LostForAReason
<1> USE DEF LostForAReason
<1> SUFFICES ASSUME NEW e \in lost, log[e] # "malformed"
             PROVE  e <= Len(log) - MaxLen
  BY DEF Delivery!MayLose
<1>1. e \in Ids /\ e \notin table /\ ~InRedis(e)
  BY DEF lost
<1>2. Trimmed(e)
  BY <1>1 DEF Consistent, SettledIsStored, Settled, InRedis, TypeOK
<1>3. QED
  BY <1>1, <1>2 DEF Trimmed, Consistent, RetentionKept, TypeOK

\* Only Ingest touches the stream once it exists.
LEMMA StreamSteps ==
  [Next]_vars => \/ \E k \in Kinds : Ingest(k)
                 \/ log' = log /\ firstId' = firstId
BY DEF Next, Environment, WorkerStep, SetupStreams, BecomeIdle, Fail, Crash, Restart,
       Claim, SkipClaim, Read, NoGroup, AckMalformed, Commit, Reject, Ack, Wake, vars,
       stream

\* The log only grows at its end, and the stream only loses its oldest entries.
LEMMA StreamGrows ==
  ASSUME TypeOK, [Next]_vars
  PROVE  /\ \A e \in Ids : e \in Ids' /\ log'[e] = log[e]
         /\ \A e \in Ids : Trimmed(e) => Trimmed(e)'
<1>1. ASSUME NEW k \in Kinds, Ingest(k)
      PROVE  /\ Len(log') = Len(log) + 1 /\ \A e \in Ids : log'[e] = log[e]
             /\ firstId' \in Nat /\ firstId' >= firstId
  BY <1>1 DEF Ingest, TypeOK
<1>2. QED
  BY <1>1, StreamSteps DEF TypeOK, Trimmed

\* A worker gets hold of an entry only from Redis.
LEMMA HandedOverByRedis ==
  ASSUME TypeOK, Consistent, [Next]_vars, NEW e \in Ids, InHand(e)'
  PROVE  InHand(e) \/ InRedis(e)
<1> USE DEF stream, pel, worker
<1>1. log'[e] = log[e]
  BY StreamGrows
<1>2. PICK v \in Workers : pc'[v] = "process" /\ e \in batch'[v]
  BY DEF InHand
<1>3. ASSUME NEW w \in Workers, Claim(w) PROVE InHand(e) \/ InRedis(e)
  <2>1. \A d \in batch'[v] : (pc[v] = "process" /\ d \in batch[v]) \/ InRedis(d)
    <3> DEFINE scanned == FirstFew(Claimable, BatchSize)
               claimed == scanned \ {d \in scanned : Trimmed(d)}
    <3>1. Process(w, claimed, "read")
      BY <1>3 DEF Claim
    <3>2. \A d \in claimed : InRedis(d)
      BY FirstFewIsSubset DEF Claimable, InRedis
    <3> HIDE DEF claimed
    <3>3. QED
      BY <1>2, <3>1, <3>2 DEF Process, TypeOK
  <2>2. QED
    BY <1>1, <1>2, <2>1 DEF InHand
<1>4. ASSUME NEW w \in Workers, Read(w) PROVE InHand(e) \/ InRedis(e)
  <2>1. \A d \in batch'[v] : (pc[v] = "process" /\ d \in batch[v]) \/ InRedis(d)
    BY <1>2, <1>4 DEF Read, Process, TypeOK, InRedis, Trimmed
  <2>2. QED
    BY <1>1, <1>2, <2>1 DEF InHand
<1>5. ASSUME NEW w \in Workers,
             \/ Fail(w) \/ Crash(w) \/ Restart(w) \/ SkipClaim(w) \/ NoGroup(w)
             \/ Reject(w) \/ Wake(w) \/ AckMalformed(w) \/ Commit(w) \/ Ack(w)
      PROVE InHand(e) \/ InRedis(e)
  <2>1. pc[v] = "process" /\ e \in batch[v]
    BY <1>2, <1>5 DEF Fail, Crash, Restart, SkipClaim, NoGroup, Reject, Wake,
                      AckMalformed, Commit, Ack, Raise, TypeOK
  <2>2. QED
    BY <1>1, <2>1 DEF InHand
<1>6. CASE UNCHANGED worker
  BY <1>1, <1>2, <1>6 DEF InHand
<1>7. QED
  BY <1>3, <1>4, <1>5, <1>6
     DEF Next, Environment, WorkerStep, SetupStreams, Ingest, BecomeIdle, vars

\* What is lost stays lost: Redis has dropped it and no worker can get it back.
LEMMA LostStaysLost ==
  ASSUME TypeOK, TypeOK', Consistent, [Next]_vars, lost \cap table' = {}
  PROVE  lost \subseteq lost'
<1> SUFFICES ASSUME NEW e \in lost PROVE e \in lost'
  OBVIOUS
<1>1. e \in Ids /\ e \notin table' /\ ~InRedis(e) /\ ~InHand(e)
  BY DEF lost
<1>2. e \in Ids' /\ (Trimmed(e) => Trimmed(e)')
  BY <1>1, StreamGrows
<1>3. ~InRedis(e)'
  <2>1. CASE Trimmed(e)
    BY <1>2, <2>1 DEF InRedis
  <2>2. CASE ~Trimmed(e)
    <3>1. Settled(e)
      BY <1>1, <2>2 DEF Settled, InRedis, TypeOK
    <3>2. Settled(e)'
      BY <1>1, <3>1, NextIsFinal DEF FinalStep
    <3>3. e \in Nat /\ cursor \in Nat /\ cursor' \in Nat
      BY <1>1 DEF TypeOK
    <3>4. QED
      BY <1>1, <3>2, <3>3 DEF Settled, InRedis
  <2>3. QED
    BY <2>1, <2>2
<1>4. ~InHand(e)'
  BY <1>1, HandedOverByRedis
<1>5. QED
  BY <1>1, <1>2, <1>3, <1>4 DEF lost

\* COPY stores a batch whose entries nobody has stored or lost.
LEMMA CommitStores ==
  ASSUME TypeOK, TypeOK', Consistent, Consistent', NEW w \in Workers, Commit(w)
  PROVE  Delivery!Store
<1>1. /\ table' = table \cup batch[w] /\ pc' = [pc EXCEPT ![w] = "ack"]
      /\ UNCHANGED <<log, firstId, cursor, pending, batch>>
  BY DEF Commit, stream, pel
<1>2. /\ batch[w] \cap table = {} /\ batch[w] \subseteq Ids
      /\ \A e \in batch[w] : InHand(e)
  BY DEF Commit, ReadyToCopy, Storable, Malformed, InHand, TypeOK
<1>3. \A e \in batch[w] : log[e] = "good"
  BY <1>1 DEF Consistent, RowsAreDelivered
<1>4. batch[w] \subseteq Delivery!Open
  BY <1>2 DEF Delivery!Open, lost
<1>5. lost' = lost
  <2>1. ASSUME NEW e \in Ids \ batch[w] PROVE InRedis(e)' = InRedis(e) /\ InHand(e)' = InHand(e)
    BY <1>1 DEF InRedis, InHand, Trimmed, TypeOK
  <2>2. \A e \in lost : e \notin batch[w]
    BY <1>2 DEF lost
  <2>3. QED
    BY <1>1, <2>1, <2>2 DEF lost
<1>6. QED
  BY <1>1, <1>3, <1>4, <1>5 DEF Delivery!Store

\* Every step of the pipeline is a step of ReadingDelivery or a stutter.
LEMMA NextRefines ==
  ASSUME TypeOK, TypeOK', Consistent, Consistent', LostForAReason', [Next]_vars
  PROVE  [Delivery!Next]_(Delivery!vars)
<1> DEFINE newly == lost' \ lost
<1>1. CASE \E w \in Workers : Commit(w)
  BY <1>1, CommitStores DEF Delivery!Next
<1>2. CASE ~\E w \in Workers : Commit(w)
  <2>1. table' = table
    BY <1>2 DEF Next, Environment, WorkerStep, SetupStreams, Ingest, BecomeIdle, Fail,
       Crash, Restart, Claim, SkipClaim, Read, NoGroup, AckMalformed, Reject, Ack,
       Wake, vars
  <2>2. lost \subseteq lost'
    BY <2>1, LostStaysLost DEF lost
  <2>3. lost' = lost \cup newly
    BY <2>2
  <2>4. \A e \in newly : Delivery!MayLose(log', e)
    BY DEF LostForAReason
  <2>5. ASSUME NEW k \in Kinds, Ingest(k) PROVE Delivery!Accept(k)
    <3>1. newly \subseteq Delivery!Open
      <4>1. Len(log') = Len(log) + 1 /\ cursor <= Len(log) /\ cursor' = cursor
        BY <2>5 DEF Ingest, TypeOK, Consistent, DeliveredInOrder, pel
      <4>2. Len(log') \notin lost'
        <5>1. Len(log') \in Nat /\ Len(log') > 0 /\ Len(log') > cursor'
          BY <4>1 DEF TypeOK
        <5>2. firstId' <= Len(log')
          <6>1. firstId' \in Nat /\ RetentionKept'
            BY DEF TypeOK, Consistent
          <6>2. QED
            BY <5>1, <6>1 DEF RetentionKept
        <5>3. InRedis(Len(log))'
          <6>1. firstId' \in Nat /\ cursor' \in Nat
            BY DEF TypeOK
          <6>2. QED
            BY <5>1, <5>2, <6>1 DEF InRedis, Trimmed
        <5>4. QED
          BY <5>3 DEF lost
      <4>3. QED
        BY <2>1, <4>1, <4>2 DEF Delivery!Open, lost, TypeOK
    <3>2. QED
      BY <2>1, <2>3, <2>4, <2>5, <3>1 DEF Delivery!Accept, Ingest
  <2>6. CASE log' = log
    <3>1. newly \subseteq Delivery!Open
      BY <2>1, <2>6 DEF Delivery!Open, lost
    <3>2. QED
      BY <2>1, <2>3, <2>4, <2>6, <3>1 DEF Delivery!Lose, Delivery!Next
  <2>7. QED
    BY <2>5, <2>6, StreamSteps DEF Delivery!Next
<1>3. QED
  BY <1>1, <1>2

(* Whatever workers there are and wherever they fail: a reading is stored  *)
(* at most once, and it is lost only if it is malformed or MaxLen newer    *)
(* ones have been accepted.                                                *)
THEOREM PipelineImplementsDelivery == Spec => ImplementsDelivery
<1>1. Init => Delivery!Init
  BY DEF Init, Delivery!Init, lost
<1>2. TypeOK /\ Consistent => LostForAReason
  BY ConsistentLoss
<1>3. /\ TypeOK /\ TypeOK' /\ Consistent /\ Consistent' /\ LostForAReason'
      /\ [Next]_vars
      => [Delivery!Next]_(Delivery!vars)
  BY NextRefines
<1>4. QED
  BY <1>1, <1>2, <1>3, TypeCorrect, ConsistentAlways, PTL
     DEF Spec, ImplementsDelivery, Delivery!Spec
=============================================================================
