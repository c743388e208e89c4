--------------------------- MODULE StreamPersister ---------------------------
(***************************************************************************)
(* The path of a telemetry reading from the ingest API to PostgreSQL:      *)
(*                                                                         *)
(*   app/api/v1/telemetry.py        XADD to the stream, trimmed to MAXLEN  *)
(*   app/core/redis.py              the stream and its consumer group      *)
(*   app/workers/stream_consumer.py the persister workers of that group    *)
(*                                                                         *)
(* Stream ids are 1, 2, ...  An entry is what the persister can tell apart *)
(* about its payload:                                                      *)
(*   "good"        parses, and PostgreSQL accepts the row                  *)
(*   "malformed"   does not parse (float(), int(), UUID() or a key raises) *)
(*   "unstorable"  parses, but COPY rejects the row: its month has no      *)
(*                 partition, or runtime_seconds exceeds INTEGER           *)
(*                                                                         *)
(* One action is what a worker does between two awaits, so that workers    *)
(* interleave wherever the event loop or the network lets them.  Redis     *)
(* keeps an owner per pending entry; XACK and XAUTOCLAIM do not look at    *)
(* it, so `pending' has none.                                              *)
(***************************************************************************)
EXTENDS Integers, Sequences, FiniteSets

CONSTANTS
  Workers,      \* consumer processes of the group cg:db:persister
  MaxEntries,   \* bound on the number of readings ingested
  MaxLen,       \* REDIS_STREAM_MAXLEN
  BatchSize,    \* INGEST_BATCH_SIZE
  Kinds,        \* the kinds of entries that producers append
  CrashPoints,  \* control points at which a worker may die
  FailPoints,   \* control points at which an awaited call may raise
  MaxFaults     \* bound on the two together

AllKinds == {"good", "malformed", "unstorable"}

(***************************************************************************)
(* Control points: "loop" is the top of the while loop, "read" the         *)
(* XREADGROUP, "process" process_stream_entries up to the COMMIT, "ack"    *)
(* the XACK behind it, "sleep" the handler of the loop's exceptions,       *)
(* "down" a process that is not running.                                   *)
(***************************************************************************)
Points == {"loop", "read", "process", "ack", "sleep", "down"}

ASSUME BoundsAreNaturals == MaxEntries \in Nat /\ MaxFaults \in Nat
ASSUME SizesArePositive == MaxLen \in Nat \ {0} /\ BatchSize \in Nat \ {0}
ASSUME KindsAreKnown == Kinds \subseteq AllKinds
ASSUME FaultPointsAreKnown ==
  /\ CrashPoints \subseteq Points \ {"down"}
  /\ FailPoints \subseteq Points \ {"down", "sleep"}

VARIABLES
  group,    \* "none" until setup_redis_streams has created the stream and the group
  log,      \* every entry ever appended, by id
  firstId,  \* ids below it have been trimmed from the stream
  cursor,   \* the group's last-delivered-id
  pending,  \* the group's pending entries list (PEL)
  fresh,    \* the deliveries of the last 30 s, oldest first: the set of each
  pc,       \* control point of each worker
  back,     \* where each worker goes when process_stream_entries returns
  batch,    \* entries in each worker's hands
  table,    \* entries whose row is committed in telemetry_readings
  faults    \* failures so far

stream == <<group, log, firstId>>
pel    == <<cursor, pending, fresh>>
worker == <<pc, back, batch>>
vars   == <<stream, pel, worker, table, faults>>

Ids == 1..Len(log)
Trimmed(e) == e < firstId

\* A PEL entry that XAUTOCLAIM stops at: idle for 30 s, or no longer in the stream.
Claimable ==
  {e \in pending : Trimmed(e) \/ \A i \in 1..Len(fresh) : e \notin fresh[i]}

\* Delivering entries to a worker starts their idle time.
Delivered(S) == fresh' = IF S = {} THEN fresh ELSE Append(fresh, S)

\* The first n elements of a set of ids: COUNT.
FirstFew(S, n) == {e \in S : Cardinality({d \in S : d < e}) < n}

Malformed(S) == {e \in S : log[e] = "malformed"}

TypeOK ==
  /\ group \in {"none", "ready"}
  /\ log \in Seq(Kinds)
  /\ firstId \in Nat \ {0}
  /\ cursor \in Nat
  /\ pending \subseteq Ids
  /\ fresh \in Seq(SUBSET Ids)
  /\ pc \in [Workers -> Points]
  /\ back \in [Workers -> {"loop", "read"}]
  /\ batch \in [Workers -> SUBSET Ids]
  /\ table \subseteq Ids
  /\ faults \in 0..MaxFaults

Init ==
  /\ group = "none"
  /\ log = <<>> /\ firstId = 1
  /\ cursor = 0 /\ pending = {} /\ fresh = <<>>
  /\ pc = [w \in Workers |-> "loop"]
  /\ back = [w \in Workers |-> "loop"]
  /\ batch = [w \in Workers |-> {}]
  /\ table = {}
  /\ faults = 0

-----------------------------------------------------------------------------
(***************************************************************************)
(* The API process and Redis.                                              *)
(***************************************************************************)

\* Mutant: a start that creates the group anew instead of passing over BUSYGROUP.
SetupStreams_Recreate ==
  /\ group' = "ready" /\ cursor' = 0
  /\ UNCHANGED <<log, firstId, pending, fresh, worker, table, faults>>

(* Startup of an API process.  XGROUP CREATE ... MKSTREAM from id 0; a     *)
(* later start meets BUSYGROUP and changes nothing.                        *)
SetupStreams ==
  /\ group = "none"
  /\ group' = "ready"
  /\ UNCHANGED <<log, firstId, pel, worker, table, faults>>

\* Mutant: trimming leaves one entry less than MaxLen.
Ingest_TrimsOneMore(k) ==
  /\ group = "ready"
  /\ Len(log) < MaxEntries
  /\ log' = Append(log, k)
  /\ firstId' \in {firstId} \cup (firstId..(Len(log') - MaxLen + 2))
  /\ UNCHANGED <<group, pel, worker, table, faults>>

(* XADD with MAXLEN ~: Redis may leave more than MaxLen entries, never     *)
(* fewer.  Trimming does not look at the PEL.  A request with several      *)
(* readings is several XADDs, with other clients' commands between them.   *)
Ingest(k) ==
  /\ group = "ready"
  /\ Len(log) < MaxEntries
  /\ log' = Append(log, k)
  /\ firstId' \in {firstId} \cup (firstId..(Len(log') - MaxLen + 1))
  /\ UNCHANGED <<group, pel, worker, table, faults>>

(* 30 s pass since the oldest of these deliveries, whether or not a worker *)
(* is still busy with its entries.                                         *)
BecomeIdle ==
  /\ fresh # <<>>
  /\ fresh' = Tail(fresh)
  /\ UNCHANGED <<stream, cursor, pending, worker, table, faults>>

-----------------------------------------------------------------------------
(***************************************************************************)
(* run_consumer_loop                                                       *)
(***************************************************************************)

\* A worker starts process_stream_entries, which returns at once on no messages.
Process(w, S, return) ==
  IF S = {}
  THEN /\ pc' = [pc EXCEPT ![w] = return]
       /\ UNCHANGED <<back, batch>>
  ELSE /\ pc' = [pc EXCEPT ![w] = "process"]
       /\ back' = [back EXCEPT ![w] = return]
       /\ batch' = [batch EXCEPT ![w] = S]

\* An exception leaves process_stream_entries: the entries stay in the PEL.
Raise(w) ==
  /\ pc' = [pc EXCEPT ![w] = "sleep"]
  /\ batch' = [batch EXCEPT ![w] = {}]
  /\ UNCHANGED back

\* Mutant: the claimed messages are logged and not processed.
Claim_OnlyLogs(w) ==
  /\ pc[w] = "loop"
  /\ group = "ready"
  /\ LET scanned == FirstFew(Claimable, BatchSize)
     IN  /\ pending' = pending \ {e \in scanned : Trimmed(e)}
         /\ Delivered({e \in scanned : ~Trimmed(e)})
  /\ pc' = [pc EXCEPT ![w] = "read"]
  /\ UNCHANGED <<stream, cursor, back, batch, table, faults>>

(* The recovery check is due: XAUTOCLAIM drops trimmed entries from the    *)
(* PEL and hands over the others, whose idle time starts again.            *)
Claim(w) ==
  /\ pc[w] = "loop"
  /\ group = "ready"
  /\ LET scanned == FirstFew(Claimable, BatchSize)
         dropped == {e \in scanned : Trimmed(e)}
     IN  /\ pending' = pending \ dropped
         /\ Delivered(scanned \ dropped)
         /\ Process(w, scanned \ dropped, "read")
  /\ UNCHANGED <<stream, cursor, table, faults>>

\* Less than 15 s since the last recovery check.
SkipClaim(w) ==
  /\ pc[w] = "loop"
  /\ pc' = [pc EXCEPT ![w] = "read"]
  /\ UNCHANGED <<stream, pel, back, batch, table, faults>>

\* Mutant: a short batch advances the group as far as a full one.
Read_FullBatch(w) ==
  /\ pc[w] = "read"
  /\ group = "ready"
  /\ LET first == IF Trimmed(cursor + 1) THEN firstId ELSE cursor + 1
         new   == first..(first + BatchSize - 1)
     IN  /\ cursor' = IF first > Len(log) THEN cursor ELSE first + BatchSize - 1
         /\ pending' = IF first > Len(log) THEN pending ELSE pending \cup new
         /\ Delivered(new \cap Ids)
         /\ Process(w, new \cap Ids, "loop")
  /\ UNCHANGED <<stream, table, faults>>

(* XREADGROUP ">": the next entries behind the last delivered one that are *)
(* still in the stream.  Without any it returns after the block timeout.   *)
Read(w) ==
  /\ pc[w] = "read"
  /\ group = "ready"
  /\ LET first == IF Trimmed(cursor + 1) THEN firstId ELSE cursor + 1
         last  == IF first + BatchSize <= Len(log) THEN first + BatchSize - 1
                                                   ELSE Len(log)
         new   == first..last
     IN  /\ cursor' = IF new = {} THEN cursor ELSE last
         /\ pending' = pending \cup new
         /\ Delivered(new)
         /\ Process(w, new, "loop")
  /\ UNCHANGED <<stream, table, faults>>

\* NOGROUP: the worker was started before the first API process.
NoGroup(w) ==
  /\ pc[w] \in {"loop", "read"}
  /\ group = "none"
  /\ Raise(w)
  /\ UNCHANGED <<stream, pel, table, faults>>

(***************************************************************************)
(* process_stream_entries                                                  *)
(***************************************************************************)

\* Mutant: the acknowledgement of one unparseable entry covers the batch read so far.
AckMalformed_WholeBatch(w) ==
  /\ pc[w] = "process"
  /\ \E e \in FirstFew(Malformed(batch[w]), 1) :
        /\ pending' = pending \ batch[w]
        /\ batch' = [batch EXCEPT ![w] = @ \ {e}]
        /\ pc' = [pc EXCEPT ![w] = IF batch[w] = {e} THEN back[w] ELSE "process"]
  /\ UNCHANGED <<stream, cursor, fresh, back, table, faults>>

(* The parse loop acknowledges an entry it cannot parse.  With no record   *)
(* to copy the function returns.                                           *)
AckMalformed(w) ==
  /\ pc[w] = "process"
  /\ \E e \in FirstFew(Malformed(batch[w]), 1) :
        /\ pending' = pending \ {e}
        /\ batch' = [batch EXCEPT ![w] = @ \ {e}]
        /\ pc' = [pc EXCEPT ![w] = IF batch[w] = {e} THEN back[w] ELSE "process"]
  /\ UNCHANGED <<stream, cursor, fresh, back, table, faults>>

(* PostgreSQL takes the batch as a whole: the primary key (recorded_at,    *)
(* id) holds the id that the API gave the reading.                         *)
Storable(S) == S \cap table = {} /\ \A e \in S : log[e] # "unstorable"

ReadyToCopy(w) == pc[w] = "process" /\ Malformed(batch[w]) = {}

Commit(w) ==
  /\ ReadyToCopy(w)
  /\ Storable(batch[w])
  /\ table' = table \cup batch[w]
  /\ pc' = [pc EXCEPT ![w] = "ack"]
  /\ UNCHANGED <<stream, pel, back, batch, faults>>

\* Mutant: a failed COPY is caught too early and the batch is acknowledged.
Reject_Swallowed(w) ==
  /\ ReadyToCopy(w)
  /\ ~Storable(batch[w])
  /\ pc' = [pc EXCEPT ![w] = "ack"]
  /\ UNCHANGED <<stream, pel, back, batch, table, faults>>

\* The COPY violates a constraint and the transaction rolls back.
Reject(w) ==
  /\ ReadyToCopy(w)
  /\ ~Storable(batch[w])
  /\ Raise(w)
  /\ UNCHANGED <<stream, pel, table, faults>>

\* XACK of every entry of the committed batch.
Ack(w) ==
  /\ pc[w] = "ack"
  /\ pending' = pending \ batch[w]
  /\ batch' = [batch EXCEPT ![w] = {}]
  /\ pc' = [pc EXCEPT ![w] = back[w]]
  /\ UNCHANGED <<stream, cursor, fresh, back, table, faults>>

\* asyncio.sleep(1.0), then the loop again.
Wake(w) ==
  /\ pc[w] = "sleep"
  /\ pc' = [pc EXCEPT ![w] = "loop"]
  /\ UNCHANGED <<stream, pel, back, batch, table, faults>>

-----------------------------------------------------------------------------
(***************************************************************************)
(* Failures.  A call that takes effect but whose answer is lost is the     *)
(* step that takes effect followed by Fail.                                *)
(***************************************************************************)

\* Redis or PostgreSQL cannot be reached: the awaited call raises.
Fail(w) ==
  /\ pc[w] \in FailPoints
  /\ faults < MaxFaults
  /\ faults' = faults + 1
  /\ Raise(w)
  /\ UNCHANGED <<stream, pel, table>>

(* The process dies (at any point), or is told to stop and leaves the      *)
(* loop (at its top).  The group's state is in Redis and stays.            *)
Crash(w) ==
  /\ pc[w] \in CrashPoints
  /\ faults < MaxFaults
  /\ faults' = faults + 1
  /\ pc' = [pc EXCEPT ![w] = "down"]
  /\ batch' = [batch EXCEPT ![w] = {}]
  /\ UNCHANGED <<stream, pel, back, table>>

\* A new process of the same group (with a consumer name of its own).
Restart(w) ==
  /\ pc[w] = "down"
  /\ pc' = [pc EXCEPT ![w] = "loop"]
  /\ UNCHANGED <<stream, pel, back, batch, table, faults>>

-----------------------------------------------------------------------------
WorkerStep(w) ==
  \/ Claim(w) \/ SkipClaim(w) \/ Read(w) \/ NoGroup(w)
  \/ AckMalformed(w) \/ Commit(w) \/ Reject(w) \/ Ack(w) \/ Wake(w)

Environment ==
  \/ SetupStreams
  \/ \E k \in Kinds : Ingest(k)
  \/ BecomeIdle
  \/ \E w \in Workers : Fail(w) \/ Crash(w) \/ Restart(w)

Next == Environment \/ \E w \in Workers : WorkerStep(w)

Spec == Init /\ [][Next]_vars

(***************************************************************************)
(* A running worker takes its next step, and every 15 s (infinitely often  *)
(* if it passes the top of its loop infinitely often) that step is Claim.  *)
(* The API starts; time passes.  Nobody has to restart a worker that is    *)
(* down.                                                                   *)
(***************************************************************************)
Fairness ==
  /\ WF_vars(SetupStreams)
  /\ WF_vars(BecomeIdle)
  /\ \A w \in Workers : WF_vars(WorkerStep(w)) /\ SF_vars(Claim(w))

FairSpec == Spec /\ Fairness

-----------------------------------------------------------------------------
(***************************************************************************)
(* Safety.                                                                 *)
(***************************************************************************)

\* Delivered to the group and no longer pending: nobody will look at it again.
Settled(e) == e \in Ids /\ e <= cursor /\ e \notin pending

(* A reading leaves the pending entries list only for a reason: its row is *)
(* committed, it cannot be parsed, or the stream trimmed it away while it  *)
(* was pending.  The XACK after the COPY, the XACK of the parse loop and   *)
(* the claim of another worker must never settle anything else, whatever   *)
(* workers do and wherever they fail.                                      *)
SettledIsStored ==
  \A e \in Ids : Settled(e) => \/ e \in table
                               \/ log[e] = "malformed"
                               \/ Trimmed(e)

(* A row exists only for a well-formed reading that the group delivered,   *)
(* and while entries can still be claimed a batch at "ack" is committed:   *)
(* XACK comes behind the COMMIT in every interleaving.                     *)
RowsAreDelivered ==
  /\ \A e \in table : e <= cursor /\ log[e] = "good"
  /\ \A w \in Workers : pc[w] = "ack" => batch[w] \subseteq table

\* What workers hold and what the PEL records has been delivered.
DeliveredInOrder ==
  /\ cursor <= Len(log)
  /\ \A e \in pending : e <= cursor
  /\ \A w \in Workers : \A e \in batch[w] : e <= cursor

\* The stream keeps the last MaxLen entries.
RetentionKept == firstId = 1 \/ firstId <= Len(log) - MaxLen + 1

(* The invariant that the proofs induct over: the two facts above hold     *)
(* because delivery follows the log and trimming follows MAXLEN, however   *)
(* appends, deliveries, claims and failures interleave.                    *)
Consistent ==
  /\ DeliveredInOrder
  /\ RetentionKept
  /\ SettledIsStored
  /\ RowsAreDelivered

(* A step never takes a row back, never delivers a settled entry again,    *)
(* and never settles an entry and stores it only later, unless the stream  *)
(* had trimmed it while a worker still held it.                            *)
FinalStep ==
  /\ table \subseteq table'
  /\ \A e \in Ids : Settled(e) => Settled(e)'
  /\ \A e \in table' \ table : Settled(e) => Trimmed(e)

SettledIsFinal == [][FinalStep]_vars

(***************************************************************************)
(* Liveness.                                                               *)
(***************************************************************************)

(* "Recovery Check: Reclaim orphaned messages every 15s": every reading    *)
(* that PostgreSQL would take is stored, unless the stream trims it first, *)
(* whatever workers fail and whoever is left to claim their entries.  It   *)
(* holds only while no failure falls between a COMMIT and its XACK and     *)
(* every entry that parses is storable.                                    *)
EveryReadingStored ==
  \A e \in 1..MaxEntries :
     (e \in Ids /\ log[e] = "good") ~> (e \in table \/ Trimmed(e))

\* Pending for good, and COPY refuses any batch with the entry in it.
Poison(e) == ~Trimmed(e) /\ (log[e] = "unstorable" \/ e \in table)
Poisoned == \E e \in pending : Poison(e)

(* What recovery does achieve: with failures at any await, also between    *)
(* the COMMIT and its XACK, a reading that PostgreSQL would take is stored *)
(* or trimmed in the end, unless an entry that no COPY takes stays in the  *)
(* pending entries list forever.  Nothing else may keep a reading from the *)
(* table: no failed call, no dead worker, no worker that is slow.          *)
StoredUnlessPoisoned ==
  \A e \in 1..MaxEntries :
     (e \in Ids /\ log[e] = "good") ~> (e \in table \/ Trimmed(e) \/ []Poisoned)

-----------------------------------------------------------------------------
(***************************************************************************)
(* The promise of the pipeline: ReadingDelivery.                           *)
(***************************************************************************)

\* Redis will hand the entry to a worker, first or again.
InRedis(e) == ~Trimmed(e) /\ (e > cursor \/ e \in pending)

\* A worker may still commit the entry's row.
InHand(e) ==
  log[e] # "malformed" /\ \E w \in Workers : pc[w] = "process" /\ e \in batch[w]

lost == {e \in Ids \ table : ~InRedis(e) /\ ~InHand(e)}

Delivery == INSTANCE ReadingDelivery WITH accepted <- log, stored <- table, lost <- lost

(* Whatever the workers do and wherever they fail, a reading is stored at  *)
(* most once, and is lost only if it is malformed or MaxLen newer ones     *)
(* have been accepted.                                                     *)
ImplementsDelivery == Delivery!Spec
=============================================================================
