---------------------------- MODULE EvaluatorGroup ----------------------------
(***************************************************************************)
(* How readings reach the evaluators (app/workers/anomaly_consumer.py):    *)
(* the consumer group cg:rules:evaluator, a batch in each worker's hands,  *)
(* and for each reading of the batch a tick for the dashboards, anomaly    *)
(* records, the alert rules and an XACK.  Nobody claims what a worker      *)
(* leaves pending.  What a reading does to an alert is AlertLifecycle.     *)
(*                                                                         *)
(* The group exists; before that XREADGROUP raises, which is RaiseInRead.  *)
(* Entries are "good", or "malformed" when the parsing in front of the     *)
(* first await raises.                                                     *)
(***************************************************************************)
EXTENDS Integers, FiniteSets, Sequences

CONSTANTS
  Workers,      \* evaluator processes
  MaxEntries,   \* bound on the readings ingested
  MaxLen,       \* REDIS_STREAM_MAXLEN
  BatchSize,    \* count=50
  MaxFaults     \* bound on calls that raise and on crashes

ASSUME BoundsAreNaturals == MaxEntries \in Nat /\ MaxFaults \in Nat
ASSUME SizesArePositive == MaxLen \in Nat \ {0} /\ BatchSize \in Nat \ {0}

Kinds == {"good", "malformed"}

(***************************************************************************)
(* "read" is XREADGROUP, "tick" the PUBLISH of the first reading in hand,  *)
(* "anomaly" its windows and records, "alerts" process_reading_alerts,     *)
(* "ack" its XACK, "handler" the XACK of the exception handler, "sleep"    *)
(* the handler of the loop, "down" a process that is not running.          *)
(***************************************************************************)
InEntry == {"tick", "anomaly", "alerts", "ack"}
Points == InEntry \cup {"read", "handler", "sleep", "down"}

VARIABLES
  log,          \* every entry ever appended, by id
  firstId,      \* ids below it have been trimmed from the stream
  cursor,       \* the group's last-delivered-id
  pending,      \* the group's pending entries list
  pc,           \* where each worker awaits
  batch,        \* what each worker has still to go through, in the order of ids
  ticks,        \* how often each reading was published
  flagged,      \* readings with an anomaly record
  evaluations,  \* how often the alert rules were applied to each reading
  failed,       \* readings that the exception handler gave up
  faults

stream  == <<log, firstId>>
worker  == <<pc, batch>>
effects == <<ticks, flagged, evaluations, failed>>
vars    == <<stream, cursor, pending, worker, effects, faults>>

Ids == 1..Len(log)
Trimmed(e) == e < firstId

\* The reading a worker is at: the first of its batch.
AtHand(w, e) == e \in batch[w] /\ \A d \in batch[w] : e <= d

TypeOK ==
  /\ log \in Seq(Kinds) /\ Len(log) <= MaxEntries
  /\ firstId \in Nat \ {0}
  /\ cursor \in 0..Len(log)
  /\ pending \subseteq 1..cursor
  /\ pc \in [Workers -> Points]
  /\ batch \in [Workers -> SUBSET (1..cursor)]
  /\ ticks \in [1..MaxEntries -> Nat]
  /\ evaluations \in [1..MaxEntries -> Nat]
  /\ flagged \subseteq Ids /\ failed \subseteq Ids
  /\ faults \in 0..MaxFaults

Init ==
  /\ log = <<>> /\ firstId = 1
  /\ cursor = 0 /\ pending = {}
  /\ pc = [w \in Workers |-> "read"]
  /\ batch = [w \in Workers |-> {}]
  /\ ticks = [e \in 1..MaxEntries |-> 0]
  /\ evaluations = [e \in 1..MaxEntries |-> 0]
  /\ flagged = {} /\ failed = {}
  /\ faults = 0

Goto(w, point) == pc' = [pc EXCEPT ![w] = point]

-----------------------------------------------------------------------------
\* XADD with MAXLEN ~: at least the last MaxLen entries stay.
Ingest(k) ==
  /\ Len(log) < MaxEntries
  /\ log' = Append(log, k)
  /\ firstId' \in {firstId} \cup (firstId..(Len(log') - MaxLen + 1))
  /\ UNCHANGED <<cursor, pending, worker, effects, faults>>

\* Mutant: a short batch advances the group as far as a full one.
Deliver_FullBatch(w, n, taken) ==
  LET first == IF Trimmed(cursor + 1) THEN firstId ELSE cursor + 1
      new   == first..Len(log)
  IN  /\ new # {}
      /\ cursor' = first + n - 1
      /\ pending' = pending \cup new
      /\ batch' = [batch EXCEPT ![w] = IF taken THEN new ELSE {}]
      /\ Goto(w, IF taken THEN "tick" ELSE "sleep")

\* XREADGROUP hands the group's next entries, n at most, to a worker.
Deliver(w, n, taken) ==
  LET first == IF Trimmed(cursor + 1) THEN firstId ELSE cursor + 1
      last  == IF first + n <= Len(log) THEN first + n - 1 ELSE Len(log)
      new   == first..last
  IN  /\ new # {}
      /\ cursor' = last
      /\ pending' = pending \cup new
      /\ batch' = [batch EXCEPT ![w] = IF taken THEN new ELSE {}]
      /\ Goto(w, IF taken THEN "tick" ELSE "sleep")

\* Mutant: everything there is in one batch.
Read_WithoutCount(w) ==
  /\ pc[w] = "read"
  /\ Deliver(w, MaxEntries, TRUE)
  /\ UNCHANGED <<stream, effects, faults>>

Read(w) ==
  /\ pc[w] = "read"
  /\ Deliver(w, BatchSize, TRUE)
  /\ UNCHANGED <<stream, effects, faults>>

\* Without new entries XREADGROUP returns after 100 ms and the loop comes round.
IdleTurn(w) ==
  /\ pc[w] = "read"
  /\ cursor = Len(log)
  /\ UNCHANGED vars

\* The worker is done with a reading: the next of the batch, or the next batch.
Advance(w, e) ==
  /\ batch' = [batch EXCEPT ![w] = @ \ {e}]
  /\ Goto(w, IF batch[w] = {e} THEN "read" ELSE "tick")

\* Mutant: a reading is acknowledged when it is taken up.
Tick_AcksFirst(w) ==
  /\ pc[w] = "tick"
  /\ \E e \in batch[w] :
        /\ AtHand(w, e) /\ log[e] = "good"
        /\ ticks' = [ticks EXCEPT ![e] = @ + 1]
        /\ pending' = pending \ {e}
  /\ Goto(w, "anomaly")
  /\ UNCHANGED <<stream, cursor, batch, flagged, evaluations, failed, faults>>

Tick(w) ==
  /\ pc[w] = "tick"
  /\ \E e \in batch[w] :
        /\ AtHand(w, e) /\ log[e] = "good"
        /\ ticks' = [ticks EXCEPT ![e] = @ + 1]
  /\ Goto(w, "anomaly")
  /\ UNCHANGED <<stream, cursor, pending, batch, flagged, evaluations, failed, faults>>

\* The exception handler logs the reading and goes on to acknowledge it.
GiveUp(w, e) ==
  /\ failed' = failed \cup {e}
  /\ Goto(w, "handler")
  /\ UNCHANGED <<stream, cursor, batch, ticks, flagged, evaluations>>

Unparseable(w) ==
  /\ pc[w] = "tick"
  /\ \E e \in batch[w] : AtHand(w, e) /\ log[e] = "malformed" /\ GiveUp(w, e)
  /\ UNCHANGED <<pending, faults>>

\* record_and_evaluate and, for a reading it flags, the anomaly record.
DetectAnomalies(w) ==
  /\ pc[w] = "anomaly"
  /\ \E e \in batch[w] : AtHand(w, e) /\ flagged' \in {flagged, flagged \cup {e}}
  /\ Goto(w, "alerts")
  /\ UNCHANGED <<stream, cursor, pending, batch, ticks, evaluations, failed, faults>>

ApplyRules(w) ==
  /\ pc[w] = "alerts"
  /\ \E e \in batch[w] :
        AtHand(w, e) /\ evaluations' = [evaluations EXCEPT ![e] = @ + 1]
  /\ Goto(w, "ack")
  /\ UNCHANGED <<stream, cursor, pending, batch, ticks, flagged, failed, faults>>

Ack(w) ==
  /\ pc[w] = "ack"
  /\ \E e \in batch[w] : AtHand(w, e) /\ pending' = pending \ {e} /\ Advance(w, e)
  /\ UNCHANGED <<stream, cursor, effects, faults>>

\* Mutant: the handler tries the reading again.
HandlerAck_Retries(w) ==
  /\ pc[w] = "handler"
  /\ Goto(w, "tick")
  /\ UNCHANGED <<stream, cursor, pending, batch, effects, faults>>

HandlerAck(w) ==
  /\ pc[w] = "handler"
  /\ \E e \in batch[w] : AtHand(w, e) /\ pending' = pending \ {e} /\ Advance(w, e)
  /\ UNCHANGED <<stream, cursor, effects, faults>>

\* asyncio.sleep(1.0), then the loop again.
Wake(w) ==
  /\ pc[w] = "sleep"
  /\ Goto(w, "read")
  /\ UNCHANGED <<stream, cursor, pending, batch, effects, faults>>

-----------------------------------------------------------------------------
(***************************************************************************)
(* Failures.  A call whose effect took place and whose answer was lost is  *)
(* its step followed by a failure; where the step would already be at the  *)
(* next reading, the failure has the effect itself.                        *)
(***************************************************************************)

Fault == faults < MaxFaults /\ faults' = faults + 1

\* A call raises while a reading is handled.
RaiseInEntry(w) ==
  /\ Fault
  /\ pc[w] \in InEntry
  /\ \E e \in batch[w] :
        /\ AtHand(w, e) /\ GiveUp(w, e)
        /\ pending' \in IF pc[w] = "ack" THEN {pending, pending \ {e}} ELSE {pending}

\* The XACK of the handler raises: process_evaluation_entries is left.
RaiseInHandler(w) ==
  /\ Fault
  /\ pc[w] = "handler"
  /\ \E e \in batch[w] : AtHand(w, e) /\ pending' \in {pending, pending \ {e}}
  /\ batch' = [batch EXCEPT ![w] = {}]
  /\ Goto(w, "sleep")
  /\ UNCHANGED <<stream, cursor, effects>>

\* XREADGROUP raises, before or after Redis has delivered the entries.
RaiseInRead(w) ==
  /\ Fault
  /\ pc[w] = "read"
  /\ \/ Deliver(w, BatchSize, FALSE)
     \/ Goto(w, "sleep") /\ UNCHANGED <<cursor, pending, batch>>
  /\ UNCHANGED <<stream, effects>>

Crash(w) ==
  /\ Fault
  /\ pc[w] # "down"
  /\ Goto(w, "down")
  /\ batch' = [batch EXCEPT ![w] = {}]
  /\ UNCHANGED <<stream, cursor, pending, effects>>

\* A new process of the group, with a consumer name of its own.
Restart(w) ==
  /\ pc[w] = "down"
  /\ Goto(w, "read")
  /\ UNCHANGED <<stream, cursor, pending, batch, effects, faults>>

-----------------------------------------------------------------------------
WorkerStep(w) ==
  \/ Read(w) \/ IdleTurn(w) \/ Tick(w) \/ Unparseable(w) \/ DetectAnomalies(w) \/ ApplyRules(w)
  \/ Ack(w) \/ HandlerAck(w) \/ Wake(w)

Failure(w) ==
  RaiseInEntry(w) \/ RaiseInHandler(w) \/ RaiseInRead(w) \/ Crash(w) \/ Restart(w)

Next ==
  \/ \E k \in Kinds : Ingest(k)
  \/ \E w \in Workers : WorkerStep(w) \/ Failure(w)

Spec == Init /\ [][Next]_vars

\* A running worker takes its next step.  Nobody has to restart a dead one.
FairSpec == Spec /\ \A w \in Workers : WF_vars(WorkerStep(w))

-----------------------------------------------------------------------------
Settled(e) == e \in 1..cursor /\ e \notin pending

InHand(e) == \E w \in Workers : e \in batch[w]

\* Delivered, not acknowledged, and in nobody's hands: nobody will look at it again.
Abandoned == {e \in pending : ~InHand(e)}

(* No reading is published or judged by the alert rules twice, and none is *)
(* judged that was not published, however workers share the stream and     *)
(* wherever a call raises, before or after its effect.                     *)
AtMostOnce ==
  \A e \in 1..MaxEntries : evaluations[e] <= ticks[e] /\ ticks[e] <= 1

(* The group has no recovery: every failure costs the rest of a batch at   *)
(* most, and a reading that no failure touched is never left behind.       *)
AbandonedBounded == Cardinality(Abandoned) <= BatchSize * faults

(* An acknowledged reading was judged by the alert rules or given up by    *)
(* the exception handler, or the stream had trimmed it before its turn.    *)
SettledForAReason ==
  \A e \in Ids : Settled(e) => evaluations[e] > 0 \/ e \in failed \/ Trimmed(e)

\* Workers hold different readings, a batch each at most, and none between batches.
OwnBatch ==
  /\ \A v, w \in Workers : v # w => batch[v] \cap batch[w] = {}
  /\ \A w \in Workers :
        /\ IsFiniteSet(batch[w]) /\ Cardinality(batch[w]) <= BatchSize
        /\ pc[w] \in {"read", "sleep", "down"} => batch[w] = {}

\* What has happened to a reading in hand agrees with where its worker is.
InTurn ==
  /\ \A e \in 1..MaxEntries : e > cursor => ticks[e] = 0
  /\ \A w \in Workers : \A e \in batch[w] :
        /\ ticks[e] > 0 => AtHand(w, e) /\ pc[w] # "tick"
        /\ evaluations[e] > 0 => pc[w] \in {"ack", "handler"}
        /\ AtHand(w, e) /\ pc[w] \in {"anomaly", "alerts", "ack"} => ticks[e] = 1
        /\ AtHand(w, e) /\ pc[w] = "ack" => evaluations[e] = 1
        /\ AtHand(w, e) /\ pc[w] = "handler" => e \in failed

(* The invariant that the proofs induct over.                              *)
HandledOnce ==
  /\ OwnBatch
  /\ InTurn
  /\ AtMostOnce
  /\ AbandonedBounded
  /\ SettledForAReason

(* Every reading is acknowledged, trimmed or abandoned in the end: workers *)
(* never stop over a reading that cannot be handled.                       *)
EveryReadingEnds ==
  \A e \in 1..MaxEntries :
     e \in Ids ~> (Settled(e) \/ Trimmed(e) \/ e \in Abandoned)
=============================================================================
