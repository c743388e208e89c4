--------------------------- MODULE ReadingDelivery ---------------------------
(***************************************************************************)
(* What the ingest pipeline promises about the readings it answered with   *)
(* 202 ACCEPTED, without streams, groups or workers: an accepted reading   *)
(* is stored once or stays on its way to the table, and it is lost only    *)
(* when it cannot be parsed or when MaxLen newer readings were accepted    *)
(* (REDIS_STREAM_MAXLEN is the only retention limit).                      *)
(***************************************************************************)
EXTENDS Integers, Sequences

CONSTANTS Kinds, MaxLen

VARIABLES
  accepted,  \* the readings accepted so far, by what is known of each
  stored,    \* those that have a row
  lost       \* those that will never have one

vars == <<accepted, stored, lost>>

Open == 1..Len(accepted) \ (stored \cup lost)

\* A reading may be given up only for one of these reasons.
MayLose(readings, e) == readings[e] = "malformed" \/ e <= Len(readings) - MaxLen

Init == accepted = <<>> /\ stored = {} /\ lost = {}

\* Accepting a reading may push old ones over the retention limit.
Accept(k) ==
  /\ accepted' = Append(accepted, k)
  /\ \E S \in SUBSET Open :
        /\ \A e \in S : MayLose(accepted', e)
        /\ lost' = lost \cup S
  /\ UNCHANGED stored

\* Readings are stored together or not at all, each once.
Store ==
  /\ \E S \in SUBSET Open :
        /\ \A e \in S : accepted[e] = "good"
        /\ stored' = stored \cup S
  /\ UNCHANGED <<accepted, lost>>

Lose ==
  /\ \E S \in SUBSET Open :
        /\ \A e \in S : MayLose(accepted, e)
        /\ lost' = lost \cup S
  /\ UNCHANGED <<accepted, stored>>

Next == Store \/ Lose \/ \E k \in Kinds : Accept(k)

Spec == Init /\ [][Next]_vars
=============================================================================
