---------------------------- MODULE EvaluatorWindow ----------------------------
(***************************************************************************)
(* The evaluators of EvaluatorGroup with the verdict of AnomalyWindow: the *)
(* window of one device and metric in Redis, which the workers fill in the *)
(* order in which they happen to come to their readings.  The windows of   *)
(* other metrics and devices are separate keys.                            *)
(***************************************************************************)
EXTENDS EvaluatorGroup, AnomalyWindow

CONSTANT Samples   \* the observation that each reading carries, by id

ASSUME SamplesAreTimed ==
  /\ Samples \in [1..MaxEntries -> [at : Nat, value : Int]]
  /\ \A d, e \in 1..MaxEntries : Samples[d].at = Samples[e].at => Samples[d] = Samples[e]

VARIABLES
  window,   \* zset:device:<id>:<metric>
  recorded  \* every observation added since the key was created

wvars == <<vars, window, recorded>>

WInit == Init /\ window = {} /\ recorded = {}

-----------------------------------------------------------------------------
Observe(e) ==
  /\ window' = Record(window, Samples[e])
  /\ recorded' = recorded \cup {Samples[e]}

(* record_and_evaluate returns the verdict on the window with the reading  *)
(* in it, unless it is too old to stay; the COMMIT of a record follows.    *)
Evaluate(w) ==
  /\ DetectAnomalies(w)
  /\ \E e \in batch[w] :
        /\ AtHand(w, e)
        /\ Observe(e)
        /\ flagged' = IF Outlier(Samples[e].value, window') THEN flagged \cup {e} ELSE flagged

(* A call raises or the worker dies between the transaction on the window  *)
(* and the COMMIT of the record, or the answer of the transaction is lost. *)
LoseVerdict(w) ==
  /\ pc[w] = "anomaly"
  /\ \E e \in batch[w] : AtHand(w, e) /\ Observe(e)
  /\ RaiseInEntry(w) \/ Crash(w)

\* 24 h without an observation of the device.
ExpireWindow ==
  /\ window # {}
  /\ window' = {} /\ recorded' = {}
  /\ UNCHANGED vars

-----------------------------------------------------------------------------
OtherStep(w) ==
  \/ Read(w) \/ IdleTurn(w) \/ Tick(w) \/ Unparseable(w) \/ ApplyRules(w)
  \/ Ack(w) \/ HandlerAck(w) \/ Wake(w)

WWorkerStep(w) == Evaluate(w) \/ (OtherStep(w) /\ UNCHANGED <<window, recorded>>)

WNext ==
  \/ \E k \in Kinds : Ingest(k) /\ UNCHANGED <<window, recorded>>
  \/ \E w \in Workers :
        \/ WWorkerStep(w)
        \/ LoseVerdict(w)
        \/ Failure(w) /\ UNCHANGED <<window, recorded>>
  \/ ExpireWindow

WSpec == WInit /\ [][WNext]_wvars /\ \A w \in Workers : WF_wvars(WWorkerStep(w))

-----------------------------------------------------------------------------
(* Workers bring observations out of order, twice after a lost answer, and *)
(* late; each trims the set for itself.  The window still is what one      *)
(* worker in the order of time would have left: the latest observations of *)
(* all that were recorded.                                                 *)
WindowIsLatest == window = Latest(recorded, WindowSize)

(* A judged value is part of its own window while the window fills up, and *)
(* of the fewest samples that are judged at all none can stand out: no     *)
(* reading is flagged before more than MinSamples have been recorded, in   *)
(* whatever order they come and whatever their values.                     *)
NoVerdictAtMinimum ==
  [][flagged' # flagged => Cardinality(recorded') > MinSamples]_wvars
=============================================================================
