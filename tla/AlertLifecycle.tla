---------------------------- MODULE AlertLifecycle ----------------------------
(***************************************************************************)
(* The life of the alerts of one device and one alert rule:                *)
(*                                                                         *)
(*   app/services/alert_service.py    an evaluator raises an alert when a  *)
(*                                    reading breaches the rule, resolves  *)
(*                                    it when a reading no longer does     *)
(*   app/workers/anomaly_consumer.py  the evaluator workers                *)
(*   app/api/v1/alerts.py             operators acknowledge and resolve    *)
(*   app/api/v1/alert_rules.py        a manager creates the rule           *)
(*                                                                         *)
(* Rules share nothing: the Redis key alert:active:<device>:<rule> and the *)
(* rows of `alerts' are per rule.  An exception while a worker handles one *)
(* rule of a reading ends the reading for the rules behind it: for those   *)
(* that is Abort at "check".                                               *)
(*                                                                         *)
(* One action is what a process does between two awaits.                   *)
(***************************************************************************)
EXTENDS Integers, Sequences, FiniteSets

CONSTANTS
  Workers,      \* evaluator processes of the group cg:rules:evaluator
  Users,        \* operators with a request in flight
  MaxFlips,     \* bound on changes of what the device measures
  MaxAborts,    \* bound on exceptions and crashes of workers
  MaxExpiries   \* bound on keys that outlive ex=86400

ASSUME BoundsAreNaturals ==
  MaxFlips \in Nat /\ MaxAborts \in Nat /\ MaxExpiries \in Nat

Statuses == {"ACTIVE", "ACKNOWLEDGED", "RESOLVED"}
Metrics == {"normal", "breach", "none"}

(***************************************************************************)
(* Where a worker awaits: "idle" for a reading, "rules" for GET of the     *)
(* device's cached rules, "select" for the SELECT of the enabled ones,     *)
(* "cacheRule" and "cacheNone" for SET of the list, with this rule or      *)
(* without it; "check" for GET of the active key, "insert" for the COMMIT  *)
(* of a new row, "set" for SET of the key, "triggered" for PUBLISH; "load" *)
(* for the SELECT of the row the key names, "resolve" for the COMMIT of    *)
(* its resolution, "delete" for DEL of the key, "resolved" for PUBLISH.    *)
(***************************************************************************)
Points == {"idle", "rules", "select", "cacheRule", "cacheNone", "check",
           "insert", "set", "triggered",
           "load", "resolve", "delete", "resolved"}

VARIABLES
  metric,     \* the rule's metric in the device's readings: "normal", "breach" or "none" of it
  rule,       \* "absent" until it is created; the API has no way to disable it
  cachedRules,\* the list in cache:rules:<device>: "missing", "none" without the rule, "rule"
  alerts,     \* rows of the table, by alert id: their status
  activeKey,  \* the alert id in the active key, 0 when the key is absent
  pc,         \* where each worker awaits
  reading,    \* the rule's metric in the reading each worker evaluates, "none" when idle
  held,       \* the alert id in each worker's hands
  request,    \* the request of each operator: loaded row, its status then, new status
  published,  \* events published to the site's channel
  flips, aborts, expiries

judged == <<metric, rule, cachedRules>>
store  == <<alerts, activeKey>>
worker == <<pc, reading, held>>
bounds == <<flips, aborts, expiries>>
vars   == <<judged, store, worker, request, published, bounds>>

Ids == 1..Len(alerts)

NoRequest == [id |-> 0, loaded |-> "RESOLVED", target |-> "RESOLVED"]
Requests == [id : Nat, loaded : Statuses, target : {"ACKNOWLEDGED", "RESOLVED"}]
Events == [event : {"alert.triggered", "alert.resolved"}, id : Nat]

TypeOK ==
  /\ metric \in Metrics
  /\ rule \in {"absent", "enabled"}
  /\ cachedRules \in {"missing", "none", "rule"}
  /\ alerts \in Seq(Statuses)
  /\ activeKey \in Nat
  /\ pc \in [Workers -> Points]
  /\ reading \in [Workers -> Metrics]
  /\ held \in [Workers -> Nat]
  /\ request \in [Users -> Requests]
  /\ published \subseteq Events
  /\ flips \in 0..MaxFlips /\ aborts \in 0..MaxAborts /\ expiries \in 0..MaxExpiries

Init ==
  /\ metric \in Metrics
  /\ rule = "absent" /\ cachedRules = "missing"
  /\ alerts = <<>> /\ activeKey = 0
  /\ pc = [w \in Workers |-> "idle"]
  /\ reading = [w \in Workers |-> "none"]
  /\ held = [w \in Workers |-> 0]
  /\ request = [u \in Users |-> NoRequest]
  /\ published = {}
  /\ flips = 0 /\ aborts = 0 /\ expiries = 0

-----------------------------------------------------------------------------
(***************************************************************************)
(* The environment: the device, the clock of Redis, failures.              *)
(***************************************************************************)

Flip ==
  /\ flips < MaxFlips
  /\ flips' = flips + 1
  /\ metric' \in Metrics \ {metric}
  /\ UNCHANGED <<rule, cachedRules, store, worker, request, published, aborts, expiries>>

\* create_alert_rule: one INSERT.  The cache is left as it is.
CreateRule ==
  /\ rule = "absent"
  /\ rule' = "enabled"
  /\ UNCHANGED <<metric, cachedRules, store, worker, request, published, bounds>>

\* Mutant: the list is SET without ex=60.
ExpireRules_Never == FALSE /\ UNCHANGED vars

\* 60 s after SET ... EX 60.
ExpireRules ==
  /\ cachedRules # "missing"
  /\ cachedRules' = "missing"
  /\ UNCHANGED <<metric, rule, store, worker, request, published, bounds>>

\* 24 h after SET ... EX 86400.
ExpireKey ==
  /\ activeKey # 0
  /\ expiries < MaxExpiries
  /\ expiries' = expiries + 1
  /\ activeKey' = 0
  /\ UNCHANGED <<judged, alerts, worker, request, published, flips, aborts>>

-----------------------------------------------------------------------------
(***************************************************************************)
(* AlertService.process_reading_alerts                                     *)
(***************************************************************************)

Goto(w, point) == pc' = [pc EXCEPT ![w] = point] /\ UNCHANGED reading

EndReading(w) ==
  /\ pc' = [pc EXCEPT ![w] = "idle"]
  /\ reading' = [reading EXCEPT ![w] = "none"]
  /\ held' = [held EXCEPT ![w] = 0]

(* A call raises and process_evaluation_entries acknowledges the reading   *)
(* all the same, or the process dies with it: what was done stays done.    *)
Abort(w) ==
  /\ pc[w] # "idle"
  /\ aborts < MaxAborts
  /\ aborts' = aborts + 1
  /\ EndReading(w)
  /\ UNCHANGED <<judged, store, request, published, flips, expiries>>

\* The next reading of the device reaches the worker, with the metric of the moment.
Receive(w) ==
  /\ pc[w] = "idle"
  /\ pc' = [pc EXCEPT ![w] = "rules"]
  /\ reading' = [reading EXCEPT ![w] = metric]
  /\ UNCHANGED <<judged, store, held, request, published, bounds>>

\* A rule in the list is passed over when the reading lacks its metric.
Judge(w) ==
  IF reading[w] = "none" THEN EndReading(w) ELSE Goto(w, "check") /\ UNCHANGED held

\* A cached list is used as it is, an empty one too; a reading ends without its rule.
GetRules(w) ==
  /\ pc[w] = "rules"
  /\ \/ cachedRules = "missing" /\ Goto(w, "select") /\ UNCHANGED held
     \/ cachedRules = "none" /\ EndReading(w)
     \/ cachedRules = "rule" /\ Judge(w)
  /\ UNCHANGED <<judged, store, request, published, bounds>>

SelectRules(w) ==
  /\ pc[w] = "select"
  /\ Goto(w, IF rule = "enabled" THEN "cacheRule" ELSE "cacheNone")
  /\ UNCHANGED <<judged, store, held, request, published, bounds>>

(* SET of the list that was selected before, whatever has been created     *)
(* since; the reading is judged by that list.                              *)
CacheRules(w) ==
  /\ pc[w] \in {"cacheRule", "cacheNone"}
  /\ cachedRules' = IF pc[w] = "cacheRule" THEN "rule" ELSE "none"
  /\ IF pc[w] = "cacheRule" THEN Judge(w) ELSE EndReading(w)
  /\ UNCHANGED <<metric, rule, store, request, published, bounds>>

\* Mutant: the key goes before the row is resolved.
Check_DeletesKey(w) ==
  /\ pc[w] = "check"
  /\ \/ /\ reading[w] = "breach" /\ activeKey = 0
        /\ Goto(w, "insert")
        /\ UNCHANGED <<held, activeKey>>
     \/ /\ reading[w] = "normal" /\ activeKey # 0
        /\ held' = [held EXCEPT ![w] = activeKey]
        /\ activeKey' = 0
        /\ Goto(w, "load")
     \/ /\ reading[w] = "breach" <=> activeKey # 0
        /\ EndReading(w)
        /\ UNCHANGED activeKey
  /\ UNCHANGED <<judged, alerts, request, published, bounds>>

\* Mutant: an alert that is ACTIVE in the table counts as raised, with or without its key.
Check_AsksTable(w) ==
  /\ pc[w] = "check"
  /\ \/ /\ reading[w] = "breach" /\ activeKey = 0
        /\ \A a \in Ids : alerts[a] # "ACTIVE"
        /\ Goto(w, "insert")
        /\ UNCHANGED held
     \/ /\ reading[w] = "normal" /\ activeKey # 0
        /\ held' = [held EXCEPT ![w] = activeKey]
        /\ Goto(w, "load")
     \/ /\ \/ reading[w] = "breach" <=> activeKey # 0
           \/ reading[w] = "breach" /\ \E a \in Ids : alerts[a] = "ACTIVE"
        /\ EndReading(w)
  /\ UNCHANGED <<judged, store, request, published, bounds>>

\* GET of the active key decides between raising, resolving and nothing to do.
Check(w) ==
  /\ pc[w] = "check"
  /\ \/ /\ reading[w] = "breach" /\ activeKey = 0
        /\ Goto(w, "insert")
        /\ UNCHANGED held
     \/ /\ reading[w] = "normal" /\ activeKey # 0
        /\ held' = [held EXCEPT ![w] = activeKey]
        /\ Goto(w, "load")
     \/ /\ reading[w] = "breach" <=> activeKey # 0
        /\ EndReading(w)
  /\ UNCHANGED <<judged, store, request, published, bounds>>

Insert(w) ==
  /\ pc[w] = "insert"
  /\ alerts' = Append(alerts, "ACTIVE")
  /\ held' = [held EXCEPT ![w] = Len(alerts) + 1]
  /\ Goto(w, "set")
  /\ UNCHANGED <<judged, activeKey, request, published, bounds>>

\* SET overwrites whatever the key holds by now.
SetKey(w) ==
  /\ pc[w] = "set"
  /\ activeKey' = held[w]
  /\ Goto(w, "triggered")
  /\ UNCHANGED <<judged, alerts, held, request, published, bounds>>

Publish(w, event) ==
  /\ published' = published \cup {[event |-> event, id |-> held[w]]}
  /\ EndReading(w)
  /\ UNCHANGED <<judged, store, request, bounds>>

PublishTriggered(w) == pc[w] = "triggered" /\ Publish(w, "alert.triggered")

\* Only a row that is ACTIVE when it is read will be resolved.
Load(w) ==
  /\ pc[w] = "load"
  /\ Goto(w, IF alerts[held[w]] = "ACTIVE" THEN "resolve" ELSE "delete")
  /\ UNCHANGED <<judged, store, held, request, published, bounds>>

\* Mutant: the session closes without a commit.
Resolve_NotCommitted(w) ==
  /\ pc[w] = "resolve"
  /\ Goto(w, "delete")
  /\ UNCHANGED <<judged, store, held, request, published, bounds>>

\* Mutant: a status that the readers of the table do not know.
Resolve_OtherStatus(w) ==
  /\ pc[w] = "resolve"
  /\ alerts' = [alerts EXCEPT ![held[w]] = "CLOSED"]
  /\ Goto(w, "delete")
  /\ UNCHANGED <<judged, activeKey, held, request, published, bounds>>

\* UPDATE by primary key: the row's status is not looked at again.
Resolve(w) ==
  /\ pc[w] = "resolve"
  /\ alerts' = [alerts EXCEPT ![held[w]] = "RESOLVED"]
  /\ Goto(w, "delete")
  /\ UNCHANGED <<judged, activeKey, held, request, published, bounds>>

\* DEL, whichever alert the key names by now.
DeleteKey(w) ==
  /\ pc[w] = "delete"
  /\ activeKey' = 0
  /\ Goto(w, "resolved")
  /\ UNCHANGED <<judged, alerts, held, request, published, bounds>>

PublishResolved(w) == pc[w] = "resolved" /\ Publish(w, "alert.resolved")

-----------------------------------------------------------------------------
(***************************************************************************)
(* acknowledge_alert and resolve_alert: SELECT, then UPDATE and COMMIT.    *)
(* No status is refused.  SQLAlchemy writes the status column only when    *)
(* the new value differs from the one that was loaded.                     *)
(***************************************************************************)

LoadAlert(u, target, id) ==
  /\ request[u] = NoRequest
  /\ request' = [request EXCEPT
                   ![u] = [id |-> id, loaded |-> alerts[id], target |-> target]]
  /\ UNCHANGED <<judged, store, worker, published, bounds>>

CommitAlert(u) ==
  /\ request[u] # NoRequest
  /\ alerts' = IF request[u].loaded = request[u].target
               THEN alerts
               ELSE [alerts EXCEPT ![request[u].id] = request[u].target]
  /\ request' = [request EXCEPT ![u] = NoRequest]
  /\ UNCHANGED <<judged, activeKey, worker, published, bounds>>

-----------------------------------------------------------------------------
WorkerStep(w) ==
  \/ Receive(w) \/ GetRules(w) \/ SelectRules(w) \/ CacheRules(w)
  \/ Check(w)
  \/ Insert(w) \/ SetKey(w) \/ PublishTriggered(w)
  \/ Load(w) \/ Resolve(w) \/ DeleteKey(w) \/ PublishResolved(w)

UserStep(u) ==
  \/ \E id \in Ids, target \in {"ACKNOWLEDGED", "RESOLVED"} : LoadAlert(u, target, id)
  \/ CommitAlert(u)

Next ==
  \/ Flip \/ CreateRule \/ ExpireRules \/ ExpireKey
  \/ \E w \in Workers : WorkerStep(w) \/ Abort(w)
  \/ \E u \in Users : UserStep(u)

Spec == Init /\ [][Next]_vars

(***************************************************************************)
(* A worker takes its next step: readings keep coming (the devices report  *)
(* periodically) and every call returns or raises.  Operators do as they   *)
(* please, but a request that has begun ends.  Redis expires the cache.    *)
(***************************************************************************)
FairSpec ==
  /\ Spec
  /\ \A w \in Workers : WF_vars(WorkerStep(w))
  /\ \A u \in Users : WF_vars(CommitAlert(u))
  /\ WF_vars(ExpireRules)

-----------------------------------------------------------------------------
(***************************************************************************)
(* With one evaluator, exceptions, crashes and expiring keys.              *)
(***************************************************************************)

Active(a) == alerts[a] = "ACTIVE"
ActiveAlerts == {a \in Ids : Active(a)}

\* ACTIVE alerts that the key does not name and that no worker is about to put there.
Orphans ==
  {a \in ActiveAlerts : a # activeKey /\ \A w \in Workers : pc[w] = "set" => held[w] # a}

(* A reading resolves only the alert that the key names, so an orphan      *)
(* stays until an operator ends it.  Readings, operators' requests and the *)
(* steps between row, key and events make none, however they interleave:   *)
(* each takes a failure of its own, between COMMIT and SET, or a key that  *)
(* expires.                                                                *)
OneOrphanPerFault == Cardinality(Orphans) <= aborts + expiries

(* What the worker holds agrees with the key and the rows at every await:  *)
(* it raises while there is no key, and resolves and deletes what the key  *)
(* names, or named until it expired.                                       *)
HeldAgrees ==
  \A w \in Workers :
     /\ pc[w] \in {"insert", "set"} => activeKey = 0
     /\ pc[w] \in {"load", "resolve", "delete"} =>
           held[w] # 0 /\ activeKey \in {0, held[w]}
     /\ pc[w] = "delete" => ~Active(held[w])

Deduplicated == OneOrphanPerFault /\ HeldAgrees

(* "Trigger Deduplicated Alerts": the rule has at most one ACTIVE alert.   *)
(* Deduplicated gives it to one evaluator as long as nothing has failed.   *)
AtMostOneActive == \A a, b \in ActiveAlerts : a = b

(* When the metric is back to normal for good, the key goes, one left on a *)
(* RESOLVED alert by a failure too, and no more alerts stay ACTIVE than    *)
(* failures and expiries have orphaned.                                    *)
ClearedAlertsEnd ==
  <>[](metric = "normal") =>
  <>[](activeKey = 0 /\ Cardinality(ActiveAlerts) <= aborts + expiries)

-----------------------------------------------------------------------------
(***************************************************************************)
(* With any number of evaluators, exceptions and expiring keys.            *)
(***************************************************************************)

(* The key never names an alert that is not committed, and subscribers     *)
(* hear only of committed alerts; whoever hears alert.resolved does not    *)
(* find the alert ACTIVE, now or later: it is RESOLVED, or an operator has *)
(* acknowledged it.                                                        *)
EventsAreTrue ==
  /\ activeKey # 0 => activeKey \in Ids
  /\ \A e \in published :
        /\ e.id \in Ids
        /\ e.event = "alert.resolved" => ~Active(e.id)

\* What processes hold between two awaits names a row, resolved where it must be.
HeldIsCommitted ==
  /\ \A w \in Workers :
        /\ pc[w] \in {"set", "triggered", "load", "resolve", "delete", "resolved"} =>
              held[w] \in Ids
        /\ pc[w] \in {"delete", "resolved"} => ~Active(held[w])
  /\ \A u \in Users : request[u] = NoRequest \/ request[u].id \in Ids

Announced == EventsAreTrue /\ HeldIsCommitted

Unresolved(a) == alerts[a] # "RESOLVED"

(* Neither the key nor a worker about to SET it names an alert that is     *)
(* over, and no reading from before the breach is still being evaluated.   *)
NoStaleKey ==
  /\ activeKey # 0 => Unresolved(activeKey)
  /\ \A w \in Workers :
        /\ reading[w] # "normal"
        /\ pc[w] = "set" => Unresolved(held[w])

\* The rule is breached and no operator is about to end its alert.
Breached ==
  /\ metric = "breach" /\ rule = "enabled"
  /\ \A u \in Users : request[u] # NoRequest => request[u].target # "RESOLVED"

(* A breach that lasts has an alert in the end that is not resolved and    *)
(* that the key names, the second breach like the first, whatever fails or *)
(* expires meanwhile, and even if cached lists did not know the rule.  It  *)
(* is so for a breach that does not begin with a stale key: a failure      *)
(* between the COMMIT of RESOLVED and the DEL, or an operator who resolves *)
(* during the breach, leaves the key on an alert that is over, and then    *)
(* nothing is raised until the key has gone (by a normal reading, or after *)
(* 24 h).                                                                  *)
LastingBreachIsAlerted ==
  NoStaleKey /\ []Breached ~> [](activeKey # 0 /\ Unresolved(activeKey))

(* Once a rule is created, there is a time from which no list without it   *)
(* is in the cache or about to be put there: a fill that selected before   *)
(* the INSERT can postpone that time, and cannot put it off for ever.      *)
RuleTakesEffect ==
  rule = "enabled" ~>
    [](cachedRules # "none" /\ \A w \in Workers : pc[w] # "cacheNone")
=============================================================================
