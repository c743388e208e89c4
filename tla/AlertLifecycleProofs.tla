------------------------- MODULE AlertLifecycleProofs -------------------------
(***************************************************************************)
(* AlertLifecycle for every set of operators, every number of alerts and,  *)
(* where the code is safe with them, every number of workers and faults.   *)
(***************************************************************************)
EXTENDS AlertLifecycle, SequenceTheorems, FiniteSetTheorems, TLAPS

USE BoundsAreNaturals
    DEF BoundsAreNaturals, Ids, Statuses, Metrics, Points, Requests, Events, NoRequest,
        judged, store, worker, bounds

\* Updating one row leaves the others and their number alone.
LEMMA UpdateRow ==
  ASSUME NEW rows \in Seq(Statuses), NEW id, NEW status \in Statuses
  PROVE  /\ [rows EXCEPT ![id] = status] \in Seq(Statuses)
         /\ Len([rows EXCEPT ![id] = status]) = Len(rows)
         /\ \A a \in 1..Len(rows) :
               [rows EXCEPT ![id] = status][a] = IF a = id THEN status ELSE rows[a]
<1> HIDE DEF Statuses
<1>1. CASE id \in 1..Len(rows)
  BY <1>1, ExceptSeq
<1>2. CASE id \notin 1..Len(rows)
  <2>1. [rows EXCEPT ![id] = status] = rows
    BY <1>2
  <2>2. QED
    BY <1>2, <2>1
<1>3. QED
  BY <1>1, <1>2

\* PUBLISH adds an event of the two kinds and frees the worker.
LEMMA PublishTypes ==
  ASSUME TypeOK, NEW w \in Workers,
         NEW event \in {"alert.triggered", "alert.resolved"}, Publish(w, event)
  PROVE  TypeOK'
<1>1. published' \subseteq Events
  BY DEF Publish, TypeOK
<1>2. /\ pc' \in [Workers -> Points]
      /\ held' \in [Workers -> Nat]
      /\ reading' \in [Workers -> Metrics]
  BY DEF Publish, TypeOK, EndReading
<1>3. QED
  BY <1>1, <1>2 DEF Publish, TypeOK

\* With the list in hand a worker goes on with its reading or ends it.
LEMMA RulesStep ==
  ASSUME NEW w \in Workers, GetRules(w) \/ CacheRules(w)
  PROVE  /\ \/ Goto(w, "select") /\ UNCHANGED held
            \/ Goto(w, "check") /\ UNCHANGED held
            \/ EndReading(w)
         /\ cachedRules' \in {cachedRules, "rule", "none"}
         /\ UNCHANGED <<metric, rule, store, request, published, bounds>>
<1>1. CASE GetRules(w)
  BY <1>1 DEF GetRules, Judge
<1>2. CASE CacheRules(w)
  BY <1>2 DEF CacheRules, Judge
<1>3. QED
  BY <1>1, <1>2

\* A worker that goes on with a reading, or ends it, keeps the types of what it holds.
LEMMA MoveTypes ==
  ASSUME TypeOK, NEW w \in Workers, NEW p \in Points, NEW id \in Nat,
         \/ Goto(w, p) /\ (held' = held \/ held' = [held EXCEPT ![w] = id])
         \/ EndReading(w)
  PROVE  /\ pc' \in [Workers -> Points]
         /\ held' \in [Workers -> Nat]
         /\ reading' \in [Workers -> Metrics]
<1>1. /\ pc \in [Workers -> Points]
      /\ held \in [Workers -> Nat]
      /\ reading \in [Workers -> Metrics]
  BY DEF TypeOK
<1>2. CASE Goto(w, p) /\ (held' = held \/ held' = [held EXCEPT ![w] = id])
  BY <1>1, <1>2 DEF Goto
<1>3. CASE EndReading(w)
  BY <1>1, <1>3 DEF EndReading
<1>4. QED
  BY <1>2, <1>3

\* The steps that decide by the list and by the key keep the types.
LEMMA DecisionTypes ==
  ASSUME TypeOK, NEW w \in Workers, GetRules(w) \/ CacheRules(w) \/ Check(w)
  PROVE  TypeOK'
<1>1. activeKey \in Nat
  BY DEF TypeOK
<1>2. CASE GetRules(w) \/ CacheRules(w)
  <2>1. /\ pc' \in [Workers -> Points]
        /\ held' \in [Workers -> Nat]
        /\ reading' \in [Workers -> Metrics]
    BY <1>1, <1>2, RulesStep, MoveTypes
  <2>2. QED
    BY <1>2, <2>1, RulesStep DEF TypeOK
<1>3. CASE Check(w)
  <2>1. \/ Goto(w, "insert") /\ held' = held
        \/ Goto(w, "load") /\ held' = [held EXCEPT ![w] = activeKey]
        \/ EndReading(w)
    BY <1>3 DEF Check
  <2>2. /\ pc' \in [Workers -> Points]
        /\ held' \in [Workers -> Nat]
        /\ reading' \in [Workers -> Metrics]
    BY <1>1, <2>1, MoveTypes
  <2>3. QED
    BY <1>3, <2>2 DEF Check, TypeOK
<1>4. QED
  BY <1>2, <1>3

\* Variables keep their types under every interleaving.
THEOREM TypeCorrect == Spec => []TypeOK
<1>1. Init => TypeOK
  <2> SUFFICES ASSUME Init PROVE TypeOK
    OBVIOUS
  <2>1. alerts \in Seq(Statuses)
    BY DEF Init
  <2>2. request \in [Users -> Requests]
    BY DEF Init
  <2>3. QED
    BY <2>1, <2>2 DEF Init, TypeOK
<1>2. TypeOK /\ [Next]_vars => TypeOK'
  <2> SUFFICES ASSUME TypeOK, [Next]_vars PROVE TypeOK'
    OBVIOUS
  <2> USE DEF TypeOK, Goto, EndReading
  <2>1. CASE Flip
    BY <2>1 DEF Flip
  <2>2. CASE ExpireKey
    BY <2>2 DEF ExpireKey
  <2>3. ASSUME NEW w \in Workers, Abort(w) PROVE TypeOK'
    BY <2>3 DEF Abort
  <2>4. ASSUME NEW w \in Workers, Receive(w) PROVE TypeOK'
    BY <2>4 DEF Receive
  <2>4a. CASE CreateRule
    BY <2>4a DEF CreateRule
  <2>4b. CASE ExpireRules
    BY <2>4b DEF ExpireRules
  <2>4c. ASSUME NEW w \in Workers, SelectRules(w) PROVE TypeOK'
    BY <2>4c DEF SelectRules
  <2>5. ASSUME NEW w \in Workers, GetRules(w) \/ CacheRules(w) \/ Check(w) PROVE TypeOK'
    <3> HIDE DEF TypeOK, Goto, EndReading
    <3>1. QED
      BY <2>5, DecisionTypes
  <2>6. ASSUME NEW w \in Workers, Insert(w) PROVE TypeOK'
    BY <2>6 DEF Insert
  <2>7. ASSUME NEW w \in Workers, SetKey(w) PROVE TypeOK'
    BY <2>7 DEF SetKey
  <2>8. ASSUME NEW w \in Workers, PublishTriggered(w) PROVE TypeOK'
    BY <2>8, PublishTypes DEF PublishTriggered
  <2>9. ASSUME NEW w \in Workers, Load(w) PROVE TypeOK'
    BY <2>9 DEF Load
  <2>10. ASSUME NEW w \in Workers, Resolve(w) PROVE TypeOK'
    <3>1. alerts' \in Seq(Statuses)
      BY <2>10, UpdateRow DEF Resolve
    <3>2. QED
      BY <2>10, <3>1 DEF Resolve
  <2>11. ASSUME NEW w \in Workers, DeleteKey(w) PROVE TypeOK'
    BY <2>11 DEF DeleteKey
  <2>12. ASSUME NEW w \in Workers, PublishResolved(w) PROVE TypeOK'
    BY <2>12, PublishTypes DEF PublishResolved
  <2>13. ASSUME NEW u \in Users, NEW id \in Ids,
                NEW target \in {"ACKNOWLEDGED", "RESOLVED"}, LoadAlert(u, target, id)
         PROVE TypeOK'
    <3>1. alerts[id] \in Statuses
      OBVIOUS
    <3>2. [id |-> id, loaded |-> alerts[id], target |-> target] \in Requests
      BY <3>1
    <3>3. request' \in [Users -> Requests]
      BY <2>13, <3>2 DEF LoadAlert
    <3>4. QED
      BY <2>13, <3>3 DEF LoadAlert
  <2>14. ASSUME NEW u \in Users, CommitAlert(u) PROVE TypeOK'
    <3>1. request[u].target \in Statuses
      OBVIOUS
    <3>2. alerts' \in Seq(Statuses)
      BY <2>14, <3>1, UpdateRow DEF CommitAlert
    <3>3. request' \in [Users -> Requests]
      BY <2>14 DEF CommitAlert
    <3>4. QED
      BY <2>14, <3>2, <3>3 DEF CommitAlert
  <2>15. CASE UNCHANGED vars
    BY <2>15 DEF vars
  <2>. HIDE DEF TypeOK, Goto, EndReading, judged, store, worker, bounds
  <2>16. QED
    BY <2>1, <2>2, <2>3, <2>4, <2>4a, <2>4b, <2>4c, <2>5, <2>6, <2>7, <2>8, <2>9, <2>10, <2>11, <2>12,
       <2>13, <2>14, <2>15 DEF Next, WorkerStep, UserStep
<1>3. QED
  BY <1>1, <1>2, PTL DEF Spec

-----------------------------------------------------------------------------
(***************************************************************************)
(* Any number of workers, exceptions and expiring keys.                    *)
(***************************************************************************)

\* Rows stay, and nothing makes an alert ACTIVE again.
RowsOnlyAdvance ==
  \A a \in Ids : a \in Ids' /\ (~Active(a) => ~Active(a)')

\* Rows are never deleted, and an alert that has ended never becomes ACTIVE again.
LEMMA NextAdvances ==
  ASSUME TypeOK, [Next]_vars PROVE RowsOnlyAdvance
<1> USE DEF RowsOnlyAdvance, Active
<1>1. ASSUME NEW w \in Workers, Insert(w) PROVE RowsOnlyAdvance
  BY <1>1 DEF Insert, TypeOK
<1>2. ASSUME NEW w \in Workers, Resolve(w) PROVE RowsOnlyAdvance
  <2>1. alerts' = [alerts EXCEPT ![held[w]] = "RESOLVED"]
    BY <1>2 DEF Resolve
  <2>2. /\ Len(alerts') = Len(alerts)
        /\ \A a \in 1..Len(alerts) :
              alerts'[a] = IF a = held[w] THEN "RESOLVED" ELSE alerts[a]
    BY <2>1, UpdateRow DEF TypeOK
  <2>3. QED
    BY <2>2
<1>3. ASSUME NEW u \in Users, CommitAlert(u) PROVE RowsOnlyAdvance
  <2> DEFINE r == request[u]
  <2>1. r.target \in {"ACKNOWLEDGED", "RESOLVED"}
    BY DEF TypeOK
  <2>2. CASE alerts' = alerts
    BY <2>2
  <2>3. CASE alerts' = [alerts EXCEPT ![r.id] = r.target]
    <3>1. /\ Len(alerts') = Len(alerts)
          /\ \A a \in 1..Len(alerts) :
                alerts'[a] = IF a = r.id THEN r.target ELSE alerts[a]
      BY <2>1, <2>3, UpdateRow DEF TypeOK
    <3>2. QED
      BY <2>1, <3>1
  <2>4. QED
    BY <1>3, <2>2, <2>3 DEF CommitAlert
<1>4. CASE UNCHANGED alerts
  BY <1>4
<1>5. QED
  BY <1>1, <1>2, <1>3, <1>4 DEF Next, WorkerStep, UserStep, Flip, CreateRule, ExpireRules,
     ExpireKey, Abort, Receive, GetRules, SelectRules, CacheRules, Check, SetKey, PublishTriggered, PublishResolved, Publish, Load,
     DeleteKey, LoadAlert, vars

\* A worker publishes only what it has committed or found ended before.
LEMMA NextAnnounced ==
  ASSUME TypeOK, Announced, [Next]_vars PROVE Announced'
<1> USE DEF Announced, EventsAreTrue, HeldIsCommitted, TypeOK, Goto, EndReading
<1>0. RowsOnlyAdvance
  BY NextAdvances
<1>a. ASSUME UNCHANGED <<activeKey, pc, held, request, published>> PROVE Announced'
  BY <1>0, <1>a DEF RowsOnlyAdvance, Active
<1>1. CASE Flip
  BY <1>1, <1>a DEF Flip
<1>1a. CASE CreateRule \/ ExpireRules
  BY <1>1a, <1>a DEF CreateRule, ExpireRules
<1>2. CASE ExpireKey
  BY <1>0, <1>2 DEF ExpireKey, RowsOnlyAdvance, Active
<1>3. ASSUME NEW w \in Workers, Abort(w) PROVE Announced'
  BY <1>0, <1>3 DEF Abort, RowsOnlyAdvance, Active
<1>4. ASSUME NEW w \in Workers,
             Receive(w) \/ GetRules(w) \/ SelectRules(w) \/ CacheRules(w)
      PROVE  Announced'
  <2>1. PICK p \in {"idle", "rules", "select", "cacheRule", "cacheNone", "check"} :
           pc' = [pc EXCEPT ![w] = p]
    BY <1>4 DEF Receive, GetRules, SelectRules, CacheRules, Judge
  <2>2. /\ UNCHANGED <<alerts, activeKey, request, published>>
        /\ held' = held \/ held' = [held EXCEPT ![w] = 0]
    BY <1>4 DEF Receive, GetRules, SelectRules, CacheRules, Judge
  <2>3. QED
    BY <2>1, <2>2 DEF Active
<1>5. ASSUME NEW w \in Workers, Check(w) PROVE Announced'
  BY <1>0, <1>5 DEF Check, RowsOnlyAdvance, Active
<1>6. ASSUME NEW w \in Workers, Insert(w) PROVE Announced'
  BY <1>0, <1>6 DEF Insert, RowsOnlyAdvance, Active
<1>7. ASSUME NEW w \in Workers, SetKey(w) PROVE Announced'
  BY <1>0, <1>7 DEF SetKey, RowsOnlyAdvance, Active
<1>8. ASSUME NEW w \in Workers, PublishTriggered(w) \/ PublishResolved(w) PROVE Announced'
  <2>1. PICK event : /\ published' = published \cup {[event |-> event, id |-> held[w]]}
                     /\ event = "alert.resolved" => pc[w] = "resolved"
                     /\ event = "alert.triggered" => pc[w] = "triggered"
                     /\ event \in {"alert.resolved", "alert.triggered"}
    BY <1>8 DEF PublishTriggered, PublishResolved, Publish
  <2>2. /\ UNCHANGED <<alerts, activeKey, request>>
        /\ pc' = [pc EXCEPT ![w] = "idle"]
        /\ held' = [held EXCEPT ![w] = 0]
    BY <1>8 DEF PublishTriggered, PublishResolved, Publish
  <2>3. held[w] \in Ids /\ (event = "alert.resolved" => ~Active(held[w]))
    BY <2>1
  <2>4. EventsAreTrue'
    BY <2>1, <2>2, <2>3 DEF Active
  <2>5. HeldIsCommitted'
    BY <2>2 DEF Active
  <2>6. QED
    BY <2>4, <2>5
<1>9. ASSUME NEW w \in Workers, Load(w) PROVE Announced'
  BY <1>0, <1>9 DEF Load, RowsOnlyAdvance, Active
<1>10. ASSUME NEW w \in Workers, Resolve(w) PROVE Announced'
  <2>1. /\ held[w] \in Ids
        /\ pc' = [pc EXCEPT ![w] = "delete"]
        /\ alerts' = [alerts EXCEPT ![held[w]] = "RESOLVED"]
        /\ UNCHANGED <<activeKey, held, request, published>>
    BY <1>10 DEF Resolve
  <2>2. ~Active(held[w])'
    BY <2>1, UpdateRow DEF Active
  <2>3. EventsAreTrue'
    BY <1>0, <2>1 DEF RowsOnlyAdvance
  <2>4. HeldIsCommitted'
    BY <1>0, <2>1, <2>2 DEF RowsOnlyAdvance, Active
  <2>5. QED
    BY <2>3, <2>4
<1>11. ASSUME NEW w \in Workers, DeleteKey(w) PROVE Announced'
  BY <1>0, <1>11 DEF DeleteKey, RowsOnlyAdvance, Active
<1>12. ASSUME NEW u \in Users, UserStep(u) PROVE Announced'
  <2>1. UNCHANGED <<activeKey, pc, held, published>>
    BY <1>12 DEF UserStep, LoadAlert, CommitAlert
  <2>2. \A v \in Users : request'[v] = NoRequest \/ request'[v].id \in Ids
    <3>1. CASE CommitAlert(u)
      BY <3>1 DEF CommitAlert
    <3>2. ASSUME NEW id \in Ids, NEW target \in {"ACKNOWLEDGED", "RESOLVED"},
                 LoadAlert(u, target, id)
          PROVE  \A v \in Users : request'[v] = NoRequest \/ request'[v].id \in Ids
      BY <3>2 DEF LoadAlert
    <3>3. QED
      BY <1>12, <3>1, <3>2 DEF UserStep
  <2>3. QED
    BY <1>0, <2>1, <2>2 DEF RowsOnlyAdvance, Active
<1>13. CASE UNCHANGED vars
  BY <1>13, <1>a DEF vars
<1>14. QED
  BY <1>1, <1>1a, <1>2, <1>3, <1>4, <1>5, <1>6, <1>7, <1>8, <1>9, <1>10, <1>11,
     <1>12, <1>13
     DEF Next, WorkerStep

\* The inductive invariant: what is published and what is held names committed
\* alerts, ended ones where alert.resolved is said or about to be said.
THEOREM AnnouncedAlways == Spec => []Announced
<1>1. Init => Announced
  BY DEF Init, Announced, EventsAreTrue, HeldIsCommitted
<1>2. TypeOK /\ Announced /\ [Next]_vars => Announced'
  BY NextAnnounced
<1>3. QED
  BY <1>1, <1>2, TypeCorrect, PTL DEF Spec

\* With any number of workers, exceptions and expiries, the key and the events
\* name committed alerts, and alert.resolved is never said of an ACTIVE one.
THEOREM EventsAreTrueAlways == Spec => []EventsAreTrue
<1>1. Announced => EventsAreTrue
  BY DEF Announced
<1>2. QED
  BY <1>1, AnnouncedAlways, PTL

-----------------------------------------------------------------------------
(***************************************************************************)
(* One evaluator, with operators, exceptions, crashes and expiring keys.   *)
(***************************************************************************)

OneEvaluator == \A v, w \in Workers : v = w

\* Orphans are rows, so there are finitely many.
LEMMA OrphansAreFinite ==
  ASSUME TypeOK
  PROVE  IsFiniteSet(Orphans) /\ Cardinality(Orphans) \in Nat
<1>1. Orphans \subseteq 1..Len(alerts)
  BY DEF Orphans, ActiveAlerts
<1>2. IsFiniteSet(1..Len(alerts))
  BY FS_Interval DEF TypeOK
<1>3. QED
  BY <1>1, <1>2, FS_Subset, FS_CardinalityType

\* A step that makes no orphan keeps the bound.
LEMMA NoNewOrphan ==
  ASSUME TypeOK, OneOrphanPerFault, Orphans' \subseteq Orphans,
         UNCHANGED <<aborts, expiries>>
  PROVE  OneOrphanPerFault'
<1>1. Cardinality(Orphans') <= Cardinality(Orphans) /\ Cardinality(Orphans') \in Nat
  BY OrphansAreFinite, FS_Subset, FS_CardinalityType
<1>2. aborts \in Nat /\ expiries \in Nat /\ Cardinality(Orphans) \in Nat
  BY OrphansAreFinite DEF TypeOK
<1>3. QED
  BY <1>1, <1>2 DEF OneOrphanPerFault

\* A fault may make one orphan.
LEMMA OneNewOrphan ==
  ASSUME TypeOK, OneOrphanPerFault, NEW a, Orphans' \subseteq Orphans \cup {a},
         aborts' + expiries' = aborts + expiries + 1
  PROVE  OneOrphanPerFault'
<1>1. /\ IsFiniteSet(Orphans \cup {a})
      /\ \/ Cardinality(Orphans \cup {a}) = Cardinality(Orphans)
         \/ Cardinality(Orphans \cup {a}) = Cardinality(Orphans) + 1
  BY OrphansAreFinite, FS_AddElement
<1>2. Cardinality(Orphans') <= Cardinality(Orphans \cup {a}) /\ Cardinality(Orphans') \in Nat
  BY <1>1, FS_Subset, FS_CardinalityType
<1>3. aborts \in Nat /\ expiries \in Nat /\ Cardinality(Orphans) \in Nat
  BY OrphansAreFinite DEF TypeOK
<1>4. QED
  BY <1>1, <1>2, <1>3 DEF OneOrphanPerFault

\* The steps of the worker, and of the operators around it, keep the key, the
\* rows and what the worker holds in agreement; only a fault makes an orphan.
LEMMA NextDeduplicated ==
  ASSUME OneEvaluator, TypeOK, Announced, Deduplicated, [Next]_vars
  PROVE  Deduplicated'
<1> USE DEF OneEvaluator, HeldAgrees, Goto
<1>. DEFINE Before == TypeOK /\ OneOrphanPerFault
<1>0. /\ RowsOnlyAdvance /\ Before /\ HeldAgrees
      /\ alerts \in Seq(Statuses) /\ held \in [Workers -> Nat] /\ pc \in [Workers -> Points]
      /\ aborts \in Nat /\ expiries \in Nat
  BY NextAdvances DEF Deduplicated, TypeOK
<1>q. SUFFICES OneOrphanPerFault' /\ HeldAgrees'
  BY DEF Deduplicated
<1> USE DEF Orphans, ActiveAlerts, Active
<1> HIDE DEF Before
<1>c. ASSUME Orphans' \subseteq Orphans, UNCHANGED <<aborts, expiries>>
      PROVE  OneOrphanPerFault'
  BY <1>0, <1>c, NoNewOrphan DEF Before
<1>d. ASSUME NEW a, Orphans' \subseteq Orphans \cup {a}, 
             aborts' + expiries' = aborts + expiries + 1
      PROVE  OneOrphanPerFault'
  BY <1>0, <1>d, OneNewOrphan DEF Before
<1>a. ASSUME Len(alerts') = Len(alerts),
             UNCHANGED <<activeKey, pc, held, aborts, expiries>>
      PROVE  OneOrphanPerFault' /\ HeldAgrees'
  <2>1. Ids' = Ids /\ \A a \in Ids : Active(a)' => Active(a)
    BY <1>0, <1>a DEF RowsOnlyAdvance
  <2>2. \A w \in Workers : pc[w] = "delete" => held[w] \in Ids /\ ~Active(held[w])
    BY <1>0 DEF Announced, HeldIsCommitted
  <2> HIDE DEF Active, Ids
  <2>3. Orphans' \subseteq Orphans
    BY <1>a, <2>1
  <2>4. HeldAgrees'
    BY <1>0, <1>a, <2>1, <2>2
  <2>5. QED
    BY <1>a, <1>c, <2>3, <2>4
<1>b. ASSUME NEW w \in Workers, UNCHANGED <<alerts, activeKey, aborts, expiries>>,
             held' = held \/ held' = [held EXCEPT ![w] = 0],
             pc[w] # "set",
             \E p \in Points \ {"insert", "set", "load", "resolve", "delete"} :
                pc' = [pc EXCEPT ![w] = p]
      PROVE  OneOrphanPerFault' /\ HeldAgrees'
  <2>1. Orphans' \subseteq Orphans
    BY <1>0, <1>b
  <2>2. QED
    BY <1>0, <1>b, <1>c, <2>1
<1>1. CASE Flip \/ CreateRule \/ ExpireRules
  BY <1>1, <1>a DEF Flip, CreateRule, ExpireRules
<1>2. ASSUME NEW w \in Workers,
             Receive(w) \/ GetRules(w) \/ SelectRules(w) \/ CacheRules(w)
      PROVE  OneOrphanPerFault' /\ HeldAgrees'
  <2>1. CASE Receive(w) \/ SelectRules(w)
    BY <1>b, <2>1 DEF Receive, SelectRules
  <2>2. CASE GetRules(w) \/ CacheRules(w)
    <3>1. /\ pc[w] # "set"
          /\ UNCHANGED <<alerts, activeKey, aborts, expiries>>
      BY <2>2, RulesStep DEF GetRules, CacheRules
    <3>2. /\ held' = held \/ held' = [held EXCEPT ![w] = 0]
          /\ \E p \in Points \ {"insert", "set", "load", "resolve", "delete"} :
                pc' = [pc EXCEPT ![w] = p]
      BY <2>2, RulesStep DEF EndReading
    <3>3. QED
      BY <1>b, <3>1, <3>2
  <2>3. QED
    BY <1>2, <2>1, <2>2
<1>3. ASSUME NEW w \in Workers, Check(w) PROVE OneOrphanPerFault' /\ HeldAgrees'
  <2>1. /\ pc[w] = "check"
        /\ UNCHANGED <<alerts, activeKey, aborts, expiries>>
        /\ \/ pc' = [pc EXCEPT ![w] = "insert"] /\ activeKey = 0 /\ held' = held
           \/ /\ pc' = [pc EXCEPT ![w] = "load"] /\ activeKey # 0
              /\ held' = [held EXCEPT ![w] = activeKey]
           \/ pc' = [pc EXCEPT ![w] = "idle"] /\ held' = [held EXCEPT ![w] = 0]
    BY <1>3 DEF Check, EndReading
  <2>2. Orphans' \subseteq Orphans
    BY <1>0, <2>1
  <2>3. HeldAgrees'
    BY <1>0, <2>1
  <2>4. QED
    BY <1>c, <2>1, <2>2, <2>3
<1>4. ASSUME NEW w \in Workers, Insert(w) PROVE OneOrphanPerFault' /\ HeldAgrees'
  <2>1. /\ pc[w] = "insert" /\ UNCHANGED <<activeKey, aborts, expiries>>
        /\ Ids' = Ids \cup {Len(alerts) + 1}
        /\ \A a \in Ids : alerts'[a] = alerts[a]
        /\ held' = [held EXCEPT ![w] = Len(alerts) + 1]
        /\ pc' = [pc EXCEPT ![w] = "set"]
    BY <1>0, <1>4 DEF Insert
  <2>2. Orphans' \subseteq Orphans
    BY <1>0, <2>1
  <2>3. HeldAgrees'
    BY <1>0, <2>1
  <2>4. QED
    BY <1>c, <2>1, <2>2, <2>3
<1>5. ASSUME NEW w \in Workers, SetKey(w) PROVE OneOrphanPerFault' /\ HeldAgrees'
  <2>1. /\ pc[w] = "set" /\ UNCHANGED <<alerts, held, aborts, expiries>>
        /\ activeKey' = held[w]
        /\ pc' = [pc EXCEPT ![w] = "triggered"]
    BY <1>5 DEF SetKey
  <2>2. Orphans' \subseteq Orphans
    BY <1>0, <2>1
  <2>3. HeldAgrees'
    BY <1>0, <2>1
  <2>4. QED
    BY <1>c, <2>1, <2>2, <2>3
<1>6. ASSUME NEW w \in Workers, PublishTriggered(w) \/ PublishResolved(w)
      PROVE OneOrphanPerFault' /\ HeldAgrees'
  BY <1>6, <1>b DEF PublishTriggered, PublishResolved, Publish, EndReading
<1>7. ASSUME NEW w \in Workers, Load(w) PROVE OneOrphanPerFault' /\ HeldAgrees'
  <2>1. /\ UNCHANGED <<alerts, activeKey, held, aborts, expiries>>
        /\ pc[w] = "load"
        /\ \/ pc' = [pc EXCEPT ![w] = "resolve"]
           \/ pc' = [pc EXCEPT ![w] = "delete"] /\ ~Active(held[w])
    BY <1>7 DEF Load
  <2>2. Orphans' \subseteq Orphans
    BY <1>0, <2>1
  <2>3. HeldAgrees'
    BY <1>0, <2>1
  <2>4. QED
    BY <1>c, <2>1, <2>2, <2>3
<1>8. ASSUME NEW w \in Workers, Resolve(w) PROVE OneOrphanPerFault' /\ HeldAgrees'
  <2>1. /\ held[w] \in Ids
        /\ pc[w] = "resolve" /\ pc' = [pc EXCEPT ![w] = "delete"]
        /\ alerts' = [alerts EXCEPT ![held[w]] = "RESOLVED"]
        /\ UNCHANGED <<activeKey, held, aborts, expiries>>
    BY <1>8 DEF Resolve, Announced, HeldIsCommitted
  <2>2. /\ Len(alerts') = Len(alerts)
        /\ \A a \in 1..Len(alerts) :
              alerts'[a] = IF a = held[w] THEN "RESOLVED" ELSE alerts[a]
    BY <1>0, <2>1, UpdateRow
  <2>3. Orphans' \subseteq Orphans
    BY <1>0, <2>1, <2>2
  <2>4. HeldAgrees'
    BY <1>0, <2>1, <2>2
  <2>5. QED
    BY <1>c, <2>1, <2>3, <2>4
<1>9. ASSUME NEW w \in Workers, DeleteKey(w) PROVE OneOrphanPerFault' /\ HeldAgrees'
  <2>1. /\ pc[w] = "delete" /\ UNCHANGED <<alerts, held, aborts, expiries>>
        /\ activeKey' = 0
        /\ pc' = [pc EXCEPT ![w] = "resolved"]
    BY <1>9 DEF DeleteKey
  <2>2. Orphans' \subseteq Orphans
    BY <1>0, <2>1
  <2>3. HeldAgrees'
    BY <1>0, <2>1
  <2>4. QED
    BY <1>c, <2>1, <2>2, <2>3
<1>10. ASSUME NEW u \in Users, UserStep(u) PROVE OneOrphanPerFault' /\ HeldAgrees'
  <2>1. UNCHANGED <<activeKey, pc, held, aborts, expiries>>
    BY <1>10 DEF UserStep, LoadAlert, CommitAlert
  <2>2. Len(alerts') = Len(alerts)
    <3>1. CASE CommitAlert(u)
      <4>1. request[u].target \in Statuses
        BY <1>0 DEF Before, TypeOK
      <4>2. QED
        BY <1>0, <3>1, <4>1, UpdateRow DEF CommitAlert
    <3>2. CASE alerts' = alerts
      BY <3>2
    <3>3. QED
      BY <1>10, <3>1, <3>2 DEF UserStep, LoadAlert
  <2>3. QED
    BY <1>a, <2>1, <2>2
<1>11. CASE ExpireKey
  <2>1. /\ activeKey' = 0 /\ UNCHANGED <<alerts, pc, held>>
        /\ aborts' = aborts /\ expiries' = expiries + 1
    BY <1>11 DEF ExpireKey
  <2>2. Orphans' \subseteq Orphans \cup {activeKey}
    BY <1>0, <2>1
  <2>3. HeldAgrees'
    BY <1>0, <2>1
  <2>4. aborts' + expiries' = aborts + expiries + 1
    BY <1>0, <2>1
  <2>5. QED
    BY <1>d, <2>2, <2>3, <2>4
<1>12. ASSUME NEW w \in Workers, Abort(w) PROVE OneOrphanPerFault' /\ HeldAgrees'
  <2>1. /\ pc' = [pc EXCEPT ![w] = "idle"] /\ UNCHANGED <<alerts, activeKey>>
        /\ held' = [held EXCEPT ![w] = 0]
        /\ aborts' = aborts + 1 /\ expiries' = expiries
    BY <1>12 DEF Abort, EndReading
  <2>2. Orphans' \subseteq Orphans \cup {held[w]}
    BY <1>0, <2>1
  <2>3. HeldAgrees'
    BY <1>0, <2>1
  <2>4. aborts' + expiries' = aborts + expiries + 1
    BY <1>0, <2>1
  <2>5. QED
    BY <1>d, <2>2, <2>3, <2>4
<1>13. CASE UNCHANGED vars
  BY <1>13, <1>a DEF vars
<1>14. QED
  BY <1>1, <1>2, <1>3, <1>4, <1>5, <1>6, <1>7, <1>8, <1>9, <1>10, <1>11, <1>12, <1>13
     DEF Next, WorkerStep

(* One evaluator loses sight of at most one ACTIVE alert per failure or    *)
(* expired key, and what it holds agrees with the key and the rows,        *)
(* whatever any number of operators do.                                    *)
THEOREM DeduplicatedAlways ==
  ASSUME OneEvaluator PROVE Spec => []Deduplicated
<1>1. Init => Deduplicated
  <2> SUFFICES ASSUME Init PROVE Deduplicated
    OBVIOUS
  <2>1. Orphans = {}
    BY DEF Init, Orphans, ActiveAlerts
  <2>2. aborts = 0 /\ expiries = 0
    BY DEF Init
  <2>3. OneOrphanPerFault
    BY <2>1, <2>2, FS_EmptySet DEF OneOrphanPerFault
  <2>4. HeldAgrees
    BY DEF Init, HeldAgrees
  <2>5. QED
    BY <2>3, <2>4 DEF Deduplicated
<1>2. TypeOK /\ Announced /\ Deduplicated /\ [Next]_vars => Deduplicated'
  BY NextDeduplicated
<1>3. QED
  BY <1>1, <1>2, TypeCorrect, AnnouncedAlways, PTL DEF Spec

(* "Trigger Deduplicated Alerts" for one evaluator: until something fails  *)
(* or a key expires, no second alert is raised while one is ACTIVE.        *)
THEOREM OneActiveUntilAFault ==
  ASSUME OneEvaluator
  PROVE  Spec => [](aborts = 0 /\ expiries = 0 => AtMostOneActive)
<1>1. TypeOK /\ Deduplicated => (aborts = 0 /\ expiries = 0 => AtMostOneActive)
  <2> SUFFICES ASSUME TypeOK, Deduplicated, aborts = 0, expiries = 0
               PROVE  AtMostOneActive
    OBVIOUS
  <2>1. IsFiniteSet(Orphans) /\ Cardinality(Orphans) = 0
    BY OrphansAreFinite DEF Deduplicated, OneOrphanPerFault
  <2>2. Orphans = {}
    BY <2>1, FS_EmptySet
  <2>3. \A a \in ActiveAlerts :
           a = activeKey \/ \E w \in Workers : pc[w] = "set" /\ held[w] = a
    BY <2>2 DEF Orphans
  <2>4. ASSUME NEW a \in ActiveAlerts PROVE a # 0
    BY <2>4 DEF ActiveAlerts
  <2>5. \A w \in Workers : pc[w] = "set" => activeKey = 0
    BY DEF Deduplicated, HeldAgrees
  <2>6. QED
    BY <2>3, <2>4, <2>5 DEF AtMostOneActive, OneEvaluator
<1>2. QED
  BY <1>1, TypeCorrect, DeduplicatedAlways, PTL
=============================================================================
