--------------------------- MODULE HourlyRollupProofs ---------------------------
(***************************************************************************)
(* Proofs about HourlyRollup for any devices, runs and bounds.             *)
(***************************************************************************)
EXTENDS HourlyRollup, TLAPS

(* What a run that ends leaves of itself has the types of its variables.   *)
LEMMA FinishTypes ==
  ASSUME TypeOK, NEW r \in Runs, Finish(r)
  PROVE  /\ pc' \in [Runs -> Points] /\ period' \in [Runs -> Hours]
         /\ todo' \in [Runs -> SUBSET Devices]
         /\ session' \in [Runs -> [Devices -> Nat]]
         /\ before' \in [Runs -> [Devices -> Nat]]
         /\ \A q \in Runs : pc'[q] = "query" <=> todo'[q] # {}
<1>1. Nothing \in [Devices -> Nat] /\ 0 \in Hours
  BY BoundsAreNatural DEF Nothing, Hours
<1> QED BY <1>1 DEF TypeOK, Finish, Goto, Points

(* Every step keeps the types of the state.                                *)
LEMMA TypeStep == TypeOK /\ [Next]_vars => TypeOK'
<1> SUFFICES ASSUME TypeOK, [Next]_vars PROVE TypeOK'
  OBVIOUS
<1> USE BoundsAreNatural DEF TypeOK, Points, Goto, Finish, Failure, Nothing, table, run
<1>1. CASE Tick
  <2>1. now' \in Hours /\ beat' \in 0..now'
    BY <1>1 DEF Tick, Hours
  <2> QED BY <1>1, <2>1 DEF Tick
<1>2. CASE Beat
  BY <1>2 DEF Beat, Hours
<1>3. CASE Redeliver
  BY <1>3 DEF Redeliver
<1>4. ASSUME NEW d \in Devices, NEW h \in Hours, Persist(d, h) PROVE TypeOK'
  <2>1. readings[d][h] + 1 \in Nat
    BY <1>4 DEF Persist
  <2> QED BY <1>4, <2>1 DEF Persist
<1>5. ASSUME NEW r \in Runs, Poll(r) \/ Start(r) PROVE TypeOK'
  <2>1. CASE Poll(r)
    BY <2>1 DEF Poll, vars
  <2>2. CASE Start(r)
    <3>1. now - 1 \in Hours /\ queued - 1 \in Nat
      BY <2>2 DEF Start, Hours
    <3>2. [d \in Devices |-> readings[d][now - 1]] \in [Devices -> Nat]
      BY <3>1
    <3> DEFINE b == [d \in Devices |-> readings[d][now - 1]]
    <3>3. before' = [before EXCEPT ![r] = b]
      BY <2>2 DEF Start
    <3>4. before' \in [Runs -> [Devices -> Nat]]
      BY <3>2, <3>3
    <3>5. \A q \in Runs : pc'[q] = "query" <=> todo'[q] # {}
      BY <2>2 DEF Start
    <3> HIDE DEF b
    <3> QED BY <2>2, <3>1, <3>4, <3>5 DEF Start
  <2> QED BY <1>5, <2>1, <2>2
<1>6. ASSUME NEW r \in Runs, SelectDevices(r) PROVE TypeOK'
  <2>1. pc' \in [Runs -> Points] /\ todo' \in [Runs -> SUBSET Devices]
    BY <1>6 DEF SelectDevices
  <2>2. \A q \in Runs : pc'[q] = "query" <=> todo'[q] # {}
    BY <1>6 DEF SelectDevices
  <2> QED BY <1>6, <2>1, <2>2 DEF SelectDevices
<1>7. ASSUME NEW r \in Runs, NEW d \in Devices, QueryReadings(r, d) PROVE TypeOK'
  <2>1. readings[d][period[r]] \in Nat
    OBVIOUS
  <2> QED BY <1>7, <2>1 DEF QueryReadings
<1>8. ASSUME NEW r \in Runs, Commit(r) PROVE TypeOK'
  <2>1. Finish(r) /\ UNCHANGED <<now, beat, queued, readings, active, faults>>
    BY <1>8 DEF Commit, Insert
  <2>2. \A d \in Devices : [aggregate[d] EXCEPT ![period[r]] = session[r][d]] \in [Hours -> Nat]
    OBVIOUS
  <2>3. aggregate' \in [Devices -> [Hours -> Nat]]
    BY <1>8, <2>2 DEF Commit, Insert
  <2> HIDE DEF Finish
  <2> QED BY <2>1, <2>3, FinishTypes
<1>9. ASSUME NEW r \in Runs, Rollback(r) \/ Die(r) PROVE TypeOK'
  <2>1. Finish(r) /\ UNCHANGED <<now, beat, queued, table>> /\ faults' \in 0..MaxFaults
    BY <1>9 DEF Rollback, Die
  <2> HIDE DEF Finish
  <2> QED BY <2>1, FinishTypes
<1>10. CASE UNCHANGED vars
  BY <1>10 DEF vars
<1> QED
  BY <1>1, <1>2, <1>3, <1>4, <1>5, <1>6, <1>7, <1>8, <1>9, <1>10 DEF Next, RunStep

(* Tables, runs, queue and clock keep their types.                         *)
THEOREM TypeCorrect == Spec => []TypeOK
<1>1. Init => TypeOK
  BY BoundsAreNatural DEF Init, TypeOK, Hours, Points, Nothing
<1>2. QED
  BY <1>1, TypeStep, PTL DEF Spec

-----------------------------------------------------------------------------
(* A row of energy_aggregates is written once: Unique holds whenever a run *)
(* inserts, and nothing else writes the table.                             *)
THEOREM AggregatesAreFinalAlways == Spec => AggregatesAreFinal
<1>1. ASSUME TypeOK, [Next]_vars, NEW d \in Devices, NEW h \in Hours, aggregate[d][h] # 0
      PROVE  aggregate'[d][h] = aggregate[d][h]
  <2>1. ASSUME NEW r \in Runs, Commit(r) PROVE aggregate'[d][h] = aggregate[d][h]
    <3>1. CASE d \in Added(r) /\ h = period[r]
      BY <1>1, <2>1, <3>1 DEF Commit, Unique
    <3>2. CASE ~(d \in Added(r) /\ h = period[r])
      <4>1. aggregate[d] \in [Hours -> Nat]
        BY <1>1 DEF TypeOK
      <4>2. aggregate'[d] = IF d \in Added(r) THEN [aggregate[d] EXCEPT ![period[r]] = session[r][d]]
                            ELSE aggregate[d]
        BY <2>1 DEF Commit, Insert
      <4> QED BY <3>2, <4>1, <4>2
    <3> QED BY <3>1, <3>2
  <2>2. CASE \A r \in Runs : ~Commit(r)
    BY <1>1, <2>2
    DEF Next, RunStep, Tick, Beat, Redeliver, Persist, Poll, Start, SelectDevices,
        QueryReadings, Rollback, Die, table, vars
  <2> QED BY <2>1, <2>2
<1>2. TypeOK /\ [Next]_vars
        => [\A d \in Devices, h \in Hours :
              aggregate[d][h] # 0 => aggregate'[d][h] = aggregate[d][h]]_vars
  BY <1>1
<1>3. QED
  BY <1>2, TypeCorrect, PTL DEF Spec, AggregatesAreFinal

-----------------------------------------------------------------------------
(* What a run holds in its session agrees with the tables: it sums up an   *)
(* hour that is over, and has taken what there was since it began.         *)
Agrees(r) ==
  /\ pc[r] # "idle" => period[r] < now
  /\ pc[r] = "idle" => session[r] = Nothing
  /\ pc[r] = "devices" => session[r] = Nothing
  /\ \A d \in Devices :
       /\ session[r][d] # 0 => session[r][d] \in 2..readings[d][period[r]]
       /\ before[r][d] <= readings[d][period[r]]
       /\ (pc[r] \in {"query", "commit"} /\ d \in active \ todo[r] /\ before[r][d] >= 2)
            => session[r][d] >= before[r][d]

SessionAgrees == \A r \in Runs : Agrees(r)

(* The numbers in the state are numbers.                                   *)
LEMMA Numbers ==
  ASSUME TypeOK
  PROVE  /\ now \in Nat
         /\ \A h \in Hours : h \in Nat
         /\ \A d \in Devices, h \in Hours : readings[d][h] \in Nat
         /\ \A r \in Runs : period[r] \in Hours
         /\ \A r \in Runs, d \in Devices : session[r][d] \in Nat /\ before[r][d] \in Nat
<1>1. Hours \subseteq Nat
  BY BoundsAreNatural DEF Hours
<1> QED BY <1>1 DEF TypeOK

(* The rest of the system only adds readings and lets time pass.           *)
LEMMA Untouched ==
  ASSUME TypeOK, NEW r \in Runs, Agrees(r),
         pc'[r] = pc[r], period'[r] = period[r], todo'[r] = todo[r],
         session'[r] = session[r], before'[r] = before[r], active' = active,
         now' \in Nat, now' >= now,
         \A d \in Devices, h \in Hours :
            readings'[d][h] \in Nat /\ readings'[d][h] >= readings[d][h]
  PROVE  Agrees(r)'
<1>1. period[r] \in Nat /\ now \in Nat /\ period[r] \in Hours
  BY Numbers
<1>2. \A d \in Devices : readings[d][period[r]] \in Nat /\ session[r][d] \in Nat /\ before[r][d] \in Nat
  BY Numbers
<1>3. \A d \in Devices : /\ readings'[d][period[r]] \in Nat
                        /\ readings'[d][period[r]] >= readings[d][period[r]]
  BY <1>1
<1> QED BY <1>1, <1>2, <1>3 DEF Agrees

(* A run that ends forgets all it held.                                    *)
LEMMA FinishAgrees ==
  ASSUME TypeOK, NEW r \in Runs, Finish(r), readings' = readings
  PROVE  Agrees(r)'
<1>1. \A d \in Devices : readings[d][0] \in Nat
  BY Numbers, BoundsAreNatural DEF Hours
<1>2. /\ pc'[r] = "idle" /\ period'[r] = 0
      /\ session'[r] = Nothing /\ before'[r] = Nothing
  BY DEF Finish, Goto, TypeOK
<1> QED BY <1>1, <1>2 DEF Agrees, Nothing

(* Every step keeps what runs hold in agreement with the tables.           *)
LEMMA SessionStep == TypeOK /\ SessionAgrees /\ [Next]_vars => SessionAgrees'
<1> SUFFICES ASSUME TypeOK, SessionAgrees, [Next]_vars, NEW q \in Runs PROVE Agrees(q)'
  BY DEF SessionAgrees
<1>0. Agrees(q) /\ now \in Nat /\ \A d \in Devices, h \in Hours : readings[d][h] \in Nat
  BY Numbers DEF SessionAgrees
<1>1. CASE Tick \/ Beat \/ Redeliver \/ UNCHANGED vars
  BY <1>0, <1>1, Untouched DEF Tick, Beat, Redeliver, table, run, vars
<1>2. ASSUME NEW d \in Devices, NEW h \in Hours, Persist(d, h) PROVE Agrees(q)'
  <2>1. \A e \in Devices, g \in Hours :
           readings'[e][g] \in Nat /\ readings'[e][g] >= readings[e][g]
    BY <1>0, <1>2 DEF Persist, TypeOK
  <2> QED BY <1>0, <1>2, <2>1, Untouched DEF Persist, run
<1>3. ASSUME NEW r \in Runs, Poll(r) PROVE Agrees(q)'
  BY <1>0, <1>3, Untouched DEF Poll, run, table, vars
<1>4. ASSUME NEW r \in Runs, r # q,
             Start(r) \/ SelectDevices(r) \/ (\E d \in Devices : QueryReadings(r, d))
               \/ Commit(r) \/ Rollback(r) \/ Die(r)
      PROVE  Agrees(q)'
  <2>1. /\ pc'[q] = pc[q] /\ period'[q] = period[q] /\ todo'[q] = todo[q]
        /\ session'[q] = session[q] /\ before'[q] = before[q]
    BY <1>4 DEF Start, SelectDevices, QueryReadings, Commit, Insert, Rollback, Die, Finish,
                Goto, TypeOK
  <2>2. now' = now /\ readings' = readings /\ active' = active
    BY <1>4 DEF Start, SelectDevices, QueryReadings, Commit, Insert, Rollback, Die, table
  <2> QED BY <1>0, <2>1, <2>2, Untouched
<1>5. CASE Start(q)
  <2>1. now - 1 \in Hours
    BY <1>0, <1>5, BoundsAreNatural DEF Start, Hours, TypeOK
  <2>2. /\ pc'[q] = "devices" /\ period'[q] = now - 1
        /\ before'[q] = [d \in Devices |-> readings[d][now - 1]]
        /\ session'[q] = session[q] /\ now' = now /\ readings' = readings
    BY <1>5 DEF Start, Goto, TypeOK, table
  <2>3. session[q] = Nothing
    BY <1>0, <1>5 DEF Start, Agrees
  <2>4. \A d \in Devices : readings[d][now - 1] \in Nat
    BY <1>0, <2>1
  <2> QED BY <1>0, <2>2, <2>3, <2>4 DEF Agrees, Nothing
<1>6. CASE SelectDevices(q)
  <2>1. /\ pc[q] = "devices" /\ pc'[q] \in {"query", "commit"} /\ todo'[q] = active
        /\ period'[q] = period[q] /\ session'[q] = session[q] /\ before'[q] = before[q]
        /\ now' = now /\ readings' = readings /\ active' = active
    BY <1>6 DEF SelectDevices, Goto, TypeOK, table
  <2> QED BY <1>0, <2>1 DEF Agrees
<1>7. ASSUME NEW d \in Devices, QueryReadings(q, d) PROVE Agrees(q)'
  <2> DEFINE n == readings[d][period[q]]
  <2>1. n \in Nat /\ before[q][d] \in Nat
    BY <1>0, Numbers
  <2>2. /\ pc[q] = "query" /\ pc'[q] \in {"query", "commit"} /\ todo'[q] = todo[q] \ {d}
        /\ period'[q] = period[q] /\ before'[q] = before[q]
        /\ now' = now /\ readings' = readings /\ active' = active
    BY <1>7 DEF QueryReadings, Goto, TypeOK, table
  <2>3. session'[q] = [session[q] EXCEPT ![d] = IF n < 2 THEN 0 ELSE n]
    BY <1>7 DEF QueryReadings, TypeOK
  <2>4. session[q] \in [Devices -> Nat]
    BY DEF TypeOK
  <2>5. session'[q][d] = (IF n < 2 THEN 0 ELSE n)
        /\ \A e \in Devices : e # d => session'[q][e] = session[q][e]
    BY <2>3, <2>4
  <2> HIDE DEF n
  <2>6. before[q][d] <= n /\ period[q] < now
    BY <1>0, <2>2 DEF Agrees, n
  <2>7. /\ session'[q][d] # 0 => session'[q][d] \in 2..n
        /\ before[q][d] >= 2 => session'[q][d] >= before[q][d]
    BY <2>1, <2>5, <2>6
  <2> QED BY <1>0, <2>2, <2>5, <2>6, <2>7 DEF Agrees, n
<1>8. CASE Commit(q) \/ Rollback(q) \/ Die(q)
  BY <1>8, FinishAgrees DEF Commit, Insert, Rollback, Die, table
<1> QED
  BY <1>1, <1>2, <1>3, <1>4, <1>5, <1>6, <1>7, <1>8 DEF Next, RunStep

(* So it holds in every state of a behaviour.                              *)
LEMMA SessionAgreesAlways == Spec => []SessionAgrees
<1>1. Init => SessionAgrees
  BY BoundsAreNatural DEF Init, SessionAgrees, Agrees, Hours, Nothing
<1>2. QED
  BY <1>1, SessionStep, TypeCorrect, PTL DEF Spec

(* An aggregate integrates two readings at least, all of an hour that is   *)
(* over, whichever runs overlap, die or come late.                         *)
THEOREM AggregatesAreTrueAlways == Spec => []AggregatesAreTrue
<1>1. Init => AggregatesAreTrue
  BY DEF Init, AggregatesAreTrue
<1>2. TypeOK /\ SessionAgrees /\ AggregatesAreTrue /\ [Next]_vars => AggregatesAreTrue'
  <2> SUFFICES ASSUME TypeOK, SessionAgrees, AggregatesAreTrue, [Next]_vars,
                      NEW d \in Devices, NEW h \in Hours, aggregate'[d][h] # 0
               PROVE  h < now' /\ aggregate'[d][h] \in 2..readings'[d][h]
    BY DEF AggregatesAreTrue
  <2>1. h \in Nat /\ now \in Nat /\ readings[d][h] \in Nat
    BY BoundsAreNatural DEF TypeOK, Hours
  <2>2. now' \in Nat /\ now' >= now
    BY <2>1 DEF Next, RunStep, Tick, Beat, Redeliver, Persist, Poll, Start, SelectDevices,
                QueryReadings, Commit, Insert, Rollback, Die, vars
  <2>3. readings'[d][h] \in Nat /\ readings'[d][h] >= readings[d][h]
    <3>1. readings' = readings \/ \E e \in Devices, g \in Hours : Persist(e, g)
      BY DEF Next, RunStep, Tick, Beat, Redeliver, Poll, Start,
             SelectDevices, QueryReadings, Commit, Insert, Rollback, Die, table, vars
    <3>2. ASSUME NEW e \in Devices, NEW g \in Hours, Persist(e, g)
          PROVE  readings'[d][h] \in Nat /\ readings'[d][h] >= readings[d][h]
      BY <2>1, <3>2 DEF Persist, TypeOK
    <3> QED BY <2>1, <3>1, <3>2
  <2>4. CASE aggregate'[d][h] = aggregate[d][h]
    BY <2>1, <2>2, <2>3, <2>4 DEF AggregatesAreTrue
  <2>5. ASSUME NEW r \in Runs, Commit(r), aggregate'[d][h] # aggregate[d][h]
        PROVE  h < now' /\ aggregate'[d][h] \in 2..readings'[d][h]
    <3>1. d \in Added(r) /\ h = period[r] /\ aggregate'[d][h] = session[r][d]
      BY <2>5 DEF Commit, Insert, TypeOK
    <3>2. session[r][d] # 0 /\ pc[r] # "idle"
      BY <2>5, <3>1 DEF Added, Commit, TypeOK
    <3>3. session[r][d] \in 2..readings[d][h] /\ h < now
      BY <3>1, <3>2 DEF SessionAgrees, Agrees
    <3> QED BY <2>1, <2>2, <2>3, <3>1, <3>3
  <2>6. CASE \A r \in Runs : ~Commit(r)
    <3>1. aggregate' = aggregate
      BY <2>6
      DEF Next, RunStep, Tick, Beat, Redeliver, Persist, Poll, Start, SelectDevices,
          QueryReadings, Rollback, Die, table, vars
    <3> QED BY <2>4, <3>1
  <2> QED BY <2>4, <2>5, <2>6
<1>3. QED
  BY <1>1, <1>2, TypeCorrect, SessionAgreesAlways, PTL DEF Spec

(* A run that inserts anything has aggregated every active device that had *)
(* two readings when it began, with all the readings there were.           *)
THEOREM SuccessIsCompleteAlways == Spec => SuccessIsComplete
<1>1. ASSUME TypeOK, SessionAgrees, [Next]_vars, NEW r \in Runs,
             pc[r] = "commit", pc'[r] = "idle", aggregate' # aggregate,
             NEW d \in active, before[r][d] >= 2
      PROVE  aggregate'[d][period[r]] >= before[r][d]
  <2>1. PICK q \in Runs : Commit(q)
    BY <1>1
    DEF Next, RunStep, Tick, Beat, Redeliver, Persist, Poll, Start, SelectDevices,
        QueryReadings, Rollback, Die, table, vars
  <2>2. q = r
    BY <1>1, <2>1 DEF Commit, Insert, Finish, Goto, TypeOK
  <2>3. d \in Devices /\ d \notin todo[r] /\ session[r][d] \in Nat /\ before[r][d] \in Nat
    <3>1. active \subseteq Devices /\ todo[r] = {}
      BY <1>1 DEF TypeOK
    <3> QED BY <1>1, <3>1, Numbers
  <2>4. session[r][d] >= before[r][d]
    BY <1>1, <2>3 DEF SessionAgrees, Agrees
  <2>5. d \in Added(r)
    BY <1>1, <2>3, <2>4 DEF Added
  <2>6. aggregate'[d][period[r]] = session[r][d]
    <3>1. aggregate[d] \in [Hours -> Nat] /\ period[r] \in Hours
      BY <1>1, <2>3 DEF TypeOK
    <3>2. aggregate'[d] = [aggregate[d] EXCEPT ![period[r]] = session[r][d]]
      BY <2>1, <2>2, <2>3, <2>5 DEF Commit, Insert
    <3> QED BY <3>1, <3>2
  <2> QED BY <2>4, <2>6
<1>2. TypeOK /\ SessionAgrees /\ [Next]_vars
        => [\A r \in Runs :
              (pc[r] = "commit" /\ pc'[r] = "idle" /\ aggregate' # aggregate) =>
                 \A d \in active :
                    before[r][d] >= 2 => aggregate'[d][period[r]] >= before[r][d]]_vars
  BY <1>1
<1>3. QED
  BY <1>2, TypeCorrect, SessionAgreesAlways, PTL DEF Spec, SuccessIsComplete
=============================================================================
