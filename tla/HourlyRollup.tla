----------------------------- MODULE HourlyRollup -----------------------------
(***************************************************************************)
(* The hourly rollup (app/workers/scheduled_tasks.py): Celery beat queues  *)
(* a task at five past every hour, and a run of it sums up, for each       *)
(* active device, the readings of the hour before the one it runs in.      *)
(*                                                                         *)
(* An aggregate is represented by the number of readings it integrates.    *)
(* Each SELECT of a run sees what is committed by then; its INSERTs all    *)
(* happen at the COMMIT, where uq_device_period_interval is checked.       *)
(***************************************************************************)
EXTENDS Integers, FiniteSets

CONSTANTS
  Devices,
  Runs,         \* executions of the task that may overlap
  MaxHour,      \* bound on the hours that pass
  MaxReadings,  \* bound on the readings of a device, by hour
  MaxFaults     \* bound on runs that die and tasks delivered again

ASSUME BoundsAreNatural ==
  MaxHour \in Nat /\ MaxReadings \in [0..MaxHour -> Nat] /\ MaxFaults \in Nat

Hours == 0..MaxHour
Points == {"idle", "devices", "query", "commit"}

VARIABLES
  now,        \* the hour of the clock
  beat,       \* the last hour for which beat has queued the task
  queued,     \* tasks in the broker
  readings,   \* telemetry_readings with a power_kw, by device and hour
  active,     \* devices with is_active, which no endpoint writes
  aggregate,  \* energy_aggregates by device and hour, 0 for no row
  pc,
  period,     \* the hour a run sums up
  todo,       \* devices it has not queried
  session,    \* aggregates it has added to its session, by device
  before,     \* history: the readings when the run began
  faults

table == <<readings, active, aggregate>>
run   == <<pc, period, todo, session, before>>
vars  == <<now, beat, queued, table, run, faults>>

Nothing == [d \in Devices |-> 0]

TypeOK ==
  /\ now \in Hours /\ beat \in 0..now /\ queued \in Nat
  /\ readings \in [Devices -> [Hours -> Nat]]
  /\ active \subseteq Devices
  /\ aggregate \in [Devices -> [Hours -> Nat]]
  /\ pc \in [Runs -> Points]
  /\ period \in [Runs -> Hours]
  /\ todo \in [Runs -> SUBSET Devices]
  /\ session \in [Runs -> [Devices -> Nat]]
  /\ before \in [Runs -> [Devices -> Nat]]
  /\ faults \in 0..MaxFaults
  /\ \A r \in Runs : pc[r] = "query" <=> todo[r] # {}

Init ==
  /\ now = 0 /\ beat = 0 /\ queued = 0
  /\ readings = [d \in Devices |-> [h \in Hours |-> 0]]
  /\ active \in SUBSET Devices
  /\ aggregate = [d \in Devices |-> [h \in Hours |-> 0]]
  /\ pc = [r \in Runs |-> "idle"]
  /\ period = [r \in Runs |-> 0]
  /\ todo = [r \in Runs |-> {}]
  /\ session = [r \in Runs |-> Nothing]
  /\ before = [r \in Runs |-> Nothing]
  /\ faults = 0

Goto(r, point) == pc' = [pc EXCEPT ![r] = point]

\* The session is closed and forgotten.
Finish(r) ==
  /\ Goto(r, "idle")
  /\ period' = [period EXCEPT ![r] = 0]
  /\ todo' = [todo EXCEPT ![r] = {}]
  /\ session' = [session EXCEPT ![r] = Nothing]
  /\ before' = [before EXCEPT ![r] = Nothing]

Failure == faults < MaxFaults /\ faults' = faults + 1

-----------------------------------------------------------------------------
Tick ==
  /\ now < MaxHour
  /\ now' = now + 1
  /\ UNCHANGED <<beat, queued, table, run, faults>>

\* crontab(minute=5): once in every hour that beat sees.
Beat ==
  /\ beat < now
  /\ beat' = now
  /\ queued' = queued + 1
  /\ UNCHANGED <<now, table, run, faults>>

\* The broker delivers a task again, or somebody runs it by hand.
Redeliver ==
  /\ Failure
  /\ queued' = queued + 1
  /\ UNCHANGED <<now, beat, table, run>>

\* The persister commits a reading, of this hour or belatedly of an earlier one.
Persist(d, h) ==
  /\ h <= now
  /\ readings[d][h] < MaxReadings[h]
  /\ readings' = [readings EXCEPT ![d][h] = @ + 1]
  /\ UNCHANGED <<now, beat, queued, active, aggregate, run, faults>>

-----------------------------------------------------------------------------
\* Mutant: the hour the run is in is summed up.
Start_CurrentHour(r) ==
  /\ pc[r] = "idle" /\ queued > 0
  /\ queued' = queued - 1
  /\ period' = [period EXCEPT ![r] = now]
  /\ before' = [before EXCEPT ![r] = [d \in Devices |-> readings[d][now]]]
  /\ Goto(r, "devices")
  /\ UNCHANGED <<now, beat, table, todo, session, faults>>

\* A worker takes the task; the hour before the present one is its period.
Start(r) ==
  /\ pc[r] = "idle" /\ queued > 0 /\ now > 0
  /\ queued' = queued - 1
  /\ period' = [period EXCEPT ![r] = now - 1]
  /\ before' = [before EXCEPT ![r] = [d \in Devices |-> readings[d][now - 1]]]
  /\ Goto(r, "devices")
  /\ UNCHANGED <<now, beat, table, todo, session, faults>>

\* A worker without a task asks the broker again.
Poll(r) ==
  /\ pc[r] = "idle" /\ queued = 0
  /\ UNCHANGED vars

\* Mutant: a list without a device is gone through like any other.
SelectDevices_NoneToo(r) ==
  /\ pc[r] = "devices"
  /\ todo' = [todo EXCEPT ![r] = active]
  /\ Goto(r, "query")
  /\ UNCHANGED <<now, beat, queued, table, period, session, before, faults>>

SelectDevices(r) ==
  /\ pc[r] = "devices"
  /\ todo' = [todo EXCEPT ![r] = active]
  /\ Goto(r, IF active = {} THEN "commit" ELSE "query")
  /\ UNCHANGED <<now, beat, queued, table, period, session, before, faults>>

\* Mutant: two readings are too few as well.
QueryReadings_AboveTwo(r, d) ==
  /\ pc[r] = "query" /\ d \in todo[r]
  /\ LET n == readings[d][period[r]]
     IN  session' = [session EXCEPT ![r][d] = IF n <= 2 THEN 0 ELSE n]
  /\ todo' = [todo EXCEPT ![r] = @ \ {d}]
  /\ Goto(r, IF todo[r] = {d} THEN "commit" ELSE "query")
  /\ UNCHANGED <<now, beat, queued, table, period, before, faults>>

\* The readings of one device, integrated if there are two at least.
QueryReadings(r, d) ==
  /\ pc[r] = "query" /\ d \in todo[r]
  /\ LET n == readings[d][period[r]]
     IN  session' = [session EXCEPT ![r][d] = IF n < 2 THEN 0 ELSE n]
  /\ todo' = [todo EXCEPT ![r] = @ \ {d}]
  /\ Goto(r, IF todo[r] = {d} THEN "commit" ELSE "query")
  /\ UNCHANGED <<now, beat, queued, table, period, before, faults>>

Added(r) == {d \in Devices : session[r][d] > 0}
Unique(r) == \A d \in Added(r) : aggregate[d][period[r]] = 0

\* The rows of the session become rows of the table.
Insert(r) ==
  /\ aggregate' = [d \in Devices |->
                     IF d \in Added(r) THEN [aggregate[d] EXCEPT ![period[r]] = session[r][d]]
                     ELSE aggregate[d]]
  /\ Finish(r)
  /\ UNCHANGED <<now, beat, queued, readings, active, faults>>

\* Mutant: ON CONFLICT DO UPDATE.
Commit_Upserts(r) ==
  /\ pc[r] = "commit"
  /\ Insert(r)

Commit(r) ==
  /\ pc[r] = "commit" /\ Unique(r)
  /\ Insert(r)

\* One row that exists already rolls back all of them, and the task fails.
Rollback(r) ==
  /\ pc[r] = "commit" /\ ~Unique(r)
  /\ Finish(r)
  /\ UNCHANGED <<now, beat, queued, table, faults>>

\* A statement raises or the worker dies.  Celery had the task acknowledged.
Die(r) ==
  /\ Failure
  /\ pc[r] # "idle"
  /\ Finish(r)
  /\ UNCHANGED <<now, beat, queued, table>>

-----------------------------------------------------------------------------
RunStep(r) ==
  \/ SelectDevices(r) \/ Commit(r) \/ Rollback(r)
  \/ \E d \in Devices : QueryReadings(r, d)

Next ==
  \/ Tick \/ Beat \/ Redeliver
  \/ \E d \in Devices, h \in Hours : Persist(d, h)
  \/ \E r \in Runs : Poll(r) \/ Start(r) \/ RunStep(r) \/ Die(r)

Spec == Init /\ [][Next]_vars

-----------------------------------------------------------------------------
(* An aggregate integrates two readings at least of a device, of an hour   *)
(* that is over, and no more of them than there are.                       *)
AggregatesAreTrue ==
  \A d \in Devices, h \in Hours :
     aggregate[d][h] # 0 => h < now /\ aggregate[d][h] \in 2..readings[d][h]

(* A row of energy_aggregates is written once, whatever runs twice or      *)
(* overlaps: readings that come late never change it.                      *)
AggregatesAreFinal ==
  [][\A d \in Devices, h \in Hours :
       aggregate[d][h] # 0 => aggregate'[d][h] = aggregate[d][h]]_vars

(* A run that inserts anything has aggregated every active device that had *)
(* two readings when it began, with all the readings there were.           *)
SuccessIsComplete ==
  [][\A r \in Runs :
       (pc[r] = "commit" /\ pc'[r] = "idle" /\ aggregate' # aggregate) =>
          \A d \in active :
             before[r][d] >= 2 => aggregate'[d][period[r]] >= before[r][d]]_vars
=============================================================================
