------------------------------ MODULE IngestGate ------------------------------
(***************************************************************************)
(* get_current_device (app/api/deps.py): the rate limiter and the cached   *)
(* credentials that every ingest request passes, for the requests that     *)
(* name one device code.                                                   *)
(*                                                                         *)
(* A code may belong to one device per site (uq_device_site_code).  A      *)
(* device keeps the key it was provisioned with, so a key is named by its  *)
(* device.  The clock is counted down: ttl and cacheTtl are what is left   *)
(* of the keys' lives, Forever that of a key without an expiry.            *)
(***************************************************************************)
EXTENDS Integers, FiniteSets

CONSTANTS
  Requests,     \* requests that may be in flight at a time
  Devices,      \* the devices of the code, each at a site of its own
  Limit,        \* 1000 requests ...
  Window,       \* ... in 60 s
  CacheLife,    \* 600 s
  MaxFaults     \* bound on calls that raise and processes that die

ASSUME LimitsArePositive ==
  Limit \in Nat \ {0} /\ Window \in Nat \ {0} /\ CacheLife \in Nat \ {0}
ASSUME FaultsAreNatural == MaxFaults \in Nat

None == "none"
ASSUME NoneIsNoDevice == None \notin Devices

Forever == -1

(***************************************************************************)
(* A request is "idle" before and after, or awaits EXPIRE, GET, the SELECT *)
(* or SET; at "reject" it awaits EXPIRE and has found more than Limit.     *)
(***************************************************************************)
Points == {"idle", "expire", "reject", "get", "select", "set"}

VARIABLES
  count,        \* rate_limit:device:<code>, 0 when the key does not exist
  ttl,          \* what is left of its life
  passed,       \* INCRs within the limit in the last 1, ..., Window ticks
  cache,        \* cache:device:auth:<code>
  cacheTtl,
  provisioned,  \* rows of devices
  inactive,     \* those whose is_active is false
  revoked,      \* those whose credential's is_active is false
  pc,
  key,          \* whose key the request carries
  found,        \* the device whose row the request is about to cache
  faults

limiter  == <<count, ttl, passed>>
stored   == <<cache, cacheTtl>>
rows     == <<provisioned, inactive, revoked>>
request  == <<pc, key, found>>
vars     == <<limiter, stored, rows, request, faults>>

Periods == 1..Window
Active == provisioned \ inactive

TypeOK ==
  /\ count \in 0..(Limit + 1)
  /\ ttl \in 1..Window \cup {Forever} /\ (count = 0 => ttl = Forever)
  /\ passed \in [Periods -> Nat]
  /\ cache \in Devices \cup {None}
  /\ cacheTtl \in 0..CacheLife /\ (cacheTtl = 0 <=> cache = None)
  /\ provisioned \subseteq Devices
  /\ inactive \subseteq provisioned /\ revoked \subseteq provisioned
  /\ pc \in [Requests -> Points]
  /\ key \in [Requests -> Devices]
  /\ found \in [Requests -> Devices \cup {None}]
  /\ \A r \in Requests : pc[r] = "set" <=> found[r] # None
  /\ faults \in 0..MaxFaults

Init ==
  /\ count = 0 /\ ttl = Forever
  /\ passed = [n \in Periods |-> 0]
  /\ cache = None /\ cacheTtl = 0
  /\ provisioned = {} /\ inactive = {} /\ revoked = {}
  /\ pc = [r \in Requests |-> "idle"]
  /\ key \in [Requests -> Devices]
  /\ found = [r \in Requests |-> None]
  /\ faults = 0

Goto(r, point) == pc' = [pc EXCEPT ![r] = point]

-----------------------------------------------------------------------------
(***************************************************************************)
(* INCR and TTL in one transaction.  What the counter says beyond Limit    *)
(* makes no difference, so it stays at Limit + 1.                          *)
(***************************************************************************)
Count(r, k) ==
  /\ pc[r] = "idle"
  /\ key' = [key EXCEPT ![r] = k]
  /\ count' = IF count > Limit THEN count ELSE count + 1
  /\ passed' = IF count' > Limit THEN passed ELSE [n \in Periods |-> passed[n] + 1]
  /\ UNCHANGED <<ttl, stored, rows, found, faults>>

\* A counter that is to be armed is armed first, then the limit applies.
Proceed(r, arm) ==
  Goto(r, IF count' > Limit THEN (IF arm THEN "reject" ELSE "idle")
                            ELSE (IF arm THEN "expire" ELSE "get"))

\* Mutant: only the request that creates the counter arms it.
Arrive_ArmsOnce(r, k) == Count(r, k) /\ Proceed(r, count' = 1)

\* A counter that is new or has no expiry is armed.
Arrive(r, k) == Count(r, k) /\ Proceed(r, count' = 1 \/ ttl = Forever)

\* Mutant: the counter is armed by writing it anew.
Arm_SetsOne(r) ==
  /\ pc[r] \in {"expire", "reject"}
  /\ ttl' = Window /\ count' = 1
  /\ Goto(r, IF pc[r] = "reject" THEN "idle" ELSE "get")
  /\ UNCHANGED <<passed, stored, rows, key, found, faults>>

\* EXPIRE, in vain if the counter is gone meanwhile.
Arm(r) ==
  /\ pc[r] \in {"expire", "reject"}
  /\ ttl' = IF count = 0 THEN Forever ELSE Window
  /\ Goto(r, IF pc[r] = "reject" THEN "idle" ELSE "get")
  /\ UNCHANGED <<count, passed, stored, rows, key, found, faults>>

\* Mutant: a hit writes the entry back.
Hit_Refreshes(r) ==
  /\ pc[r] = "get" /\ cache # None
  /\ found' = [found EXCEPT ![r] = cache]
  /\ Goto(r, "set")
  /\ UNCHANGED <<limiter, stored, rows, key, faults>>

\* A hit is verified without another await, whatever comes of it.
Hit(r) ==
  /\ pc[r] = "get" /\ cache # None
  /\ Goto(r, "idle")
  /\ UNCHANGED <<limiter, stored, rows, key, found, faults>>

Miss(r) ==
  /\ pc[r] = "get" /\ cache = None
  /\ Goto(r, "select")
  /\ UNCHANGED <<limiter, stored, rows, key, found, faults>>

(* The one active row is the device, unless its credential is inactive;    *)
(* none is 401 like that one, and several make scalar_one_or_none raise.   *)
Select(r) ==
  /\ pc[r] = "select"
  /\ \/ \E d \in Active \ revoked :
           /\ Active = {d}
           /\ found' = [found EXCEPT ![r] = d]
           /\ Goto(r, "set")
     \/ /\ \A d \in Active \ revoked : Active # {d}
        /\ UNCHANGED found
        /\ Goto(r, "idle")
  /\ UNCHANGED <<limiter, stored, rows, key, faults>>

\* Mutant: the entry is written without its ex=600.
Fill_NoExpiry(r) == cache' = found[r] /\ UNCHANGED cacheTtl

Fill(r) == cache' = found[r] /\ cacheTtl' = CacheLife

SetCache(r) ==
  /\ pc[r] = "set"
  /\ Fill(r)
  /\ found' = [found EXCEPT ![r] = None]
  /\ Goto(r, "idle")
  /\ UNCHANGED <<limiter, rows, key, faults>>

\* A call raises or the process dies: 500, or no answer at all.
Fail(r) ==
  /\ faults < MaxFaults /\ faults' = faults + 1
  /\ pc[r] # "idle"
  /\ Goto(r, "idle")
  /\ found' = [found EXCEPT ![r] = None]
  /\ IF pc[r] = "set" THEN Fill(r) \/ UNCHANGED stored ELSE UNCHANGED stored
  /\ UNCHANGED <<limiter, rows, key>>

-----------------------------------------------------------------------------
\* provision_device; nothing looks at the devices of the code at other sites.
Provision(d) ==
  /\ d \notin provisioned
  /\ provisioned' = provisioned \cup {d}
  /\ UNCHANGED <<limiter, stored, inactive, revoked, request, faults>>

\* By hand, like Revoke: no endpoint writes the is_active of a device or a credential.
Deactivate(d) ==
  /\ d \in Active
  /\ inactive' = inactive \cup {d}
  /\ UNCHANGED <<limiter, stored, provisioned, revoked, request, faults>>

Revoke(d) ==
  /\ d \in provisioned \ revoked
  /\ revoked' = revoked \cup {d}
  /\ UNCHANGED <<limiter, stored, provisioned, inactive, request, faults>>

Tick ==
  /\ IF ttl = 1 THEN count' = 0 /\ ttl' = Forever
     ELSE count' = count /\ ttl' = IF ttl = Forever THEN Forever ELSE ttl - 1
  /\ IF cacheTtl <= 1 THEN cache' = None /\ cacheTtl' = 0
     ELSE cache' = cache /\ cacheTtl' = cacheTtl - 1
  /\ passed' = [n \in Periods |-> IF n = 1 THEN 0 ELSE passed[n - 1]]
  /\ UNCHANGED <<rows, request, faults>>

-----------------------------------------------------------------------------
Handle(r) ==
  Arm(r) \/ Hit(r) \/ Miss(r) \/ Select(r) \/ SetCache(r)

Next ==
  \/ \E r \in Requests : (\E k \in Devices : Arrive(r, k)) \/ Handle(r) \/ Fail(r)
  \/ \E d \in Devices : Provision(d) \/ Deactivate(d) \/ Revoke(d)
  \/ Tick

Spec == Init /\ [][Next]_vars

\* Awaits end, time passes, and devices go on reporting.
FairSpec ==
  /\ Spec
  /\ \A r \in Requests : WF_vars(Handle(r)) /\ WF_vars(\E k \in Devices : Arrive(r, k))
  /\ WF_vars(Tick)

-----------------------------------------------------------------------------
(* The limiter counts in windows that begin with a request, so what it    *)
(* lets through in any period of Window ticks is twice the limit at most,  *)
(* whatever happens between INCR and EXPIRE.                               *)
TwiceTheLimit == passed[Window] <= 2 * Limit

(* Nobody is locked out for good: a counter that was left without an      *)
(* expiry gets one from the next request, also from one that it rejects.   *)
LockoutEnds == count > Limit ~> count <= Limit

(* A device that is deactivated, or whose credential is, is out of the     *)
(* cache in the end, and stays out, however many requests hit the cache    *)
(* and read the rows before.                                               *)
RevokedEnds == \A d \in Devices : <>[](d \in inactive \cup revoked => cache # d)

(* "Enforce uniqueness of device_code under the site": a request that      *)
(* carries the key of an active device, not revoked, is taken for that     *)
(* device's, when the cache or the table is asked and no call fails.       *)
OwnKeyIsAccepted ==
  [][\A r \in Requests :
       pc[r] # pc'[r] /\ faults' = faults /\ key[r] \in Active \ revoked =>
         /\ pc[r] = "get" /\ pc'[r] = "idle" => cache = key[r]
         /\ pc[r] = "select" => found'[r] = key[r]]_vars
=============================================================================
