--------------------------- MODULE IngestGateProofs ---------------------------
(***************************************************************************)
(* IngestGate for any number of requests, devices and faults and for every *)
(* limit, window and life of the cache.                                    *)
(***************************************************************************)
EXTENDS IngestGate, TLAPS

USE LimitsArePositive, FaultsAreNatural, NoneIsNoDevice
    DEF LimitsArePositive, FaultsAreNatural, NoneIsNoDevice

\* What the counter has let through since it began.
Own == IF count > Limit THEN Limit ELSE count

(***************************************************************************)
(* The counter began k - 1 ticks ago: all that passed in the last k ticks  *)
(* is its own, and what passed before was let through by one other.  Once  *)
(* it has an expiry it lives until no older pass is within the window.     *)
(***************************************************************************)
BeganBefore(k) ==
  /\ passed[k] <= Own
  /\ passed[Window] - passed[k] <= Limit
  /\ ttl # Forever => k + ttl > Window

TwoCounters ==
  /\ \A n \in Periods : n < Window => passed[n] <= passed[n + 1]
  /\ \E k \in Periods : BeganBefore(k)
-----------------------------------------------------------------------------
\* Init and every step of the handler, the operator and the clock keep the types.
LEMMA TypeInit == Init => TypeOK
  BY DEF Init, TypeOK, Periods, Points

LEMMA TypeNext == TypeOK /\ [Next]_vars => TypeOK'
<1> SUFFICES ASSUME TypeOK, [Next]_vars PROVE TypeOK'
  OBVIOUS
<1> USE DEF TypeOK, Goto, Points, limiter, stored, rows, request
<1>1. ASSUME NEW r \in Requests, NEW k \in Devices, Arrive(r, k) PROVE TypeOK'
  <2>1. pc' \in [Requests -> Points] /\ key' \in [Requests -> Devices]
        /\ found' \in [Requests -> Devices \cup {None}]
    BY <1>1 DEF Arrive, Proceed, Count
  <2>2. count' \in 0..(Limit + 1) /\ count' # 0 /\ UNCHANGED ttl
    BY <1>1 DEF Arrive, Count
  <2>3. passed' \in [Periods -> Nat]
    BY <1>1 DEF Arrive, Count
  <2>4. UNCHANGED <<cache, cacheTtl, provisioned, inactive, revoked, faults>>
    BY <1>1 DEF Arrive, Count
  <2>5. \A q \in Requests : pc'[q] = "set" <=> found'[q] # None
    BY <1>1 DEF Arrive, Proceed, Count
  <2> QED
    BY <2>1, <2>2, <2>3, <2>4, <2>5
<1>2. ASSUME NEW r \in Requests, Arm(r) PROVE TypeOK'
  BY <1>2 DEF Arm
<1>3. ASSUME NEW r \in Requests, Hit(r) \/ Miss(r) PROVE TypeOK'
  BY <1>3 DEF Hit, Miss
<1>4. ASSUME NEW r \in Requests, Select(r) PROVE TypeOK'
  BY <1>4 DEF Select, Active
<1>5. ASSUME NEW r \in Requests, SetCache(r) PROVE TypeOK'
  BY <1>5 DEF SetCache, Fill
<1>6. ASSUME NEW r \in Requests, Fail(r) PROVE TypeOK'
  BY <1>6 DEF Fail, Fill
<1>7. ASSUME NEW d \in Devices, Provision(d) \/ Deactivate(d) \/ Revoke(d) PROVE TypeOK'
  BY <1>7 DEF Provision, Deactivate, Revoke, Active
<1>8. CASE Tick
  <2>1. passed' \in [Periods -> Nat]
    <3>1. \A n \in Periods : n # 1 => n - 1 \in Periods
      BY DEF Periods
    <3> QED
      BY <1>8, <3>1 DEF Tick
  <2> QED
    BY <1>8, <2>1 DEF Tick
<1>9. CASE UNCHANGED vars
  BY <1>9 DEF vars
<1> QED
  BY <1>1, <1>2, <1>3, <1>4, <1>5, <1>6, <1>7, <1>8, <1>9 DEF Next, Handle

(* TypeOK: the counter stops behind its limit, has no expiry unless it    *)
(* exists, and what is cached has a life and is a device.                  *)
THEOREM TypeCorrect == Spec => []TypeOK
  BY TypeInit, TypeNext, PTL DEF Spec

-----------------------------------------------------------------------------
\* An INCR within the limit counts for its counter and for every period alike.
LEMMA ArriveKeepsTwo ==
  ASSUME TypeOK, TwoCounters, NEW r \in Requests, NEW k \in Devices, Arrive(r, k)
  PROVE  TwoCounters'
<1>1. PICK m \in Periods : BeganBefore(m)
  BY DEF TwoCounters
<1>2. count \in Nat /\ passed \in [Periods -> Nat] /\ Window \in Periods
  BY DEF TypeOK, Periods
<1>3. CASE count' > Limit
  <2>1. UNCHANGED <<passed, ttl>> /\ Own <= Own' /\ Own \in Nat /\ Own' \in Nat
    BY <1>2, <1>3 DEF Arrive, Count, Own
  <2>2. BeganBefore(m)'
    BY <1>1, <1>2, <2>1 DEF BeganBefore
  <2> QED
    BY <2>1, <2>2 DEF TwoCounters
<1>4. CASE ~(count' > Limit)
  <2>1. /\ passed' = [n \in Periods |-> passed[n] + 1]
        /\ Own' = Own + 1 /\ Own \in Nat /\ UNCHANGED ttl
    BY <1>2, <1>4 DEF Arrive, Count, Own
  <2>2. BeganBefore(m)'
    <3>1. passed'[m] = passed[m] + 1 /\ passed'[Window] = passed[Window] + 1
      BY <1>2, <2>1
    <3> QED
      BY <1>1, <1>2, <2>1, <3>1 DEF BeganBefore
  <2>3. \A n \in Periods : n < Window => n + 1 \in Periods
    BY DEF Periods
  <2>4. \A n \in Periods : n < Window => passed'[n] <= passed'[n + 1]
    BY <1>2, <2>1, <2>3 DEF TwoCounters
  <2> QED
    BY <2>2, <2>4 DEF TwoCounters
<1> QED
  BY <1>3, <1>4

\* EXPIRE gives the counter a whole window, from whatever request it comes.
LEMMA ArmKeepsTwo ==
  ASSUME TypeOK, TwoCounters, NEW r \in Requests, Arm(r)
  PROVE  TwoCounters'
<1>1. PICK m \in Periods : BeganBefore(m)
  BY DEF TwoCounters
<1>2. UNCHANGED <<passed, count>> /\ ttl' \in {Window, Forever}
  BY DEF Arm
<1>3. BeganBefore(m)'
  <2>1. Own' = Own /\ passed' = passed
    BY <1>2 DEF Own
  <2>2. m + Window > Window
    BY DEF Periods
  <2>3. ttl' # Forever => m + ttl' > Window
    BY <1>2, <2>2
  <2> QED
    BY <1>1, <2>1, <2>3 DEF BeganBefore
<1> QED
  BY <1>2, <1>3 DEF TwoCounters

\* A counter that expires owns all that passed within the window, so that its
\* successor starts with one counter before it.
LEMMA TickKeepsTwo ==
  ASSUME TypeOK, TwoCounters, Tick
  PROVE  TwoCounters'
<1>1. PICK m \in Periods : BeganBefore(m)
  BY DEF TwoCounters
<1>2. /\ passed \in [Periods -> Nat] /\ Window \in Periods /\ 1 \in Periods
      /\ count \in Nat /\ ttl \in 1..Window \cup {Forever}
      /\ Own \in Nat /\ Own <= Limit /\ Own' \in Nat
  BY DEF TypeOK, Periods, Own, Tick
<1>3. /\ \A n \in Periods : n # 1 => n - 1 \in Periods
      /\ \A n \in Periods : n < Window => n + 1 \in Periods
  BY DEF Periods
<1>4. \A n \in Periods : passed'[n] = IF n = 1 THEN 0 ELSE passed[n - 1]
  BY DEF Tick
<1>5. passed'[Window] <= passed[Window] /\ passed'[Window] \in Nat
  <2>1. CASE Window = 1
    BY <1>2, <1>4, <2>1
  <2>2. CASE Window # 1
    <3>1. Window - 1 \in Periods /\ Window - 1 < Window /\ (Window - 1) + 1 = Window
      BY <1>2, <1>3, <2>2
    <3>2. passed[Window - 1] <= passed[Window]
      BY <3>1 DEF TwoCounters
    <3> QED
      BY <1>2, <1>4, <2>2, <3>1, <3>2
  <2> QED
    BY <2>1, <2>2
<1>6. ASSUME NEW n \in Periods, n < Window PROVE passed'[n] <= passed'[n + 1]
  <2>1. n + 1 \in Periods /\ n + 1 # 1 /\ (n + 1) - 1 = n
    BY <1>3, <1>6 DEF Periods
  <2>2. passed'[n + 1] = passed[n]
    BY <1>4, <2>1
  <2>3. CASE n = 1
    BY <1>2, <1>4, <2>2, <2>3
  <2>4. CASE n # 1
    <3>1. n - 1 \in Periods /\ n - 1 < Window /\ (n - 1) + 1 = n
      BY <1>3, <1>6, <2>4 DEF Periods
    <3>2. passed[n - 1] <= passed[n]
      BY <3>1 DEF TwoCounters
    <3> QED
      BY <1>4, <2>2, <2>4, <3>2
  <2> QED
    BY <2>3, <2>4
<1>7. CASE ttl = 1
  <2>1. m = Window
    BY <1>1, <1>7 DEF BeganBefore, Periods, Forever
  <2>2. passed'[1] = 0 /\ passed'[Window] <= Limit /\ ttl' = Forever
    BY <1>1, <1>2, <1>4, <1>5, <1>7, <2>1 DEF BeganBefore, Tick
  <2>3. BeganBefore(1)'
    BY <1>2, <1>5, <2>2 DEF BeganBefore
  <2> QED
    BY <1>2, <1>6, <2>3 DEF TwoCounters
<1>8. CASE ttl # 1
  <2>1. Own' = Own /\ ttl' = IF ttl = Forever THEN Forever ELSE ttl - 1
    BY <1>8 DEF Tick, Own
  <2>2. CASE m = Window
    <3>1. BeganBefore(Window)'
      BY <1>1, <1>2, <1>5, <1>8, <2>1, <2>2 DEF BeganBefore, Forever
    <3> QED
      BY <1>2, <1>6, <3>1 DEF TwoCounters
  <2>3. CASE m # Window
    <3>1. m + 1 \in Periods /\ m + 1 # 1 /\ (m + 1) - 1 = m /\ m \in Nat
      BY <1>3, <2>3 DEF Periods
    <3>2. passed'[m + 1] = passed[m]
      BY <1>4, <3>1
    <3>3. BeganBefore(m + 1)'
      BY <1>1, <1>2, <1>5, <1>8, <2>1, <3>1, <3>2 DEF BeganBefore, Forever
    <3> QED
      BY <1>6, <3>1, <3>3 DEF TwoCounters
  <2> QED
    BY <2>2, <2>3
<1> QED
  BY <1>7, <1>8

(* TwoCounters: at any time the passes of the last Window ticks belong to  *)
(* the counter there is and to one before it, however INCRs and EXPIREs of *)
(* different requests interleave and whichever of them fail.               *)
THEOREM TwoCountersAlways == Spec => []TwoCounters
<1>1. Init => TwoCounters
  <2> SUFFICES ASSUME Init PROVE TwoCounters
    OBVIOUS
  <2>1. BeganBefore(1) /\ 1 \in Periods
    BY DEF Init, BeganBefore, Own, Periods
  <2>2. \A n \in Periods : n < Window => n + 1 \in Periods
    BY DEF Periods
  <2> QED
    BY <2>1, <2>2 DEF Init, TwoCounters
<1>2. TypeOK /\ TwoCounters /\ [Next]_vars => TwoCounters'
  <2> SUFFICES ASSUME TypeOK, TwoCounters, [Next]_vars PROVE TwoCounters'
    OBVIOUS
  <2>1. ASSUME UNCHANGED limiter PROVE TwoCounters'
    BY <2>1 DEF TwoCounters, BeganBefore, Own, limiter
  <2>2. ASSUME NEW r \in Requests,
               Hit(r) \/ Miss(r) \/ Select(r) \/ SetCache(r) \/ Fail(r)
        PROVE  UNCHANGED limiter
    BY <2>2 DEF Hit, Miss, Select, SetCache, Fail
  <2>3. ASSUME NEW d \in Devices, Provision(d) \/ Deactivate(d) \/ Revoke(d)
        PROVE  UNCHANGED limiter
    BY <2>3 DEF Provision, Deactivate, Revoke
  <2>4. CASE UNCHANGED vars
    BY <2>1, <2>4 DEF vars
  <2> QED
    BY <2>1, <2>2, <2>3, <2>4, ArriveKeepsTwo, ArmKeepsTwo, TickKeepsTwo DEF Next, Handle
<1> QED
  BY <1>1, <1>2, TypeCorrect, PTL DEF Spec

(* TwiceTheLimit: no period of Window ticks lets more than twice the limit *)
(* of a device code's requests through the limiter of get_current_device.  *)
THEOREM TwiceTheLimitAlways == Spec => []TwiceTheLimit
<1>1. TypeOK /\ TwoCounters => TwiceTheLimit
  <2> SUFFICES ASSUME TypeOK, TwoCounters PROVE TwiceTheLimit
    OBVIOUS
  <2>1. PICK k \in Periods : BeganBefore(k)
    BY DEF TwoCounters
  <2>2. /\ passed[k] \in Nat /\ passed[Window] \in Nat
        /\ Own \in Nat /\ Own <= Limit
    BY DEF TypeOK, Periods, Own
  <2> QED
    BY <2>1, <2>2 DEF BeganBefore, TwiceTheLimit
<1> QED
  BY <1>1, TypeCorrect, TwoCountersAlways, PTL DEF Spec

-----------------------------------------------------------------------------
\* The device is in the cache, or a request that read its row is about to write it there.
Reaches(d) == cache = d \/ \E r \in Requests : pc[r] = "set" /\ found[r] = d

(* A device that is deactivated, or whose credential is, comes back into   *)
(* the cache only from a request that had read its rows before, never by a *)
(* hit or a new SELECT.                                                    *)
RevokedStaysOut ==
  [][\A d \in inactive \cup revoked : Reaches(d)' => Reaches(d)]_vars

\* Only Select, SetCache and Fail write the cache or bring a request to its SET.
LEMMA OthersReachNothing ==
  ASSUME TypeOK, NEW r \in Requests, pc'[r] # "set",
         \A q \in Requests \ {r} : pc'[q] = pc[q] /\ found'[q] = found[q],
         UNCHANGED cache,
         NEW d \in Devices, Reaches(d)'
  PROVE  Reaches(d)
  BY DEF Reaches

(* RevokedStaysOut: what makes RevokedEnds come true.  Once such a device  *)
(* has expired from the cache and nobody is left who read its rows before, *)
(* get_current_device never caches it again.                               *)
THEOREM RevokedStaysOutAlways == Spec => RevokedStaysOut
<1>1. TypeOK /\ [Next]_vars =>
        [\A d \in inactive \cup revoked : Reaches(d)' => Reaches(d)]_vars
  <2> SUFFICES ASSUME TypeOK, Next, NEW d \in inactive \cup revoked, Reaches(d)'
               PROVE  Reaches(d)
    OBVIOUS
  <2>0. d \in Devices /\ d # None /\ d \notin Active \ revoked
    BY DEF TypeOK, Active
  <2> USE DEF Goto
  <2>1. ASSUME NEW r \in Requests, \/ \E k \in Devices : Arrive(r, k)
                                   \/ Arm(r) \/ Hit(r) \/ Miss(r)
        PROVE  Reaches(d)
    <3>1. pc'[r] # "set" /\ UNCHANGED cache
      BY <2>1 DEF Arrive, Proceed, Count, Arm, Hit, Miss, stored, TypeOK
    <3>2. \A q \in Requests \ {r} : pc'[q] = pc[q] /\ found'[q] = found[q]
      BY <2>1 DEF Arrive, Proceed, Count, Arm, Hit, Miss, TypeOK
    <3> QED
      BY <2>0, <3>1, <3>2, OthersReachNothing
  <2>2. ASSUME NEW r \in Requests, Select(r) PROVE Reaches(d)
    <3>1. UNCHANGED cache /\ \A q \in Requests \ {r} : pc'[q] = pc[q] /\ found'[q] = found[q]
      BY <2>2 DEF Select, TypeOK, stored
    <3>2. \/ found'[r] \in Active \ revoked
          \/ pc'[r] # "set"
      BY <2>2 DEF Select, TypeOK
    <3>3. CASE found'[r] \in Active \ revoked
      BY <2>0, <3>1, <3>3 DEF Reaches
    <3>4. CASE pc'[r] # "set"
      BY <2>0, <3>1, <3>4, OthersReachNothing
    <3> QED
      BY <3>2, <3>3, <3>4
  <2>3. ASSUME NEW r \in Requests, SetCache(r) \/ Fail(r) PROVE Reaches(d)
    <3>1. cache' = cache \/ (cache' = found[r] /\ pc[r] = "set")
      BY <2>3 DEF SetCache, Fail, Fill, stored
    <3>2. pc'[r] # "set"
      BY <2>3 DEF SetCache, Fail, TypeOK
    <3>3. \A q \in Requests \ {r} : pc'[q] = pc[q] /\ found'[q] = found[q]
      BY <2>3 DEF SetCache, Fail, TypeOK
    <3> QED
      BY <3>1, <3>2, <3>3 DEF Reaches
  <2>4. ASSUME NEW e \in Devices, Provision(e) \/ Deactivate(e) \/ Revoke(e)
        PROVE  Reaches(d)
    BY <2>4 DEF Provision, Deactivate, Revoke, Reaches, stored, request
  <2>5. CASE Tick
    BY <2>0, <2>5 DEF Tick, Reaches, request
  <2> QED
    BY <2>1, <2>2, <2>3, <2>4, <2>5 DEF Next, Handle
<1> QED
  BY <1>1, TypeCorrect, PTL DEF Spec, RevokedStaysOut
=============================================================================
