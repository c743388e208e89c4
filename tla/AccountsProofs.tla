----------------------------- MODULE AccountsProofs -----------------------------
(***************************************************************************)
(* Proofs about Accounts for any organizations, emails and requests.       *)
(***************************************************************************)
EXTENDS Accounts, FiniteSetTheorems, TLAPS

\* The requests that await at one of the points P.
At(f, P) == {r \in Requests : f[r] \in P}

Busy    == Points \ {"idle"}
Opening == {"flush", "found", "login"}

\* One if a request is at one of P.
One(p, P) == IF p \in P THEN 1 ELSE 0

(* Requests that will draw a token, open a session or find a token gone    *)
(* count as if they had: each of them has begun, and does so once.         *)
Counted ==
  /\ IsFiniteSet(tokens) /\ IsFiniteSet(At(pc, Busy))
  /\ issued + Cardinality(At(pc, Busy)) <= begun
  /\ sessions + Cardinality(At(pc, Opening)) <= begun
  /\ races + Cardinality(At(pc, {"delete"})) <= begun
  /\ Cardinality(tokens) + Cardinality(At(pc, {"issue"})) <= sessions + races

(* A request that changes a member is from the member's organization, and  *)
(* not a removal of the one whose request it is.                           *)
OwnMembers ==
  \A r \in Requests : pc[r] \in {"member", "write"} =>
     /\ request[r].user[1] = request[r].target[1]
     /\ request[r].op = "remove" => request[r].target # request[r].user

-----------------------------------------------------------------------------
(* A request that goes to a point adds one to the requests there and takes *)
(* one from those where it was.                                            *)
LEMMA Moved ==
  ASSUME pc \in [Requests -> Points], NEW r \in Requests, NEW p \in Points,
         pc' = [pc EXCEPT ![r] = p], NEW P, IsFiniteSet(At(pc, P))
  PROVE  /\ IsFiniteSet(At(pc', P))
         /\ Cardinality(At(pc, P)) \in Nat
         /\ Cardinality(At(pc', P)) = Cardinality(At(pc, P)) + One(p, P) - One(pc[r], P)
<1> DEFINE rest == At(pc, P) \ {r}
<1>1. Cardinality(At(pc, P)) \in Nat
  BY FS_CardinalityType
<1>2. IsFiniteSet(rest) /\ Cardinality(rest) = Cardinality(At(pc, P)) - One(pc[r], P)
  <2>1. r \in At(pc, P) <=> pc[r] \in P
    BY DEF At
  <2> QED BY <1>1, <2>1, FS_RemoveElement DEF One
<1>3. CASE p \in P
  <2>1. At(pc', P) = rest \cup {r}
    BY <1>3 DEF At
  <2>2. r \notin rest
    OBVIOUS
  <2>3. Cardinality(rest \cup {r}) = Cardinality(rest) + 1 /\ IsFiniteSet(rest \cup {r})
    BY <1>2, <2>2, FS_AddElement
  <2>4. One(p, P) = 1 /\ One(pc[r], P) \in {0, 1}
    BY <1>3 DEF One
  <2>5. Cardinality(At(pc', P)) = Cardinality(rest \cup {r}) /\ IsFiniteSet(At(pc', P))
    BY <2>1, <2>3, Zenon
  <2> HIDE DEF rest
  <2> QED BY <1>1, <1>2, <2>3, <2>4, <2>5
<1>4. CASE p \notin P
  <2>1. At(pc', P) = rest
    BY <1>4 DEF At
  <2>2. One(p, P) = 0 /\ One(pc[r], P) \in {0, 1}
    BY <1>4 DEF One
  <2> HIDE DEF rest
  <2> QED BY <1>1, <1>2, <2>1, <2>2
<1> QED BY <1>3, <1>4

(* What a step of a request does to the four counts.                       *)
LEMMA Counts ==
  ASSUME TypeOK, Counted, NEW r \in Requests, NEW p \in Points, pc' = [pc EXCEPT ![r] = p]
  PROVE  /\ IsFiniteSet(At(pc', Busy))
         /\ \A P \in {Busy, Opening, {"delete"}, {"issue"}} :
               /\ Cardinality(At(pc, P)) \in Nat
               /\ Cardinality(At(pc', P)) = Cardinality(At(pc, P)) + One(p, P) - One(pc[r], P)
<1>1. ASSUME NEW P \in {Busy, Opening, {"delete"}, {"issue"}} PROVE IsFiniteSet(At(pc, P))
  <2>1. P \subseteq Busy
    BY DEF Busy, Opening, Points
  <2>2. At(pc, P) \in SUBSET At(pc, Busy)
    BY <2>1 DEF At
  <2> QED BY <2>2, FS_Subset DEF Counted
<1>2. pc \in [Requests -> Points]
  BY DEF TypeOK
<1>3. ASSUME NEW P \in {Busy, Opening, {"delete"}, {"issue"}}
      PROVE  /\ IsFiniteSet(At(pc', P))
             /\ Cardinality(At(pc, P)) \in Nat
             /\ Cardinality(At(pc', P)) = Cardinality(At(pc, P)) + One(p, P) - One(pc[r], P)
  <2>1. IsFiniteSet(At(pc, P))
    BY <1>1
  <2> QED BY <1>2, <2>1, Moved
<1> QED BY <1>3

(* The counters are natural numbers, and so is what is in Redis.           *)
LEMMA Naturals ==
  ASSUME TypeOK, Counted
  PROVE  /\ issued \in Nat /\ begun \in Nat /\ sessions \in Nat /\ races \in Nat
         /\ Cardinality(tokens) \in Nat
<1>1. MaxRequests \in Nat
  BY BoundIsNatural
<1>2. begun \in Nat
  BY <1>1 DEF TypeOK
<1> QED BY <1>1, <1>2, FS_CardinalityType DEF TypeOK, Counted

(* A step that draws no token and does not bring its request to where one  *)
(* is drawn or missed keeps the counts.                                    *)
LEMMA QuietCounted ==
  ASSUME TypeOK, Counted, NEW r \in Requests, NEW p \in Points, pc' = [pc EXCEPT ![r] = p],
         UNCHANGED <<redis, count>>,
         \A P \in {Busy, Opening, {"delete"}, {"issue"}} : p \in P => pc[r] \in P
  PROVE  Counted'
<1>1. UNCHANGED <<tokens, issued, begun, sessions, races>>
  BY DEF redis, count
<1>2. ASSUME NEW P \in {Busy, Opening, {"delete"}, {"issue"}}
      PROVE  /\ Cardinality(At(pc, P)) \in Nat /\ Cardinality(At(pc', P)) \in Int
             /\ Cardinality(At(pc', P)) <= Cardinality(At(pc, P))
  <2>1. One(p, P) \in {0, 1} /\ One(pc[r], P) \in {0, 1} /\ One(p, P) <= One(pc[r], P)
    BY DEF One
  <2>2. /\ Cardinality(At(pc, P)) \in Nat
        /\ Cardinality(At(pc', P)) = Cardinality(At(pc, P)) + One(p, P) - One(pc[r], P)
    BY Counts
  <2> QED BY <2>1, <2>2
<1>3. IsFiniteSet(At(pc', Busy))
  BY Counts
<1>4. /\ Cardinality(At(pc', Busy)) <= Cardinality(At(pc, Busy))
      /\ Cardinality(At(pc', Opening)) <= Cardinality(At(pc, Opening))
      /\ Cardinality(At(pc', {"delete"})) <= Cardinality(At(pc, {"delete"}))
      /\ Cardinality(At(pc', {"issue"})) <= Cardinality(At(pc, {"issue"}))
      /\ Cardinality(At(pc, Busy)) \in Nat /\ Cardinality(At(pc', Busy)) \in Int
      /\ Cardinality(At(pc, Opening)) \in Nat /\ Cardinality(At(pc', Opening)) \in Int
      /\ Cardinality(At(pc, {"delete"})) \in Nat /\ Cardinality(At(pc', {"delete"})) \in Int
      /\ Cardinality(At(pc, {"issue"})) \in Nat /\ Cardinality(At(pc', {"issue"})) \in Int
  BY <1>2
<1> QED BY <1>1, <1>3, <1>4, Naturals DEF Counted

\* What a step from one point to another does to the four counts, spelt out.
Shift(p, from) ==
  /\ IsFiniteSet(At(pc', Busy))
  /\ Cardinality(At(pc, Busy)) \in Nat
  /\ Cardinality(At(pc, Opening)) \in Nat
  /\ Cardinality(At(pc, {"delete"})) \in Nat
  /\ Cardinality(At(pc, {"issue"})) \in Nat
  /\ Cardinality(At(pc', Busy)) = Cardinality(At(pc, Busy)) + One(p, Busy) - One(from, Busy)
  /\ Cardinality(At(pc', Opening)) =
       Cardinality(At(pc, Opening)) + One(p, Opening) - One(from, Opening)
  /\ Cardinality(At(pc', {"delete"})) =
       Cardinality(At(pc, {"delete"})) + One(p, {"delete"}) - One(from, {"delete"})
  /\ Cardinality(At(pc', {"issue"})) =
       Cardinality(At(pc, {"issue"})) + One(p, {"issue"}) - One(from, {"issue"})

LEMMA FourCounts ==
  ASSUME TypeOK, Counted, NEW r \in Requests, NEW p \in Points, pc' = [pc EXCEPT ![r] = p]
  PROVE  Shift(p, pc[r])
BY Counts DEF Shift

(* A request that begins is counted as begun.                              *)
LEMMA BeginCounted ==
  ASSUME TypeOK, Counted, NEW r \in Requests, NEW p \in Points, p \notin {"idle", "issue"},
         NEW about, Begin(r, p, about)
  PROVE  Counted'
<1>1. "idle" = pc[r] /\ "idle" \in Points /\ pc' = [pc EXCEPT ![r] = p] /\ begun' = begun + 1
  BY DEF Begin, Idle, Points
<1>2. UNCHANGED <<tokens, issued, sessions, races>>
  BY DEF Begin, redis
<1>3. /\ One(p, Busy) = 1 /\ One("idle", Busy) = 0
      /\ One(p, Opening) \in {0, 1} /\ One("idle", Opening) = 0
      /\ One(p, {"delete"}) \in {0, 1} /\ One("idle", {"delete"}) = 0
      /\ One(p, {"issue"}) = 0 /\ One("idle", {"issue"}) = 0
  BY DEF One, Busy, Opening
<1>4. /\ IsFiniteSet(At(pc', Busy))
      /\ Cardinality(At(pc, Busy)) \in Nat
      /\ Cardinality(At(pc, Opening)) \in Nat
      /\ Cardinality(At(pc, {"delete"})) \in Nat
      /\ Cardinality(At(pc', Busy)) = Cardinality(At(pc, Busy)) + 1
      /\ Cardinality(At(pc', Opening)) \in Int
      /\ Cardinality(At(pc', Opening)) <= Cardinality(At(pc, Opening)) + 1
      /\ Cardinality(At(pc', {"delete"})) \in Int
      /\ Cardinality(At(pc', {"delete"})) <= Cardinality(At(pc, {"delete"})) + 1
      /\ Cardinality(At(pc', {"issue"})) = Cardinality(At(pc, {"issue"}))
  <2>1. Shift(p, pc[r])
    BY <1>1, FourCounts
  <2>2. Shift(p, "idle")
    BY <2>1, <1>1
  <2> QED BY <2>2, <1>3 DEF Shift
<1> QED BY <1>1, <1>2, <1>4, Naturals DEF Counted

(* The COMMIT that opens a session brings its request to the drawing of a  *)
(* token: the session pays for it.                                         *)
LEMMA OpenCounted ==
  ASSUME TypeOK, Counted, NEW r \in Requests, Found(r) \/ CommitLogin(r)
  PROVE  Counted'
<1>1. /\ pc[r] \in {"found", "login"} /\ pc' = [pc EXCEPT ![r] = "issue"]
      /\ sessions' = sessions + 1 /\ UNCHANGED <<tokens, issued, begun, races>>
  BY DEF Found, CommitLogin, Goto, redis
<1>2. PICK from \in {"found", "login"} : from = pc[r]
  BY <1>1
<1>3. from \in Points /\ "issue" \in Points
  BY <1>2 DEF Points
<1>4. /\ One("issue", Busy) = 1 /\ One(from, Busy) = 1
      /\ One("issue", Opening) = 0 /\ One(from, Opening) = 1
      /\ One("issue", {"delete"}) = 0 /\ One(from, {"delete"}) = 0
      /\ One("issue", {"issue"}) = 1 /\ One(from, {"issue"}) = 0
  BY <1>2 DEF One, Busy, Opening, Points
<1>5. /\ IsFiniteSet(At(pc', Busy))
      /\ Cardinality(At(pc, Opening)) \in Nat
      /\ Cardinality(At(pc, {"issue"})) \in Nat
      /\ Cardinality(At(pc', Busy)) = Cardinality(At(pc, Busy))
      /\ Cardinality(At(pc', Opening)) = Cardinality(At(pc, Opening)) - 1
      /\ Cardinality(At(pc', {"delete"})) = Cardinality(At(pc, {"delete"}))
      /\ Cardinality(At(pc', {"issue"})) = Cardinality(At(pc, {"issue"})) + 1
  <2>1. Shift("issue", pc[r])
    BY <1>1, <1>3, FourCounts
  <2>2. Shift("issue", from)
    BY <2>1, <1>2
  <2> QED BY <2>2, <1>4 DEF Shift
<1> QED BY <1>1, <1>5, Naturals DEF Counted

(* A refresh takes its token away before it draws another, or counts as a  *)
(* race.                                                                   *)
LEMMA DeleteCounted ==
  ASSUME TypeOK, Counted, NEW r \in Requests, DeleteOld(r)
  PROVE  Counted'
<1> DEFINE old == {t \in tokens : t.id = request[r].token}
<1>1. /\ "delete" = pc[r] /\ pc' = [pc EXCEPT ![r] = "issue"]
      /\ tokens' = tokens \ old /\ races' = IF old = {} THEN races + 1 ELSE races
      /\ UNCHANGED <<issued, begun, sessions>>
  BY DEF DeleteOld, Goto
<1>2. "delete" \in Points /\ "issue" \in Points
  BY DEF Points
<1>3. /\ One("issue", Busy) = 1 /\ One("delete", Busy) = 1
      /\ One("issue", Opening) = 0 /\ One("delete", Opening) = 0
      /\ One("issue", {"delete"}) = 0 /\ One("delete", {"delete"}) = 1
      /\ One("issue", {"issue"}) = 1 /\ One("delete", {"issue"}) = 0
  BY DEF One, Busy, Opening, Points
<1>4. /\ IsFiniteSet(At(pc', Busy))
      /\ Cardinality(At(pc, {"delete"})) \in Nat
      /\ Cardinality(At(pc, {"issue"})) \in Nat
      /\ Cardinality(At(pc', Busy)) = Cardinality(At(pc, Busy))
      /\ Cardinality(At(pc', Opening)) = Cardinality(At(pc, Opening))
      /\ Cardinality(At(pc', {"delete"})) = Cardinality(At(pc, {"delete"})) - 1
      /\ Cardinality(At(pc', {"issue"})) = Cardinality(At(pc, {"issue"})) + 1
  <2>1. Shift("issue", pc[r])
    BY <1>1, <1>2, FourCounts
  <2>2. Shift("issue", "delete")
    BY <2>1, <1>1
  <2> QED BY <2>2, <1>3 DEF Shift
<1>5. IsFiniteSet(tokens)
  BY DEF Counted
<1>6. CASE old = {}
  <2>1. tokens' = tokens /\ races' = races + 1
    BY <1>1, <1>6
  <2>2. IsFiniteSet(tokens') /\ Cardinality(tokens') = Cardinality(tokens)
    BY <1>5, <2>1
  <2> HIDE DEF old
  <2> QED BY <1>1, <1>4, <2>1, <2>2, Naturals DEF Counted
<1>7. CASE old # {}
  <2>1. PICK t \in tokens : t \in old
    BY <1>7
  <2>2. IsFiniteSet(tokens \ {t}) /\ Cardinality(tokens \ {t}) = Cardinality(tokens) - 1
    BY <1>5, FS_RemoveElement
  <2>3. tokens' \in SUBSET (tokens \ {t})
    BY <1>1, <2>1
  <2>4. IsFiniteSet(tokens') /\ Cardinality(tokens') <= Cardinality(tokens) - 1
    BY <2>2, <2>3, FS_Subset
  <2>5. Cardinality(tokens') \in Nat
    BY <2>4, FS_CardinalityType
  <2>6. races' = races
    BY <1>1, <1>7
  <2> HIDE DEF old
  <2> QED BY <1>1, <1>4, <2>4, <2>5, <2>6, Naturals DEF Counted
<1> QED BY <1>6, <1>7

(* A token that is stored was counted before it was.                       *)
LEMMA IssueCounted ==
  ASSUME TypeOK, Counted, NEW r \in Requests, Issue(r)
  PROVE  Counted'
<1> DEFINE new == [id |-> issued', user |-> request[r].user]
<1>1. /\ "issue" = pc[r] /\ pc' = [pc EXCEPT ![r] = "idle"]
      /\ issued' = issued + 1 /\ tokens' = tokens \cup {new}
      /\ UNCHANGED <<begun, sessions, races>>
  BY DEF Issue, Goto, count
<1>2. "idle" \in Points /\ "issue" \in Points
  BY DEF Points
<1>3. /\ One("idle", Busy) = 0 /\ One("issue", Busy) = 1
      /\ One("idle", Opening) = 0 /\ One("issue", Opening) = 0
      /\ One("idle", {"delete"}) = 0 /\ One("issue", {"delete"}) = 0
      /\ One("idle", {"issue"}) = 0 /\ One("issue", {"issue"}) = 1
  BY DEF One, Busy, Opening, Points
<1>4. /\ IsFiniteSet(At(pc', Busy))
      /\ Cardinality(At(pc, Busy)) \in Nat
      /\ Cardinality(At(pc, {"issue"})) \in Nat
      /\ Cardinality(At(pc', Busy)) = Cardinality(At(pc, Busy)) - 1
      /\ Cardinality(At(pc', Opening)) = Cardinality(At(pc, Opening))
      /\ Cardinality(At(pc', {"delete"})) = Cardinality(At(pc, {"delete"}))
      /\ Cardinality(At(pc', {"issue"})) = Cardinality(At(pc, {"issue"})) - 1
  <2>1. Shift("idle", pc[r])
    BY <1>1, <1>2, FourCounts
  <2>2. Shift("idle", "issue")
    BY <2>1, <1>1
  <2> QED BY <2>2, <1>3 DEF Shift
<1>5. /\ IsFiniteSet(tokens \cup {new})
      /\ Cardinality(tokens \cup {new}) =
           IF new \in tokens THEN Cardinality(tokens) ELSE Cardinality(tokens) + 1
  <2> HIDE DEF new
  <2> QED BY FS_AddElement DEF Counted
<1>6. /\ IsFiniteSet(tokens') /\ Cardinality(tokens') \in Int
      /\ Cardinality(tokens') <= Cardinality(tokens) + 1
  <2> HIDE DEF new
  <2> QED BY <1>1, <1>5, Naturals
<1> HIDE DEF new
<1> QED BY <1>1, <1>4, <1>6, Naturals DEF Counted

(* Logout takes tokens away.                                               *)
LEMMA LogoutCounted ==
  ASSUME TypeOK, Counted, NEW id \in Tokens, Logout(id)
  PROVE  Counted'
<1>1. tokens' \in SUBSET tokens /\ UNCHANGED <<issued, pc, begun, sessions, races>>
  BY DEF Logout, count
<1>2. IsFiniteSet(tokens') /\ Cardinality(tokens') <= Cardinality(tokens)
  BY <1>1, FS_Subset DEF Counted
<1>3. Cardinality(tokens') \in Nat
  BY <1>2, FS_CardinalityType
<1>4. Cardinality(At(pc, {"issue"})) \in Nat
  <2>1. At(pc, {"issue"}) \in SUBSET At(pc, Busy)
    BY DEF At, Busy, Points
  <2> QED BY <2>1, FS_Subset, FS_CardinalityType DEF Counted
<1> QED BY <1>1, <1>2, <1>3, <1>4, Naturals DEF Counted

(* The counts are inductive.                                               *)
LEMMA CountedStep == TypeOK /\ Counted /\ [Next]_vars => Counted'
<1> SUFFICES ASSUME TypeOK, Counted, [Next]_vars PROVE Counted'
  OBVIOUS
<1>1. ASSUME NEW r \in Requests,
             \/ \E u \in Users : Register(r, u) \/ ManageMember(r, u)
             \/ \E email \in Emails : Login(r, email)
             \/ \E t \in tokens : Refresh(r, t)
      PROVE  Counted'
  <2>1. PICK p \in {"flush", "email", "member", "login", "delete"} : \E about : Begin(r, p, about)
    BY <1>1 DEF Register, ManageMember, Authenticate, Login, Refresh
  <2>2. p \in Points /\ p \notin {"idle", "issue"}
    BY DEF Points
  <2> QED BY <2>1, <2>2, BeginCounted
<1>2. ASSUME NEW r \in Requests,
             \/ Flush(r) \/ CheckEmail(r) \/ InsertMember(r) \/ LoadMember(r) \/ WriteMember(r)
             \/ Abort(r)
      PROVE  Counted'
  <2>1. PICK p \in {"idle", "found", "insert", "write"} :
             pc' = [pc EXCEPT ![r] = p] /\ (p = "found" => pc[r] = "flush") /\ pc[r] # "idle"
    BY <1>2 DEF Flush, CheckEmail, InsertMember, LoadMember, WriteMember, Abort, Goto, Idle
  <2>2. UNCHANGED <<redis, count>>
    BY <1>2 DEF Flush, CheckEmail, InsertMember, LoadMember, WriteMember, Abort
  <2>3. p \in Points /\ pc[r] \in Points
    BY DEF Points, TypeOK
  <2>4. \A P \in {Busy, Opening, {"delete"}, {"issue"}} : p \in P => pc[r] \in P
    BY <2>1, <2>3 DEF Busy, Opening, Points
  <2> QED BY <2>1, <2>2, <2>3, <2>4, QuietCounted
<1>3. CASE UNCHANGED vars
  BY <1>3 DEF vars, redis, count, Counted
<1> QED
  BY <1>1, <1>2, <1>3, OpenCounted, DeleteCounted, IssueCounted, LogoutCounted DEF Next, Step

(* The counts hold initially.                                              *)
LEMMA CountedInit == Init => Counted
<1> SUFFICES ASSUME Init PROVE Counted
  OBVIOUS
<1>1. \A P \in {Busy, Opening, {"delete"}, {"issue"}} : At(pc, P) = {}
  BY DEF Init, At, Busy, Opening
<1>2. /\ At(pc, Busy) = {} /\ At(pc, Opening) = {}
      /\ At(pc, {"delete"}) = {} /\ At(pc, {"issue"}) = {}
  BY <1>1
<1> QED BY <1>2, FS_EmptySet DEF Init, Counted

-----------------------------------------------------------------------------
(* What the counts say of the bounds in TypeOK, after a step.              *)
LEMMA CountedBounds ==
  ASSUME Counted', begun' \in 0..MaxRequests, issued' \in Nat, sessions' \in Nat, races' \in Nat
  PROVE  issued' \in 0..begun' /\ sessions' \in 0..begun' /\ races' \in 0..begun'
<1>1. /\ Cardinality(At(pc', Busy)) \in Nat
      /\ Cardinality(At(pc', Opening)) \in Nat
      /\ Cardinality(At(pc', {"delete"})) \in Nat
  <2> SUFFICES \A P \in {Busy, Opening, {"delete"}} : Cardinality(At(pc', P)) \in Nat
    OBVIOUS
  <2> SUFFICES ASSUME NEW P \in {Busy, Opening, {"delete"}}
               PROVE  Cardinality(At(pc', P)) \in Nat
    OBVIOUS
  <2>1. P \subseteq Busy
    BY DEF Busy, Opening, Points
  <2>2. At(pc', P) \in SUBSET At(pc', Busy)
    BY <2>1 DEF At
  <2>3. IsFiniteSet(At(pc', Busy))
    BY DEF Counted
  <2> QED BY <2>2, <2>3, FS_Subset, FS_CardinalityType
<1>2. begun' \in Nat
  BY BoundIsNatural
<1> QED BY <1>1, <1>2 DEF Counted

(* A request that goes idle is about nothing any more; one that goes on    *)
(* keeps what it is about.                                                 *)
LEMMA GotoTypes ==
  ASSUME TypeOK, NEW r \in Requests, NEW p \in Points, Goto(r, p), ~Idle(r)
  PROVE  /\ pc' \in [Requests -> Points]
         /\ request' \in [Requests -> Request \cup {NoRequest}]
         /\ \A q \in Requests : Idle(q)' <=> request'[q] = NoRequest
BY DEF TypeOK, Goto, Idle

LEMMA BeginTypes ==
  ASSUME TypeOK, NEW r \in Requests, NEW p \in Points, p # "idle",
         NEW about \in Request, Begin(r, p, about)
  PROVE  /\ pc' \in [Requests -> Points]
         /\ request' \in [Requests -> Request \cup {NoRequest}]
         /\ \A q \in Requests : Idle(q)' <=> request'[q] = NoRequest
         /\ begun' \in 0..MaxRequests
         /\ UNCHANGED <<rows, redis, sessions, races>>
BY NoRequestIsNone, BoundIsNatural DEF TypeOK, Begin, Idle

(* What requests are about, for each that begins.                          *)
LEMMA FromType ==
  ASSUME TypeOK, NEW u \in Users
  PROVE  /\ From(u) \in Request
         /\ \A o \in Orgs, e \in Emails : <<o, e>> \in Users
         /\ u[1] \in Orgs /\ u = <<u[1], u[2]>>
         /\ \A v \in Users, op \in {"add", "role", "remove"}, new \in Roles :
               [From(u) EXCEPT !.target = v, !.op = op, !.new = new] \in Request
         /\ \A i \in Tokens : [From(u) EXCEPT !.token = i] \in Request
<1>1. 0 \in 0..MaxRequests /\ Tokens \subseteq 0..MaxRequests
  BY BoundIsNatural DEF Tokens
<1>2. From(u) \in Request
  BY <1>1 DEF From, Request, Roles
<1>3. /\ \A o \in Orgs, e \in Emails : <<o, e>> \in Users
      /\ u[1] \in Orgs /\ u = <<u[1], u[2]>>
  BY DEF Users
<1>4. ASSUME NEW v \in Users, NEW op \in {"add", "role", "remove"}, NEW new \in Roles
      PROVE  [From(u) EXCEPT !.target = v, !.op = op, !.new = new] \in Request
  BY <1>2, <1>4 DEF Request
<1>5. ASSUME NEW i \in Tokens PROVE [From(u) EXCEPT !.token = i] \in Request
  BY <1>1, <1>2, <1>5 DEF Request
<1> QED BY <1>2, <1>3, <1>4, <1>5

(* Every step keeps the types; the counts bound the tokens' numbers.       *)
LEMMA TypeStep == TypeOK /\ Counted /\ Counted' /\ [Next]_vars => TypeOK'
<1> SUFFICES ASSUME TypeOK, Counted, Counted', [Next]_vars PROVE TypeOK'
  OBVIOUS
<1>1. ASSUME NEW r \in Requests,
             \/ \E u \in Users : Register(r, u) \/ ManageMember(r, u)
             \/ \E email \in Emails : Login(r, email)
             \/ \E t \in tokens : Refresh(r, t)
      PROVE  TypeOK'
  <2>1. \E p \in Points \ {"idle"} : \E about \in Request : Begin(r, p, about)
    <3>1. CASE \E u \in Users : Register(r, u)
      BY <3>1, FromType DEF Register, Points
    <3>2. CASE \E email \in Emails : Login(r, email)
      BY <3>2, FromType DEF Login, Points
    <3>3. CASE \E t \in tokens : Refresh(r, t)
      <4>1. PICK t \in tokens : Refresh(r, t)
        BY <3>3
      <4>2. t.user \in Users /\ t.id \in Tokens
        BY DEF TypeOK
      <4> QED BY <4>1, <4>2, FromType DEF Refresh, Points
    <3>4. CASE \E u \in Users : ManageMember(r, u)
      <4>1. PICK u \in Users, email \in Emails, op \in {"add", "role", "remove"}, new \in Roles :
               Authenticate(r, u, [From(u) EXCEPT
                                     !.target = <<u[1], email>>, !.op = op, !.new = new])
        BY <3>4 DEF ManageMember
      <4> DEFINE about == [From(u) EXCEPT !.target = <<u[1], email>>, !.op = op, !.new = new]
      <4>2. about \in Request
        BY FromType
      <4>3. Begin(r, "email", about) \/ Begin(r, "member", about)
        BY <4>1 DEF Authenticate
      <4> HIDE DEF about
      <4> QED BY <4>2, <4>3 DEF Points
    <3> QED BY <1>1, <3>1, <3>2, <3>3, <3>4
  <2>2. PICK p \in Points \ {"idle"}, about \in Request : Begin(r, p, about)
    BY <2>1
  <2>3. /\ pc' \in [Requests -> Points]
        /\ request' \in [Requests -> Request \cup {NoRequest}]
        /\ \A q \in Requests : Idle(q)' <=> request'[q] = NoRequest
        /\ begun' \in 0..MaxRequests
        /\ UNCHANGED <<rows, redis, sessions, races>>
    BY <2>2, BeginTypes
  <2>4. issued' \in 0..begun' /\ sessions' \in 0..begun' /\ races' \in 0..begun'
    BY <2>3, CountedBounds, Naturals DEF redis
  <2> QED BY <2>3, <2>4 DEF TypeOK, rows, redis
<1>2. ASSUME NEW r \in Requests, Step(r) \/ Abort(r) PROVE TypeOK'
  <2> USE DEF Points
  <2>1. /\ pc' \in [Requests -> Points]
        /\ request' \in [Requests -> Request \cup {NoRequest}]
        /\ \A q \in Requests : Idle(q)' <=> request'[q] = NoRequest
    <3>1. CASE \E p \in Points : Goto(r, p) /\ ~Idle(r)
      <4>1. PICK p \in Points : Goto(r, p) /\ ~Idle(r)
        BY <3>1
      <4> HIDE DEF Points
      <4> QED BY <4>1, GotoTypes
    <3>2. CASE LoadMember(r) /\ ~\E p \in Points : Goto(r, p) /\ ~Idle(r)
      <4> DEFINE loaded == IF request[r].target = request[r].user THEN "ADMIN"
                           ELSE role[request[r].target]
      <4>1. /\ pc[r] = "member" /\ Exists(request[r].target)
            /\ pc' = [pc EXCEPT ![r] = "write"]
            /\ request' = [request EXCEPT ![r].loaded = loaded]
        BY <3>2 DEF LoadMember, Idle
      <4>2. request[r] \in Request
        BY <4>1 DEF TypeOK, Idle
      <4>3. loaded \in Roles
        BY <4>1, <4>2 DEF TypeOK, Exists, Roles, Request
      <4>4. [request[r] EXCEPT !.loaded = loaded] \in Request
        BY <4>2, <4>3 DEF Request
      <4>5. request' = [request EXCEPT ![r] = [request[r] EXCEPT !.loaded = loaded]]
        BY <4>1
      <4> HIDE DEF loaded
      <4>6. request' \in [Requests -> Request \cup {NoRequest}]
        BY <4>4, <4>5 DEF TypeOK
      <4>7. \A q \in Requests : Idle(q)' <=> request'[q] = NoRequest
        BY <4>1, <4>4, <4>5, NoRequestIsNone DEF TypeOK, Idle
      <4> QED BY <4>1, <4>6, <4>7 DEF TypeOK
    <3> QED
      BY <1>2, <3>1, <3>2 DEF Step, Abort, Flush, Found, CommitLogin, DeleteOld, Issue,
                              CheckEmail, InsertMember, WriteMember, Idle
  <2>2. ~Idle(r)
    BY <1>2 DEF Step, Abort, Flush, Found, CommitLogin, DeleteOld, Issue,
                CheckEmail, InsertMember, LoadMember, WriteMember, Idle
  <2>3. request[r] \in Request
    BY <2>2 DEF TypeOK
  <2> HIDE DEF Points
  <2>4. /\ issued' \in Nat /\ sessions' \in Nat /\ races' \in Nat /\ begun' = begun
    BY <1>2, Naturals DEF Step, Abort, Flush, Found, CommitLogin, DeleteOld, Issue,
                CheckEmail, InsertMember, LoadMember, WriteMember, redis, count
  <2>5. issued' \in 0..begun' /\ begun' \in 0..MaxRequests
        /\ sessions' \in 0..begun' /\ races' \in 0..begun'
    BY <2>4, CountedBounds DEF TypeOK
  <2>6. role' \in [Users -> Roles \cup {"none"}] /\ removed' \subseteq Users
    BY <1>2, <2>3 DEF TypeOK, Request, Roles, Step, Abort, Flush, Found, CommitLogin, DeleteOld,
                Issue, CheckEmail, InsertMember, LoadMember, WriteMember, rows
  <2>7. tokens' \subseteq [id : Tokens, user : Users] /\ holders' \subseteq Users
    <3>1. CASE Issue(r)
      <4>1. issued' \in Tokens
        BY <3>1, <2>4, <2>5, Naturals, BoundIsNatural DEF Issue, Tokens
      <4>2. request[r].user \in Users
        BY <2>3 DEF Request
      <4>3. [id |-> issued', user |-> request[r].user] \in [id : Tokens, user : Users]
        BY <4>1, <4>2
      <4> QED BY <3>1, <4>2, <4>3 DEF Issue, TypeOK
    <3>2. CASE ~Issue(r)
      BY <1>2, <3>2 DEF TypeOK, Step, Abort, Flush, Found, CommitLogin, DeleteOld,
                CheckEmail, InsertMember, LoadMember, WriteMember, redis
    <3> QED BY <3>1, <3>2
  <2> QED BY <2>1, <2>5, <2>6, <2>7 DEF TypeOK
<1>3. ASSUME NEW id \in Tokens, Logout(id) PROVE TypeOK'
  BY <1>3 DEF TypeOK, Logout, rows, count, Idle
<1>4. CASE UNCHANGED vars
  BY <1>4 DEF TypeOK, vars, rows, redis, count, Idle
<1> QED BY <1>1, <1>2, <1>3, <1>4 DEF Next

LEMMA TypeInit == Init => TypeOK
BY BoundIsNatural DEF Init, TypeOK, Roles, Points, Idle

(* Types and counts together are inductive: each needs the other.          *)
LEMMA Inductive == Spec => [](TypeOK /\ Counted)
<1>1. Init => TypeOK /\ Counted
  BY TypeInit, CountedInit
<1>2. TypeOK /\ Counted /\ [Next]_vars => (TypeOK /\ Counted)'
  BY TypeStep, CountedStep
<1> QED BY <1>1, <1>2, PTL DEF Spec

(* Users, tokens, requests and counters keep their types for any           *)
(* organizations, emails and requests: no more tokens are drawn than       *)
(* requests began (auth.py:19).                                            *)
THEOREM TypeCorrect == Spec => []TypeOK
BY Inductive, PTL

(* However requests interleave, fail and log out, there are no more        *)
(* refresh tokens than sessions and raced refreshes (auth.py:84).          *)
THEOREM SessionsDoNotMultiplyAlways == Spec => []SessionsDoNotMultiply
<1>1. Counted => SessionsDoNotMultiply
  <2>1. {r \in Requests : pc[r] = "issue"} = At(pc, {"issue"})
    BY DEF At
  <2> QED BY <2>1 DEF Counted, SessionsDoNotMultiply
<1> QED BY <1>1, Inductive, PTL

-----------------------------------------------------------------------------
(* Three steps write rows of users, and no other.                          *)
LEMMA RowWriters ==
  ASSUME Next
  PROVE  \/ \E r \in Requests : Found(r) \/ InsertMember(r) \/ WriteMember(r)
         \/ UNCHANGED rows
<1>1. ASSUME NEW r \in Requests,
             \/ \E u \in Users : Register(r, u) \/ ManageMember(r, u)
             \/ \E email \in Emails : Login(r, email)
             \/ \E t \in tokens : Refresh(r, t)
      PROVE  UNCHANGED rows
  <2>1. \E p, about : Begin(r, p, about)
    BY <1>1 DEF Register, ManageMember, Authenticate, Login, Refresh
  <2> QED BY <2>1 DEF Begin
<1>2. ASSUME NEW r \in Requests, Step(r), ~(Found(r) \/ InsertMember(r) \/ WriteMember(r))
      PROVE  UNCHANGED rows
  BY <1>2 DEF Step, Flush, CommitLogin, DeleteOld, Issue, CheckEmail, LoadMember, rows
<1>3. ASSUME NEW r \in Requests, Abort(r) PROVE UNCHANGED rows
  BY <1>3 DEF Abort
<1>4. ASSUME NEW id \in Tokens, Logout(id) PROVE UNCHANGED rows
  BY <1>4 DEF Logout
<1> QED BY <1>1, <1>2, <1>3, <1>4 DEF Next

(* A removal is final: members stay removed and organizations keep them    *)
(* (organizations.py:125).                                                 *)
THEOREM RemovalIsFinalAlways == Spec => RemovalIsFinal
<1>1. TypeOK /\ [Next]_vars =>
        [\A u \in Users : (u \in removed => u \in removed') /\ (Exists(u) => Exists(u)')]_vars
  <2> SUFFICES ASSUME TypeOK, Next, NEW u \in Users
               PROVE  (u \in removed => u \in removed') /\ (Exists(u) => Exists(u)')
    BY DEF vars
  <2>1. ASSUME NEW r \in Requests, Found(r) \/ InsertMember(r) \/ WriteMember(r)
        PROVE  (u \in removed => u \in removed') /\ (Exists(u) => Exists(u)')
    <3>1. request[r] \in Request
      BY <2>1 DEF Found, InsertMember, WriteMember, TypeOK, Idle
    <3>2. request[r].new # "none"
      BY <3>1 DEF Request, Roles
    <3> QED BY <2>1, <3>1, <3>2 DEF TypeOK, Request, Found, InsertMember, WriteMember, Exists
  <2>2. CASE UNCHANGED rows
    BY <2>2 DEF rows, Exists
  <2> QED BY <2>1, <2>2, RowWriters
<1> QED BY <1>1, Inductive, PTL DEF Spec, RemovalIsFinal

-----------------------------------------------------------------------------
(* Requests keep to their organization.                                    *)
LEMMA OwnMembersStep == TypeOK /\ OwnMembers /\ [Next]_vars => OwnMembers'
<1> SUFFICES ASSUME TypeOK, OwnMembers, [Next]_vars PROVE OwnMembers'
  OBVIOUS
<1>1. ASSUME NEW r \in Requests, NEW u \in Users, ManageMember(r, u) PROVE OwnMembers'
  <2>1. PICK email \in Emails, op \in {"add", "role", "remove"}, new \in Roles :
           Authenticate(r, u, [From(u) EXCEPT
                                 !.target = <<u[1], email>>, !.op = op, !.new = new])
    BY <1>1 DEF ManageMember
  <2> DEFINE about == [From(u) EXCEPT !.target = <<u[1], email>>, !.op = op, !.new = new]
  <2>2. /\ about.user = u /\ about.target = <<u[1], email>> /\ about.op = op
        /\ about.user[1] = about.target[1]
    BY DEF From
  <2>3. \E p \in Points : pc' = [pc EXCEPT ![r] = p]
    BY <2>1 DEF Authenticate, Begin, Points
  <2>4. request' = [request EXCEPT ![r] = about] /\ (op = "remove" => about.target # u)
    BY <2>1, <2>2 DEF Authenticate, Begin
  <2> HIDE DEF about
  <2> QED BY <2>2, <2>3, <2>4 DEF OwnMembers, TypeOK
<1>2. ASSUME NEW r \in Requests, NEW p \in Points \ {"member", "write"},
             pc' = [pc EXCEPT ![r] = p],
             \A q \in Requests \ {r} : request'[q] = request[q]
      PROVE  OwnMembers'
  BY <1>2 DEF OwnMembers, TypeOK
<1>3. ASSUME NEW r \in Requests,
             \/ \E u \in Users : Register(r, u)
             \/ \E email \in Emails : Login(r, email)
             \/ \E t \in tokens : Refresh(r, t)
      PROVE  OwnMembers'
  <2>1. PICK p \in {"flush", "login", "delete"} : \E about : Begin(r, p, about)
    BY <1>3 DEF Register, Login, Refresh
  <2>2. p \in Points \ {"member", "write"} /\ pc' = [pc EXCEPT ![r] = p]
    BY <2>1 DEF Begin, Points
  <2>3. \A q \in Requests \ {r} : request'[q] = request[q]
    BY <2>1 DEF Begin, TypeOK
  <2> QED BY <1>2, <2>2, <2>3
<1>4. ASSUME NEW r \in Requests, LoadMember(r) PROVE OwnMembers'
  <2>1. CASE Goto(r, "idle")
    BY <1>2, <2>1 DEF Goto, Points, TypeOK
  <2>2. CASE pc' = [pc EXCEPT ![r] = "write"]
    <3>1. /\ pc[r] = "member" /\ request[r] \in Request
      BY <1>4 DEF LoadMember, TypeOK, Idle
    <3> DEFINE loaded == IF request[r].target = request[r].user THEN "ADMIN"
                         ELSE role[request[r].target]
    <3>2. request' = [request EXCEPT ![r].loaded = loaded] \/ Goto(r, "idle")
      BY <1>4 DEF LoadMember
    <3>3. CASE request' = [request EXCEPT ![r].loaded = loaded]
      <4> HIDE DEF loaded
      <4>1. request'[r].user = request[r].user /\ request'[r].target = request[r].target
            /\ request'[r].op = request[r].op
        BY <3>1, <3>3 DEF TypeOK, Request
      <4>2. \A q \in Requests \ {r} : request'[q] = request[q] /\ pc'[q] = pc[q]
        BY <2>2, <3>3 DEF TypeOK
      <4> QED BY <3>1, <4>1, <4>2 DEF OwnMembers
    <3> QED BY <2>1, <3>2, <3>3
  <2> QED BY <1>4, <2>1, <2>2 DEF LoadMember
<1>5. ASSUME NEW r \in Requests, (Step(r) /\ ~LoadMember(r)) \/ Abort(r) PROVE OwnMembers'
  <2>1. PICK p \in Points \ {"member", "write"} : Goto(r, p)
    BY <1>5 DEF Step, Abort, Flush, Found, CommitLogin, DeleteOld, Issue,
                CheckEmail, InsertMember, WriteMember, Points
  <2>2. \A q \in Requests \ {r} : request'[q] = request[q]
    BY <2>1 DEF Goto, TypeOK
  <2> QED BY <1>2, <2>1, <2>2 DEF Goto
<1>6. CASE UNCHANGED <<pc, request>>
  BY <1>6 DEF OwnMembers
<1> QED BY <1>1, <1>3, <1>4, <1>5, <1>6 DEF Next, Logout, vars

(* An organization loses its last active admin only when he gives his role *)
(* away, or to a request whose author was removed or demoted after it had  *)
(* been let in (organizations.py:98 and 125).                              *)
THEOREM AdminsRemainAlways == Spec => AdminsRemain
<1>1. Init => OwnMembers
  BY DEF Init, OwnMembers
<1>2. TypeOK /\ OwnMembers /\ [Next]_vars =>
        [\A o \in Orgs : HasAdmin(o) => HasAdmin(o)' \/ LastAdminLeaves(o)]_vars
  <2> SUFFICES ASSUME TypeOK, OwnMembers, Next, NEW o \in Orgs, HasAdmin(o)
               PROVE  HasAdmin(o)' \/ LastAdminLeaves(o)
    BY DEF vars
  <2>1. PICK e \in Emails : IsAdmin(<<o, e>>)
    BY DEF HasAdmin
  <2>2. <<o, e>> \in Users
    BY DEF Users
  <2>3. CASE IsAdmin(<<o, e>>)'
    BY <2>3 DEF HasAdmin
  <2>4. ASSUME NEW r \in Requests, WriteMember(r), ~IsAdmin(<<o, e>>)'
        PROVE  HasAdmin(o)' \/ LastAdminLeaves(o)
    <3>1. /\ pc[r] = "write" /\ request[r] \in Request
      BY <2>4 DEF WriteMember, TypeOK, Idle
    <3> DEFINE q == request[r]
    <3>2. /\ q.target = <<o, e>> /\ q.op \in {"role", "remove"}
          /\ \A v \in Users : v # q.target => (IsAdmin(v) => IsAdmin(v)')
      BY <2>1, <2>2, <2>4 DEF WriteMember, IsAdmin, TypeOK
    <3>3. q.user[1] = o /\ (q.op = "remove" => q.target # q.user)
      BY <3>1, <3>2 DEF OwnMembers
    <3>4. \E f \in Emails : q.user = <<o, f>>
      BY <3>1, <3>3 DEF Request, Users
    <3>5. CASE q.op = "role" /\ q.target = q.user
      BY <3>1, <3>2, <3>5 DEF LastAdminLeaves
    <3>6. CASE ~IsAdmin(q.user)
      BY <3>1, <3>2, <3>6 DEF LastAdminLeaves
    <3>7. CASE q.target # q.user /\ IsAdmin(q.user)
      BY <3>1, <3>2, <3>4, <3>7 DEF HasAdmin, Request
    <3> QED BY <3>2, <3>3, <3>5, <3>6, <3>7
  <2>5. ASSUME NEW r \in Requests, Found(r) \/ InsertMember(r) PROVE IsAdmin(<<o, e>>)'
    <3>1. request[r] \in Request
      BY <2>5 DEF Found, InsertMember, TypeOK, Idle
    <3> QED BY <2>1, <2>2, <2>5, <3>1 DEF Found, InsertMember, IsAdmin, Exists, TypeOK, Request
  <2>6. CASE UNCHANGED rows
    BY <2>1, <2>6 DEF rows, IsAdmin, HasAdmin
  <2> QED BY <2>3, <2>4, <2>5, <2>6, RowWriters
<1> QED BY <1>1, <1>2, OwnMembersStep, Inductive, PTL DEF Spec, AdminsRemain
=============================================================================
