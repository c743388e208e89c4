------------------------------- MODULE Accounts -------------------------------
(***************************************************************************)
(* Users of organizations, their refresh tokens, and the requests that     *)
(* change them:                                                            *)
(*                                                                         *)
(*   app/api/v1/auth.py           register, login, refresh, logout         *)
(*   app/api/v1/organizations.py  add, change and remove members           *)
(*   app/api/deps.py              who a request is from, and his role      *)
(*                                                                         *)
(* A user is named by his organization and email (uq_user_org_email), an   *)
(* organization by its slug.  Roles other than ADMIN may do nothing here   *)
(* and are one.  One action is what a request does between two awaits, and *)
(* the request begins with its first; one that its first query refuses     *)
(* changes nothing and is left out.  Commits are those of PostgreSQL at    *)
(* READ COMMITTED.                                                         *)
(***************************************************************************)
EXTENDS Integers, FiniteSets

CONSTANTS
  Orgs, Emails,
  Requests,      \* requests that can be in flight at a time
  NoRequest,     \* what an idle one is about
  MaxRequests    \* bound on the requests that get beyond their first query

ASSUME BoundIsNatural == MaxRequests \in Nat

Users == Orgs \X Emails
Roles == {"ADMIN", "VIEWER"}
Tokens == 1..MaxRequests

(***************************************************************************)
(* "flush" is the INSERT of the organization, "found" the COMMIT with its  *)
(* admin; "login" the COMMIT of last_login_at; "delete" the DEL of an old  *)
(* refresh token; "issue" the SET of a new one; "email" the SELECT of a    *)
(* new member's email, "insert" his COMMIT; "member" the SELECT of a       *)
(* member, "write" the COMMIT of his new role or his removal.              *)
(***************************************************************************)
Points == {"idle", "flush", "found", "login", "delete", "issue",
           "email", "insert", "member", "write"}

VARIABLES
  role,      \* the role in each row of `users', "none" without a row
  removed,   \* users whose is_active is false
  tokens,    \* refresh tokens in Redis: their number and the user they are for
  issued,    \* refresh tokens that have been drawn
  holders,   \* users that have been given an access token
  pc,        \* where each request awaits
  request,   \* what each request is about
  begun,     \* requests so far
  sessions,  \* registrations and logins so far
  races      \* refreshes whose DEL found nothing to delete

rows  == <<role, removed>>
redis == <<tokens, issued, holders>>
count == <<begun, sessions, races>>
vars  == <<rows, redis, pc, request, count>>

\* `user' is whose request it is, `loaded' the role of `target' as it was read.
Request == [user : Users, target : Users, op : {"none", "add", "role", "remove"},
            new : Roles, loaded : Roles, token : 0..MaxRequests]

ASSUME NoRequestIsNone == NoRequest \notin Request

Idle(r) == pc[r] = "idle"

TypeOK ==
  /\ role \in [Users -> Roles \cup {"none"}]
  /\ removed \subseteq Users
  /\ tokens \subseteq [id : Tokens, user : Users]
  /\ issued \in 0..begun
  /\ holders \subseteq Users
  /\ pc \in [Requests -> Points]
  /\ request \in [Requests -> Request \cup {NoRequest}]
  /\ \A r \in Requests : Idle(r) <=> request[r] = NoRequest
  /\ begun \in 0..MaxRequests /\ sessions \in 0..begun /\ races \in 0..begun

Init ==
  /\ role = [u \in Users |-> "none"]
  /\ removed = {}
  /\ tokens = {} /\ issued = 0 /\ holders = {}
  /\ pc = [r \in Requests |-> "idle"]
  /\ request = [r \in Requests |-> NoRequest]
  /\ begun = 0 /\ sessions = 0 /\ races = 0

-----------------------------------------------------------------------------
Goto(r, point) ==
  /\ pc' = [pc EXCEPT ![r] = point]
  /\ request' = IF point = "idle" THEN [request EXCEPT ![r] = NoRequest] ELSE request

\* A request is let in by its first query.
Begin(r, point, about) ==
  /\ Idle(r)
  /\ begun < MaxRequests
  /\ begun' = begun + 1
  /\ pc' = [pc EXCEPT ![r] = point]
  /\ request' = [request EXCEPT ![r] = about]
  /\ UNCHANGED <<rows, redis, sessions, races>>

From(u) == [user |-> u, target |-> u, op |-> "none",
            new |-> "VIEWER", loaded |-> "VIEWER", token |-> 0]

Exists(u) == role[u] # "none"
Registered(o) == \E e \in Emails : Exists(<<o, e>>)
IsAdmin(u) == role[u] = "ADMIN" /\ u \notin removed
HasAdmin(o) == \E e \in Emails : IsAdmin(<<o, e>>)

\* The users with an email, in whatever organization.
Accounts(email) == {u \in Users : u[2] = email /\ Exists(u)}

-----------------------------------------------------------------------------
(***************************************************************************)
(* auth.py                                                                 *)
(***************************************************************************)

\* No organization has the slug.  Nothing asks about the email.
Register(r, u) == ~Registered(u[1]) /\ Begin(r, "flush", From(u))

(* The unique index on the slug makes the INSERT wait for an uncommitted   *)
(* one of the same slug, and raise once there is a committed one.          *)
Flush(r) ==
  LET o == request[r].user[1]
  IN  /\ pc[r] = "flush"
      /\ \A q \in Requests : pc[q] = "found" => request[q].user[1] # o
      /\ Goto(r, IF Registered(o) THEN "idle" ELSE "found")
      /\ UNCHANGED <<rows, redis, count>>

\* The organization and its first admin are one transaction.
Found(r) ==
  /\ pc[r] = "found"
  /\ role' = [role EXCEPT ![request[r].user] = "ADMIN"]
  /\ sessions' = sessions + 1
  /\ Goto(r, "issue")
  /\ UNCHANGED <<removed, redis, begun, races>>

\* scalar_one_or_none raises when two organizations know the email.
Login(r, email) ==
  \E u \in Users \ removed : Accounts(email) = {u} /\ Begin(r, "login", From(u))

CommitLogin(r) ==
  /\ pc[r] = "login"
  /\ sessions' = sessions + 1
  /\ Goto(r, "issue")
  /\ UNCHANGED <<rows, redis, begun, races>>

\* GET of the token.  Nothing asks whether the user is still active.
Refresh(r, t) == Begin(r, "delete", [From(t.user) EXCEPT !.token = t.id])

\* Mutant: the old token is left to expire.
DeleteOld_Kept(r) ==
  /\ pc[r] = "delete"
  /\ Goto(r, "issue")
  /\ UNCHANGED <<rows, redis, count>>

\* "Rotate token: delete old, issue new".  What DEL returns is not looked at.
DeleteOld(r) ==
  LET old == {t \in tokens : t.id = request[r].token}
  IN  /\ pc[r] = "delete"
      /\ tokens' = tokens \ old
      /\ races' = IF old = {} THEN races + 1 ELSE races
      /\ Goto(r, "issue")
      /\ UNCHANGED <<rows, issued, holders, begun, sessions>>

\* Mutant: the SET is retried after it took effect, with a new token.
Issue_Again(r) ==
  /\ pc[r] = "issue"
  /\ issued' = issued + 1
  /\ tokens' = tokens \cup {[id |-> issued', user |-> request[r].user]}
  /\ holders' = holders \cup {request[r].user}
  /\ UNCHANGED <<rows, pc, request, count>>

\* issue_tokens: an access token and, with SET, a refresh token of its own.
Issue(r) ==
  /\ pc[r] = "issue"
  /\ issued' = issued + 1
  /\ tokens' = tokens \cup {[id |-> issued', user |-> request[r].user]}
  /\ holders' = holders \cup {request[r].user}
  /\ Goto(r, "idle")
  /\ UNCHANGED <<rows, count>>

\* Logout: DEL of a token, whatever it is.  Seven days do the same.
Logout(id) ==
  /\ tokens' = {t \in tokens : t.id # id}
  /\ UNCHANGED <<rows, issued, holders, pc, request, count>>

-----------------------------------------------------------------------------
(***************************************************************************)
(* organizations.py, for members of the organization of the current user   *)
(***************************************************************************)

\* Mutant: admins may remove themselves.
Authenticate_SelfToo(r, u, about) ==
  /\ u \in holders /\ IsAdmin(u)
  /\ Begin(r, IF about.op = "add" THEN "email" ELSE "member", about)

(* get_current_user and RoleChecker: an active ADMIN with an access token, *)
(* as of this SELECT.  He cannot remove himself.                           *)
Authenticate(r, u, about) ==
  /\ u \in holders /\ IsAdmin(u)
  /\ about.op = "remove" => about.target # u
  /\ Begin(r, IF about.op = "add" THEN "email" ELSE "member", about)

ManageMember(r, u) ==
  \E email \in Emails, op \in {"add", "role", "remove"}, new \in Roles :
     /\ op = "remove" => new = "VIEWER"
     /\ Authenticate(r, u, [From(u) EXCEPT
                              !.target = <<u[1], email>>, !.op = op, !.new = new])

\* No user of any organization may have the email.
CheckEmail(r) ==
  /\ pc[r] = "email"
  /\ Goto(r, IF Accounts(request[r].target[2]) = {} THEN "insert" ELSE "idle")
  /\ UNCHANGED <<rows, redis, count>>

\* Mutant: INSERT ... ON CONFLICT DO UPDATE of the role, and active again.
InsertMember_Upsert(r) ==
  /\ pc[r] = "insert"
  /\ role' = [role EXCEPT ![request[r].target] = request[r].new]
  /\ removed' = removed \ {request[r].target}
  /\ Goto(r, "idle")
  /\ UNCHANGED <<redis, count>>

\* The COMMIT raises if the organization has such a member by now.
InsertMember(r) ==
  LET u == request[r].target
  IN  /\ pc[r] = "insert"
      /\ role' = IF Exists(u) THEN role ELSE [role EXCEPT ![u] = request[r].new]
      /\ Goto(r, "idle")
      /\ UNCHANGED <<removed, redis, count>>

(* SELECT of the member.  The current user himself is in the session       *)
(* already, as an ADMIN, and is not read again.                            *)
LoadMember(r) ==
  LET u == request[r].target
  IN  /\ pc[r] = "member"
      /\ \/ /\ ~Exists(u)
            /\ Goto(r, "idle")
         \/ /\ Exists(u)
            /\ pc' = [pc EXCEPT ![r] = "write"]
            /\ request' = [request EXCEPT ![r].loaded =
                             IF u = request[r].user THEN "ADMIN" ELSE role[u]]
      /\ UNCHANGED <<rows, redis, count>>

\* UPDATE by primary key of the one column that changes, if it changes.
WriteMember(r) ==
  LET q == request[r]
  IN  /\ pc[r] = "write"
      /\ removed' = IF q.op = "remove" THEN removed \cup {q.target} ELSE removed
      /\ role' = IF q.op = "role" /\ q.new # q.loaded
                 THEN [role EXCEPT ![q.target] = q.new] ELSE role
      /\ Goto(r, "idle")
      /\ UNCHANGED <<redis, count>>

-----------------------------------------------------------------------------
\* A call raises, or the process dies: what was not committed is rolled back.
Abort(r) ==
  /\ ~Idle(r)
  /\ Goto(r, "idle")
  /\ UNCHANGED <<rows, redis, count>>

Step(r) ==
  \/ Flush(r) \/ Found(r) \/ CommitLogin(r) \/ DeleteOld(r) \/ Issue(r)
  \/ CheckEmail(r) \/ InsertMember(r) \/ LoadMember(r) \/ WriteMember(r)

Next ==
  \/ \E r \in Requests :
        \/ \E u \in Users : Register(r, u) \/ ManageMember(r, u)
        \/ \E email \in Emails : Login(r, email)
        \/ \E t \in tokens : Refresh(r, t)
        \/ Step(r) \/ Abort(r)
  \/ \E id \in Tokens : Logout(id)

Spec == Init /\ [][Next]_vars

-----------------------------------------------------------------------------
(* A session is one refresh token that changes hands at every refresh.     *)
(* There are never more tokens, stored or about to be, than sessions were  *)
(* opened, but for refreshes that overlapped with another of the same      *)
(* token: each whose DEL found nothing adds one, and nothing else does,    *)
(* however requests interleave, fail and log out.                          *)
SessionsDoNotMultiply ==
  Cardinality(tokens) + Cardinality({r \in Requests : pc[r] = "issue"})
    <= sessions + races

(* An organization loses its last active admin in two ways only: he gives  *)
(* his own role away, or an admin who was removed or demoted after his     *)
(* request had been let in commits the change (two admins who remove each  *)
(* other).  No other interleaving of members' requests locks it out.       *)
LastAdminLeaves(o) ==
  \E r \in Requests :
     /\ pc[r] = "write" /\ request[r].target[1] = o
     /\ \/ request[r].op = "role" /\ request[r].target = request[r].user
        \/ ~IsAdmin(request[r].user)

AdminsRemain == [][\A o \in Orgs : HasAdmin(o) => HasAdmin(o)' \/ LastAdminLeaves(o)]_vars

(* A removed member stays removed, and an organization keeps its members:  *)
(* no request that was let in before the removal, adds him or sets his     *)
(* role, brings him back.                                                  *)
RemovalIsFinal ==
  [][\A u \in Users : (u \in removed => u \in removed') /\ (Exists(u) => Exists(u)')]_vars
=============================================================================
