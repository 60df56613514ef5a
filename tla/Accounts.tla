------------------------------ MODULE Accounts ------------------------------
(***************************************************************************)
(* What a Global Admin does to people (admin_users.py over accounts.py):   *)
(* who holds which role, who has a seat, who is active, and the            *)
(* permissions version that tells an application that any of it changed;   *)
(* and the seed, which runs beside them on every deploy (seed.py).          *)
(*                                                                         *)
(* One organisation and one application.  A request is three readings and  *)
(* a write, each of which another request may commit in front of: the      *)
(* guard and the target row (Begin), the rule that may refuse (Decide) and *)
(* the write with its commit.  The rows the guard and the route loaded are *)
(* held by the request, so a later query that meets them in the identity   *)
(* map answers with their old values (db.py, one Session per request).     *)
(***************************************************************************)
EXTENDS Integers, FiniteSets

CONSTANTS
  User,          \* ids of accounts; each is drawn once
  Bootstrap,     \* those drawn for BOOTSTRAP_ADMIN_EMAIL, one address
  GrantId,       \* keys of user_roles rows
  Worker,
  NULL,
  SEATS,         \* subscriptions.seats: a number, or NULL for uncapped
  MaxVersion,    \* bound on permissions_version
  MaxRequests    \* bound on requests

ASSUME AccountsAssumption ==
  /\ SEATS \in Nat \cup {NULL}
  /\ NULL \notin Nat
  /\ NULL \notin User
  /\ NULL \notin GrantId
  /\ Bootstrap \subseteq User
  /\ MaxVersion \in Nat \ {0}
  /\ MaxRequests \in Nat

VARIABLES
  people,        \* the `users' rows
  grants,        \* the `user_roles' rows
  drawn,         \* the keys ever given to one
  seats,         \* who has a `user_licenses' row
  given,         \* those of them who have it from a later run of the seed (history)
  req,           \* the requests in flight
  requests,      \* so far
  overlap        \* have two requests ever been in flight at once? (history)

vars == <<people, grants, drawn, seats, given, req, requests, overlap>>

\* global_admin is granted at platform scope; employee stands for the roles
\* granted at a scope with an id, which the unique constraint can see.
Role == {"global_admin", "employee"}

Person == [status : {"absent", "active", "suspended", "deleted"}, version : Nat]

Grant == [user : User, role : Role]

Op == {"grant", "revoke", "suspend", "activate", "delete", "assign", "remove"}

\* What a run of the seed finds missing and adds.
Seeded == {"account", "role", "seat"}

Request == [op     : Op \cup {"none", "seed"},
            at     : {"idle", "begun", "decided"},
            actor  : User \cup {NULL},
            target : User \cup {NULL},
            role   : Role,
            grant  : GrantId \cup {NULL},
            read   : Person \cup {NULL},     \* the target's row, at Begin
            adds   : SUBSET Seeded]

Free == [op |-> "none", at |-> "idle", actor |-> NULL, target |-> NULL,
         role |-> "employee", grant |-> NULL, read |-> NULL, adds |-> {}]

-----------------------------------------------------------------------------
Exists(u) == people[u].status \in {"active", "suspended"}

\* Two accounts never have one address, and an id is never drawn again.
Creatable(u) ==
  /\ people[u].status = "absent"
  /\ u \in Bootstrap => \A v \in Bootstrap : ~Exists(v)

\* models.User's defaults.
New(status) == [status |-> status, version |-> 1]

Granted(u, role) ==
  \E g \in DOMAIN grants : grants[g] = [user |-> u, role |-> role]

IsGlobalAdmin(u) == people[u].status = "active" /\ Granted(u, "global_admin")

\* Every active account that holds global_admin at platform.
Holders == {u \in User : IsGlobalAdmin(u)}

\* ... as the request r is told: the grants are queried, the accounts it has
\* already loaded are not read again.
HoldersSeen(r) ==
  {u \in User :
     /\ Granted(u, "global_admin")
     /\ IF u = r.target THEN r.read.status = "active"
        ELSE u = r.actor \/ people[u].status = "active"}

\* Mutant: somebody suspended counts as the other Global Admin.
WouldRemoveLastAdminAnyStatus(r) ==
  {u \in User : Granted(u, "global_admin")} = {r.target}

WouldRemoveLastAdmin(r) == HoldersSeen(r) = {r.target}

\* Mutant: one too many.
SeatFreeOffByOne == SEATS # NULL => Cardinality(seats) <= SEATS

\* assign_license's count against the subscription.
SeatFree == SEATS # NULL => Cardinality(seats) < SEATS

\* Mutant: a repeat is left to the unique constraint.
RepeatedByConstraint(r) == FALSE

\* grant_role's own question, since the constraint sees no repeat at platform.
Repeated(r) == Granted(r.target, r.role)

\* bump_permissions_version: one more than the request had read.
Bumped(r) == [people EXCEPT ![r.target].version = r.read.version + 1]

Arrives(w) ==
  /\ requests < MaxRequests
  /\ requests' = requests + 1
  /\ overlap' = (overlap \/ \E v \in Worker \ {w} : req[v] # Free)

Done(w) == req' = [req EXCEPT ![w] = Free] /\ UNCHANGED <<requests, overlap>>

Insert(g, u, role) ==
  [h \in DOMAIN grants \cup {g} |->
     IF h = g THEN [user |-> u, role |-> role] ELSE grants[h]]

Without(G) == [h \in DOMAIN grants \ G |-> grants[h]]

-----------------------------------------------------------------------------
\* As the first run of the seed leaves it, with what its Global Admin may have
\* done since: others like it, and no seat for itself.
Init ==
  /\ people \in [User -> {New(status) : status \in {"active", "absent"}}]
  /\ \E u \in Bootstrap : {v \in Bootstrap : Exists(v)} = {u}
  /\ \E G \in SUBSET GrantId :
       grants \in [G -> {[user |-> u, role |-> "global_admin"] : u \in {v \in User : Exists(v)}}]
  /\ \A g, h \in DOMAIN grants : grants[g] = grants[h] => g = h
  /\ \A u \in Bootstrap : Exists(u) => u \in Holders
  /\ drawn = DOMAIN grants
  /\ seats = {}
  /\ given = {}
  /\ req = [w \in Worker |-> Free]
  /\ requests = 0
  /\ overlap = FALSE

\* guard.inspect and the route: the actor is an active Global Admin, the
\* target is loaded, and what the route itself asks of it holds.
Begin(w, op, actor, target, role, g) ==
  /\ req[w] = Free
  /\ IsGlobalAdmin(actor)
  /\ Exists(target)
  /\ people[target].version < MaxVersion
  /\ CASE op = "revoke"   -> /\ g \in DOMAIN grants
                             /\ grants[g] = [user |-> target, role |-> role]
       [] op = "suspend"  -> g = NULL /\ people[target].status = "active"
       [] op = "activate" -> g = NULL /\ people[target].status # "active"
       [] op = "delete"   -> g = NULL /\ target # actor
       [] OTHER           -> g = NULL
  /\ role # "employee" => op \in {"grant", "revoke"}
  /\ req' = [req EXCEPT ![w] =
       [op |-> op, at |-> "begun", actor |-> actor, target |-> target,
        role |-> role, grant |-> g, read |-> people[target], adds |-> {}]]
  /\ Arrives(w)
  /\ UNCHANGED <<people, grants, drawn, seats, given>>

\* The rule that may refuse, on what the database says now.
Allowed(r) ==
  CASE r.op = "grant"   -> ~Repeated(r)
    [] r.op = "revoke"  -> r.role = "global_admin" => ~WouldRemoveLastAdmin(r)
    [] r.op \in {"suspend", "delete"} -> ~WouldRemoveLastAdmin(r)
    [] r.op = "assign"  -> r.target \notin seats /\ SeatFree
    [] r.op = "remove"  -> r.target \in seats
    [] OTHER            -> TRUE

Decide(w) ==
  /\ req[w].at = "begun"
  /\ Allowed(req[w])
  /\ req' = [req EXCEPT ![w].at = "decided"]
  /\ UNCHANGED <<people, grants, drawn, seats, given, requests, overlap>>

\* Refused by a rule (and audited), failed on a row that is gone or already
\* there, or lost with its process: nothing is written.
Refuse(w) ==
  /\ req[w] # Free
  /\ Done(w)
  /\ UNCHANGED <<people, grants, drawn, seats, given>>

\* Every write below also updates the target's row, and fails without it.
Ready(w, op) ==
  /\ req[w].op = op
  /\ req[w].at = "decided"
  /\ Exists(req[w].target)

\* The unique constraint sees a repeat at a scope with an id, not at platform.
GrantRole(w, g) ==
  LET r == req[w] IN
  /\ Ready(w, "grant")
  /\ r.role # "global_admin" => ~Granted(r.target, r.role)
  /\ g \in GrantId \ drawn
  /\ grants' = Insert(g, r.target, r.role)
  /\ drawn' = drawn \cup {g}
  /\ people' = Bumped(r)
  /\ Done(w)
  /\ UNCHANGED <<seats, given>>

RevokeRole(w) ==
  /\ Ready(w, "revoke")
  /\ grants' = Without({req[w].grant})
  /\ people' = Bumped(req[w])
  /\ Done(w)
  /\ UNCHANGED <<drawn, seats, given>>

SetUserStatus(w) ==
  LET r == req[w] IN
  /\ Ready(w, "suspend") \/ Ready(w, "activate")
  /\ people' = [Bumped(r) EXCEPT ![r.target].status =
                  IF r.op = "suspend" THEN "suspended" ELSE "active"]
  /\ Done(w)
  /\ UNCHANGED <<grants, drawn, seats, given>>

\* Mutant: the licence row is left behind.
DeleteUserKeepingSeat(w) ==
  LET u == req[w].target IN
  /\ Ready(w, "delete")
  /\ people' = [people EXCEPT ![u].status = "deleted"]
  /\ grants' = Without({g \in DOMAIN grants : grants[g].user = u})
  /\ Done(w)
  /\ UNCHANGED <<drawn, seats, given>>

\* The account's grants and its seat go with it.
DeleteUser(w) ==
  LET u == req[w].target IN
  /\ Ready(w, "delete")
  /\ people' = [people EXCEPT ![u].status = "deleted"]
  /\ grants' = Without({g \in DOMAIN grants : grants[g].user = u})
  /\ seats' = seats \ {u}
  /\ given' = given \ {u}
  /\ Done(w)
  /\ UNCHANGED drawn

AssignLicense(w) ==
  LET u == req[w].target IN
  /\ Ready(w, "assign")
  /\ u \notin seats
  /\ seats' = seats \cup {u}
  /\ people' = Bumped(req[w])
  /\ Done(w)
  /\ UNCHANGED <<grants, drawn, given>>

\* Mutant: the version is bumped when access is given and not when it is taken.
RemoveLicenseQuietly(w) ==
  /\ Ready(w, "remove")
  /\ seats' = seats \ {req[w].target}
  /\ given' = given \ {req[w].target}
  /\ Done(w)
  /\ UNCHANGED <<people, grants, drawn>>

RemoveLicense(w) ==
  /\ Ready(w, "remove")
  /\ seats' = seats \ {req[w].target}
  /\ given' = given \ {req[w].target}
  /\ people' = Bumped(req[w])
  /\ Done(w)
  /\ UNCHANGED <<grants, drawn>>

\* Created by a Global Admin: an account without a role or a seat.
CreateUser(w, u, status) ==
  /\ req[w] = Free
  /\ \E actor \in User : IsGlobalAdmin(actor)
  /\ Creatable(u)
  /\ people' = [people EXCEPT ![u] = New(status)]
  /\ Arrives(w)
  /\ UNCHANGED <<grants, drawn, seats, given, req>>

-----------------------------------------------------------------------------
(* A later run of the seed, one transaction: what is there is left alone.   *)

\* seed.run's questions; it may find the account, or create it under a new id.
\* The three are asked together here.  A run that misses nothing writes nothing.
SeedRead(w, u) ==
  /\ req[w] = Free
  /\ Exists(u) \/ Creatable(u)
  /\ req' = [req EXCEPT ![w] = [Free EXCEPT !.op = "seed", !.at = "decided", !.target = u,
       !.adds = {a \in Seeded :
                   CASE a = "account" -> ~Exists(u)
                     [] a = "role"    -> ~Granted(u, "global_admin")
                     [] a = "seat"    -> u \notin seats}]]
  /\ req'[w].adds # {}
  /\ Arrives(w)
  /\ UNCHANGED <<people, grants, drawn, seats, given>>

\* What it adds, committed together.  It counts no seats and bumps no version.
SeedCommit(w, g) ==
  LET u    == req[w].target
      adds == req[w].adds IN
  /\ req[w].op = "seed"
  /\ IF "account" \in adds THEN Creatable(u) ELSE Exists(u)
  /\ people' = IF "account" \in adds THEN [people EXCEPT ![u] = New("active")] ELSE people
  /\ IF "role" \in adds
     THEN /\ g \in GrantId \ drawn
          /\ grants' = Insert(g, u, "global_admin")
          /\ drawn' = drawn \cup {g}
     ELSE g = NULL /\ UNCHANGED <<grants, drawn>>
  /\ IF "seat" \in adds
     THEN u \notin seats /\ seats' = seats \cup {u} /\ given' = given \cup {u}
     ELSE UNCHANGED <<seats, given>>
  /\ Done(w)

-----------------------------------------------------------------------------
Serve(w) ==
  \/ \E op \in Op, actor, target \in User, role \in Role, g \in GrantId \cup {NULL} :
       Begin(w, op, actor, target, role, g)
  \/ Decide(w)
  \/ Refuse(w)
  \/ \E g \in GrantId : GrantRole(w, g)
  \/ RevokeRole(w)
  \/ SetUserStatus(w)
  \/ DeleteUser(w)
  \/ AssignLicense(w)
  \/ RemoveLicense(w)
  \/ \E u \in User, status \in {"active", "suspended"} : CreateUser(w, u, status)
  \/ \E u \in Bootstrap : SeedRead(w, u)
  \/ \E g \in GrantId \cup {NULL} : SeedCommit(w, g)

Next == \E w \in Worker : Serve(w)

Spec == Init /\ [][Next]_vars

-----------------------------------------------------------------------------
\* accounts.py:248-263: nothing a deleted account held outlives it, even when
\* it was being given more as it was deleted.
NothingOutlivesAccount ==
  /\ \A g \in DOMAIN grants : Exists(grants[g].user)
  /\ \A u \in seats : Exists(u)

\* The tables refer to rows there are (models.py:332-366): nothing outlives the
\* account it belongs to; and nobody shares an address.
TypeOK ==
  /\ people \in [User -> Person]
  /\ DOMAIN grants \subseteq drawn
  /\ grants \in [DOMAIN grants -> Grant]
  /\ drawn \subseteq GrantId
  /\ given \subseteq seats /\ seats \subseteq User
  /\ req \in [Worker -> Request]
  /\ requests \in 0..MaxRequests
  /\ overlap \in BOOLEAN
  /\ NothingOutlivesAccount
  /\ \A u, v \in Bootstrap : Exists(u) /\ Exists(v) => u = v

-----------------------------------------------------------------------------
(* Until two requests overlap, and not beyond.                             *)

SomebodyAdministers == Holders # {}

\* accounts.py:7-10: the last Global Admin never loses the role, is suspended
\* or deleted.
SomeGlobalAdmin == ~overlap => SomebodyAdministers

\* accounts.py:11, 417-419: no seat beyond those paid for, but the one the seed
\* gives back.
SeatsPaidFor == ~overlap => (SEATS # NULL => Cardinality(seats \ given) <= SEATS)

BySeed == \E w \in Worker : req[w].op = "seed" /\ req'[w] = Free

\* One grant of a role per person and scope: taking it away takes it away.
OneGrantPerScope ==
  ~overlap => \A g, h \in DOMAIN grants : grants[g] = grants[h] => g = h

\* models.py:79-81: a change to what somebody may do moves their permissions
\* version, so that what was issued under the old one is told apart; what a run of
\* the seed gives back does not.
VersionMovesWithAccess ==
  [][~overlap' /\ ~BySeed =>
       \A u \in User :
         LET rolesBefore == {role \in Role : Granted(u, role)}
             rolesAfter  == {role \in Role : Granted(u, role)'}
         IN  (Exists(u) /\ Exists(u)' /\
              (rolesAfter # rolesBefore \/ (u \in seats') # (u \in seats)
               \/ people'[u].status # people[u].status))
             => people'[u].version > people[u].version]_vars
=============================================================================
