-------------------------------- MODULE Roles --------------------------------
(***************************************************************************)
(* The roles of one organisation (admin_roles.py), who holds them, and the  *)
(* provisioning rules that name them (admin_provisioning.py).  A role is    *)
(* found by id, by its key, which never changes, and by its name, which     *)
(* does.  The administrator is a Global Admin, as the routes require, so no *)
(* grant is refused for want of reach; a role is held at one scope.         *)
(***************************************************************************)
EXTENDS Integers, Sequences, FiniteSets

CONSTANTS
  Person,        \* people, by address
  Role,          \* role ids; each is drawn once
  Builtin,       \* those of the system
  Name,          \* names, a role's key being its first
  FirstName,     \* ... of the roles there are at first, the built-in ones among them
  Group,         \* directory groups
  Worker,
  Null,
  MaxVersion,    \* bound: changes to one person's access
  MaxRequests    \* bound: requests

ASSUME RolesAssumption ==
  /\ Builtin \subseteq Role
  /\ Builtin \subseteq DOMAIN FirstName /\ DOMAIN FirstName \subseteq Role
  /\ FirstName \in [DOMAIN FirstName -> Name]
  /\ \A r, s \in DOMAIN FirstName : FirstName[r] = FirstName[s] => r = s
  /\ MaxVersion \in Nat /\ MaxRequests \in Nat

ASSUME NullAssumption == Null \notin Role \cup Name

VARIABLES
  roles,         \* `roles', by id
  people,        \* who has an account
  grants,        \* `user_roles'
  version,       \* permissions_version of each
  rules,         \* `provisioning_map': the role of each group that has a rule
  drawn,         \* ids there have been (history)
  req,           \* the requests in flight
  requests,      \* so far
  overlap        \* whether any two have been in flight at once (history)

tables    == <<roles, people, grants, version, rules>>
rolesVars == <<tables, drawn, req, requests, overlap>>

RoleRow == [key : Name, name : Name, allows : BOOLEAN]
Version == 0..MaxVersion

Free == [op |-> "none"]

\* A change carries the row it read, the row it wants and the holders it read,
\* each with the version they had.
RoleRequest ==
  [op : {"patch"}, role : Role, read : RoleRow, wanted : RoleRow,
   holders : UNION {[S -> Version] : S \in SUBSET Person}]
  \cup [op : {"delete"}, role : Role]

-----------------------------------------------------------------------------
Existing == DOMAIN roles
Custom   == Existing \ Builtin

HoldersOf(r) == {p \in Person : <<p, r>> \in grants}

\* _refuse_builtin_lookalike.
LooksBuiltin(name) == \E r \in Builtin : name \in {roles[r].key, roles[r].name}

Put(w, r) ==
  /\ req' = [req EXCEPT ![w] = r]
  /\ overlap' = (overlap \/ (r # Free /\ \E v \in Worker \ {w} : req[v] # Free))

Step(w, r) == Put(w, r) /\ UNCHANGED <<tables, drawn, requests>>

Count == requests < MaxRequests /\ requests' = requests + 1

Begin(w, r) == Put(w, r) /\ Count /\ UNCHANGED <<tables, drawn>>

\* A request that takes effect in one step, beside those in flight.
AtOnce ==
  /\ Count
  /\ req' = req
  /\ overlap' = (overlap \/ \E w \in Worker : req[w] # Free)

\* A transaction that has written to an account, and not committed yet, keeps
\* others from writing to it; one that inserts an address, from inserting it.
Untouched(p) ==
  \A w \in Worker : req[w].op = "written" =>
    p \notin req[w].create \cup req[w].add \cup req[w].seat

Bump(S) ==
  /\ \A p \in S : version[p] < MaxVersion
  /\ version' = [p \in Person |-> IF p \in S THEN version[p] + 1 ELSE version[p]]

-----------------------------------------------------------------------------
InitRoles ==
  /\ roles = [r \in DOMAIN FirstName |->
                [key |-> FirstName[r], name |-> FirstName[r], allows |-> TRUE]]
  /\ people = {}
  /\ grants = {}
  /\ version = [p \in Person |-> 0]
  /\ rules = <<>>
  /\ drawn = DOMAIN FirstName
  /\ req = [w \in Worker |-> Free]
  /\ requests = 0
  /\ overlap = FALSE

\* create_role, with what `source' allows if it is a clone.  The unique
\* constraint on the key settles what the check before it may miss.
CreateRole(r, name, source) ==
  /\ r \notin drawn
  /\ ~LooksBuiltin(name)
  /\ \A other \in Custom : roles[other].key # name
  /\ roles' = [s \in Existing \cup {r} |->
       IF s # r THEN roles[s]
       ELSE [key |-> name, name |-> name,
             allows |-> IF source = Null THEN FALSE ELSE roles[source].allows]]
  /\ drawn' = drawn \cup {r}
  /\ AtOnce
  /\ UNCHANGED <<people, grants, version, rules>>

\* patch_role up to `_bump_holders', which reads the holders and their versions.
PatchRead(w, r, name, allows) ==
  /\ req[w] = Free
  /\ ~LooksBuiltin(name) \/ name = roles[r].name
  /\ Begin(w, [op |-> "patch", role |-> r, read |-> roles[r],
               wanted |-> [roles[r] EXCEPT !.name = name, !.allows = allows],
               holders |-> [p \in HoldersOf(r) |-> version[p]]])

\* The columns that differ from what was read, onto the row as it is.
Written(row, read, wanted) ==
  [c \in {"key", "name", "allows"} |-> IF wanted[c] # read[c] THEN wanted[c] ELSE row[c]]

\* Mutant: nobody is told.
PatchCommitQuietly(w) ==
  LET r == req[w] IN
  /\ r.op = "patch"
  /\ r.role \in Existing
  /\ \A p \in DOMAIN r.holders : p \in people /\ Untouched(p) /\ r.holders[p] < MaxVersion
  /\ roles' = [roles EXCEPT ![r.role] = Written(@, r.read, r.wanted)]
  /\ Put(w, Free)
  /\ UNCHANGED <<people, grants, version, rules, drawn, requests>>

\* ... and its commit.  The role is still there, and each of the holders.
PatchCommit(w) ==
  LET r == req[w] IN
  /\ r.op = "patch"
  /\ r.role \in Existing
  /\ \A p \in DOMAIN r.holders : p \in people /\ Untouched(p) /\ r.holders[p] < MaxVersion
  /\ roles' = [roles EXCEPT ![r.role] = Written(@, r.read, r.wanted)]
  /\ version' = [p \in Person |->
       IF p \in DOMAIN r.holders THEN r.holders[p] + 1 ELSE version[p]]
  /\ Put(w, Free)
  /\ UNCHANGED <<people, grants, rules, drawn, requests>>

\* delete_role: the count of holders.
DeleteRead(w, r) ==
  /\ req[w] = Free
  /\ HoldersOf(r) = {}
  /\ Begin(w, [op |-> "delete", role |-> r])

\* Mutant: the rules that name it stay.
DeleteCommitKeepingRules(w) ==
  LET r == req[w].role IN
  /\ req[w].op = "delete"
  /\ r \in Existing
  /\ roles' = [s \in Existing \ {r} |-> roles[s]]
  /\ grants' = {g \in grants : g[2] # r}
  /\ Put(w, Free)
  /\ UNCHANGED <<people, version, rules, drawn, requests>>

\* ... and the deletion, which takes whatever refers to the role by then: the
\* grants and the rules.
DeleteCommit(w) ==
  LET r == req[w].role IN
  /\ req[w].op = "delete"
  /\ r \in Existing
  /\ roles' = [s \in Existing \ {r} |-> roles[s]]
  /\ grants' = {g \in grants : g[2] # r}
  /\ rules' = [g \in {h \in DOMAIN rules : rules[h] # r} |-> rules[g]]
  /\ Put(w, Free)
  /\ UNCHANGED <<people, version, drawn, requests>>

\* Either ends and commits nothing: refused, or its commit fails.
RefuseRole(w) ==
  /\ req[w].op \in {"patch", "delete"}
  /\ Step(w, Free)

-----------------------------------------------------------------------------
\* accounts.grant_role and revoke_role, each a request of its own.
GrantRole(p, r) ==
  /\ p \in people /\ r \in Existing
  /\ <<p, r>> \notin grants
  /\ Untouched(p)
  /\ grants' = grants \cup {<<p, r>>}
  /\ Bump({p})
  /\ AtOnce
  /\ UNCHANGED <<roles, people, rules, drawn>>

RevokeRole(p, r) ==
  /\ <<p, r>> \in grants
  /\ Untouched(p)
  /\ grants' = grants \ {<<p, r>>}
  /\ Bump({p})
  /\ AtOnce
  /\ UNCHANGED <<roles, people, rules, drawn>>

\* accounts.create_user from the panel, and delete_user.
CreateUser(p) ==
  /\ p \notin people
  /\ Untouched(p)
  /\ people' = people \cup {p}
  /\ AtOnce
  /\ UNCHANGED <<roles, grants, version, rules, drawn>>

DeleteUser(p) ==
  /\ p \in people
  /\ Untouched(p)
  /\ people' = people \ {p}
  /\ grants' = {g \in grants : g[1] # p}
  /\ AtOnce
  /\ UNCHANGED <<roles, version, rules, drawn>>

\* create_rule and update_rule: one rule for a group, of a role there is.
PutRule(g, r) ==
  /\ r \in Existing
  /\ rules' = [h \in DOMAIN rules \cup {g} |-> IF h = g THEN r ELSE rules[h]]
  /\ AtOnce
  /\ UNCHANGED <<roles, people, grants, version, drawn>>

-----------------------------------------------------------------------------
NextRoles ==
  \/ \E r \in Role, name \in Name, source \in Existing \cup {Null} : CreateRole(r, name, source)
  \/ \E w \in Worker :
       \/ \E r \in Custom, name \in Name, allows \in BOOLEAN : PatchRead(w, r, name, allows)
       \/ PatchCommit(w)
       \/ \E r \in Custom : DeleteRead(w, r)
       \/ DeleteCommit(w)
       \/ RefuseRole(w)
  \/ \E p \in Person :
       \/ \E r \in Existing : GrantRole(p, r) \/ RevokeRole(p, r)
       \/ CreateUser(p)
       \/ DeleteUser(p)
  \/ \E g \in Group, r \in Existing : PutRule(g, r)

-----------------------------------------------------------------------------
\* Of a patch of a role in flight: somebody who holds the role now, and whose
\* grants or version have changed since it read the holders.
Overtook(p, r, w) ==
  /\ req[w].op = "patch" /\ req[w].role = r
  /\ p \in DOMAIN req[w].holders => req[w].holders[p] # version[p]

\* The tables refer to rows there are: every grant to an account and a role,
\* every rule to a role.
RolesTypeOK ==
  /\ Builtin \subseteq Existing /\ Existing \subseteq drawn /\ drawn \subseteq Role
  /\ roles \in [Existing -> RoleRow]
  /\ \A r, s \in Existing : roles[r].key = roles[s].key => r = s
  /\ people \subseteq Person
  /\ grants \subseteq people \X Existing
  /\ version \in [Person -> Version]
  /\ DOMAIN rules \subseteq Group
  /\ \A g \in DOMAIN rules : rules[g] \in Existing
  /\ requests \in 0..MaxRequests
  /\ overlap \in BOOLEAN

\* admin_roles.py:211-218, 360-374: whoever holds a role re-resolves when what it
\* allows changes, and a deletion takes a role from nobody.  In the commit that
\* changes what a role allows, the version of everybody who holds it goes up; the
\* one exception is somebody whose grants or version another request changed
\* after this one had read them.  When a role goes, nobody holds it, unless
\* requests have overlapped.
RoleChangesReachHolders ==
  [][\A r \in Existing :
       /\ r \notin Existing' => overlap' \/ HoldersOf(r) = {}
       /\ r \in Existing' /\ roles'[r].allows # roles[r].allows =>
            \A p \in HoldersOf(r) :
              \/ version'[p] > version[p]
              \/ overlap' /\ \E w \in Worker : req[w] # req'[w] /\ Overtook(p, r, w)]_rolesVars

\* admin_roles.py:364-366, of any requests: nobody is stripped of access quietly.
NobodyIsStripped ==
  [][\A r \in Existing : r \notin Existing' => HoldersOf(r) = {}]_rolesVars
=============================================================================
