----------------------------- MODULE Resolution -----------------------------
(***************************************************************************)
(* The permission decision (resolution.py): what resolve() reads, the      *)
(* order in which it decides, and the claims that carry its input to an    *)
(* application.  Pure operators; Decisions drives them from tables.        *)
(*                                                                         *)
(* A permission key is a record, since only its three parts are compared;  *)
(* a text split_key refuses is no key here, and resolve answers FALSE to   *)
(* it.                                                                     *)
(***************************************************************************)
EXTENDS Integers

CONSTANTS
  App,           \* keys of applications
  Org,           \* ids of organisations
  Project,       \* ids of projects
  Module,        \* an application's features
  Action,        \* what can be done in one: strings, "configure" among them or not
  Role,
  Null,          \* None
  Never          \* None, for a moment: no end

ASSUME ResolutionAssumption ==
  /\ Null \notin App \cup Org \cup Project \cup Role \cup {"allow", "deny", "full", "no_access"}
  /\ Never \notin Int

Key == [app : App, module : Module, action : Action]

Specificity == [platform |-> 1, organization |-> 2, application |-> 3, project |-> 4]

Effect == {"allow", "deny"}
Level  == {"full", "no_access"}

Moment == Nat \cup {Never}

\* A scope as a grant names it, and as a question asks for it.
Scope == [kind : {"platform"}, id : {Null}]
         \cup [kind : {"organization"}, id : Org]
         \cup [kind : {"application"}, id : App]
         \cup [kind : {"project"}, id : Project]

\* A role held at a scope.
Grant == [role : Role, scope : Scope, expires : Moment]

-----------------------------------------------------------------------------
(* resolve(): `d' is a ResolutionInput.                                    *)

InForce(g, at) == g.expires = Never \/ g.expires > at

\* Does the grant's scope reach the requested one?
Covers(g, d, requested) ==
  \/ g.scope.kind = "platform"
  \/ g.scope.kind = "organization" /\ g.scope.id = d.org
  \/ g.scope.kind = "application"  /\ g.scope.id = d.app
  \/ g.scope.kind = "project" /\ requested.kind = "project" /\ g.scope.id = requested.id

\* Steps 2 and 3.
Reaching(d, requested, at) ==
  {g \in d.grants : InForce(g, at) /\ Covers(g, d, requested)}

Rule(d, role, key) ==
  IF <<role, key>> \in DOMAIN d.rules THEN d.rules[<<role, key>>] ELSE Null

Cell(d, module, role) ==
  IF <<module, role>> \in DOMAIN d.grid THEN d.grid[<<module, role>>] ELSE Null

\* Does this role allow any action of this module?
AllowsAny(d, role, module) ==
  \E e \in DOMAIN d.rules : e[1] = role /\ e[2].module = module /\ d.rules[e] = "allow"

\* Full Access on a role that allows nothing in the module.
SwitchedOn(d, role, key) ==
  /\ Cell(d, key.module, role) = "full"
  /\ ~AllowsAny(d, role, key.module)
  /\ key.action # "configure" \/ role \in d.configuring

\* Mutant: a role the grid shuts out is passed over.
SaysUnlessShut(d, role, key) ==
  IF Cell(d, key.module, role) = "no_access" THEN Null
  ELSE IF SwitchedOn(d, role, key) THEN "allow" ELSE Rule(d, role, key)

\* What the role says about the key, Null for nothing.
Says(d, role, key) ==
  IF SwitchedOn(d, role, key) THEN "allow" ELSE Rule(d, role, key)

Rank(g) == Specificity[g.scope.kind]

\* Step 4: of the grants whose role says something, the most specific.
Decisive(d, key, requested, at) ==
  LET matches == {g \in Reaching(d, requested, at) : Says(d, g.role, key) # Null}
  IN  {g \in matches : \A h \in matches : Rank(h) <= Rank(g)}

\* Step 5: the grid takes the module away from the role.
ShutOut(d, role, module) == Cell(d, module, role) \notin {Null, "full"}

\* May the person d describes do this, there?
Resolve(d, key, requested, at) ==
  LET decisive == Decisive(d, key, requested, at) IN
  /\ key.app = d.app
  /\ d.entitled
  /\ d.until # Never => d.until >= at
  /\ key \in d.registered
  /\ key.module \notin d.inactive
  /\ decisive # {}
  /\ \A g \in decisive : /\ Says(d, g.role, key) = "allow"
                         /\ ~ShutOut(d, g.role, key.module)

-----------------------------------------------------------------------------
(* The claims of a token, and the input read back from them.               *)

ToClaims(d) ==
  [aud       |-> d.app,
   org       |-> d.org,
   entitled  |-> d.entitled,
   entitled_until |-> d.until,
   grants    |-> d.grants,
   role_permissions |->
     [role \in {e[1] : e \in DOMAIN d.rules} |->
        [key \in {e[2] : e \in {f \in DOMAIN d.rules : f[1] = role}} |->
           d.rules[<<role, key>>]]],
   tool_rules |->
     {[module_key |-> c[1], role_id |-> c[2], access_level |-> d.grid[c]] : c \in DOMAIN d.grid},
   registered |-> d.registered,
   inactive_modules |-> d.inactive,
   configuring_roles |-> d.configuring]

\* Mutant: one level per module, whichever role's came last.
CellsByModule(tool_rules) ==
  [c \in {<<t.module_key, t.role_id>> : t \in tool_rules} |->
     (CHOOSE t \in tool_rules : t.module_key = c[1]).access_level]

CellsOf(tool_rules) ==
  [c \in {<<t.module_key, t.role_id>> : t \in tool_rules} |->
     (CHOOSE t \in tool_rules : <<t.module_key, t.role_id>> = c).access_level]

FromClaims(c) ==
  [app      |-> c.aud,
   org      |-> c.org,
   entitled |-> c.entitled,
   until    |-> c.entitled_until,
   grants   |-> c.grants,
   rules    |->
     [e \in UNION {{role} \X DOMAIN c.role_permissions[role] : role \in DOMAIN c.role_permissions} |->
        c.role_permissions[e[1]][e[2]]],
   grid     |-> CellsOf(c.tool_rules),
   registered  |-> c.registered,
   inactive    |-> c.inactive_modules,
   configuring |-> c.configuring_roles]
=============================================================================
