----------------------------- MODULE Decisions ------------------------------
(***************************************************************************)
(* The decision as Core and an application reach it: the tables of one     *)
(* person, one organisation and one application; permissions.load, which   *)
(* reads them in six statements while administrators commit; and a token   *)
(* that carries what was read to the application (tokens.py).              *)
(*                                                                         *)
(* An administrator's request reads the tables at one moment and writes    *)
(* them, all at once, at a later one: what it writes, the version it gives *)
(* the person and whether it gives them one at all, follow from what it    *)
(* read.  A report and a removal, which tell nobody, are one step; how     *)
(* they overlap each other is the subject of Features.                     *)
(***************************************************************************)
EXTENDS Resolution, FiniteSets

CONSTANTS
  Reader,        \* requests that load
  Admin,         \* administrators' requests
  APP, ORG,      \* the application and the person's organisation
  Offered,       \* the grants an administrator may give the person
  System,        \* roles no panel edits (admin_roles._editable)
  GlobalAdmin,   \* the role a new permission is allowed for
  Configuring,   \* built-in admin roles (CONFIGURING_ROLE_KEYS)
  UNTIL,         \* subscriptions.valid_to
  TOKEN_TTL,
  MaxCommits, MaxTokens, MaxTime      \* bounds

ASSUME DecisionsAssumption ==
  /\ APP \in App /\ ORG \in Org
  /\ Offered \subseteq Grant
  /\ System \subseteq Role /\ Configuring \subseteq Role /\ GlobalAdmin \in Role
  /\ UNTIL \in Moment
  /\ TOKEN_TTL \in Nat \ {0}
  /\ MaxCommits \in Nat /\ MaxTokens \in Nat /\ MaxTime \in Nat

VARIABLES
  seat,          \* a `user_licenses' row in a live, subscribed organisation
  grants,        \* `user_roles'
  rules,         \* `role_permissions'
  grid,          \* `tool_rules'
  registered,    \* `permissions'
  inactive,      \* `tool_settings' with status inactive
  retired,       \* `retired_features'
  version,       \* users.permissions_version
  now,
  admin,         \* what each administrator's request in flight has read
  reader,        \* the loads in flight
  tokens,        \* the tokens an application holds
  commits,       \* commits by administrators and reports so far (history)
  reports,       \* the applications' reports that added to the registry (history)
  overtaken      \* commits by requests whose reading was out of date (history)

tables  == <<seat, grants, rules, grid, registered, inactive, retired, version>>
history == <<commits, reports, overtaken>>
vars    == <<tables, now, admin, reader, tokens, history>>

OurKey == [app : {APP}, module : Module, action : Action]

\* ResolutionInput(app_key, org_id, entitled=False).
Blank == [app |-> APP, org |-> ORG, entitled |-> FALSE, until |-> Never,
          grants |-> {}, rules |-> << >>, grid |-> << >>,
          registered |-> {}, inactive |-> {}, configuring |-> {}]

\* The scope resolve() falls back to, which every caller in Core uses.
Asked == [kind |-> "application", id |-> APP]

\* A load in flight: the next statement, what the ones before it returned, the
\* version the person's row had; and, as history, the changes, the overtaken
\* ones, the registry and the switched-off features there were when it began, and
\* what has been allowed at some moment since.
Idle == [at |-> "idle", data |-> Blank, pv |-> 0, since |-> 0, reports |-> 0,
         overtaken |-> 0, retired |-> {}, off |-> {}, right |-> {}]

\* What may alter a decision: a commit, or the end of a grant.
Changes == commits + now

-----------------------------------------------------------------------------
(* What each statement of load() returns.                                  *)

Entitled == seat /\ (UNTIL # Never => UNTIL >= now)

Bearing == {g \in grants : /\ InForce(g, now)
                           /\ g.scope.kind = "application" => g.scope.id = APP}

RolesOf(d) == {g.role : g \in d.grants}

RulesFor(roles) == [e \in {f \in DOMAIN rules : f[1] \in roles} |-> rules[e]]

CellsFor(roles) == [c \in {b \in DOMAIN grid : b[2] \in roles} |-> grid[c]]

Fetched(d, step) ==
  CASE step = "entitled"   -> [d EXCEPT !.entitled = TRUE, !.until = UNTIL]
    [] step = "grants"     -> [d EXCEPT !.grants = Bearing]
    [] step = "rules"      -> [d EXCEPT !.rules = RulesFor(RolesOf(d))]
    [] step = "grid"       -> [d EXCEPT !.grid = CellsFor(RolesOf(d))]
    [] step = "registered" -> [d EXCEPT !.registered = registered,
                                        !.configuring = Configuring \cap RolesOf(d)]
    [] step = "inactive"   -> [d EXCEPT !.inactive = inactive]

\* Mutant: the registry is read before the grid.
AfterRegistryFirst ==
  [entitled |-> "grants", grants |-> "rules", rules |-> "registered",
   registered |-> "grid", grid |-> "inactive", inactive |-> "loaded"]

After ==
  [entitled |-> "grants", grants |-> "rules", rules |-> "grid",
   grid |-> "registered", registered |-> "inactive", inactive |-> "loaded"]

\* The input an undisturbed load would return.
LoadNow ==
  IF ~Entitled THEN Blank
  ELSE [app |-> APP, org |-> ORG, entitled |-> TRUE, until |-> UNTIL,
        grants |-> Bearing,
        rules |-> RulesFor({g.role : g \in Bearing}),
        grid |-> CellsFor({g.role : g \in Bearing}),
        registered |-> registered, inactive |-> inactive,
        configuring |-> Configuring \cap {g.role : g \in Bearing}]

\* Every permission an input holds (router_gate.permitted).
Permitted(d, at) == {key \in d.registered : Resolve(d, key, Asked, at)}

AllowedNow == Permitted(LoadNow, now)

-----------------------------------------------------------------------------
Init ==
  /\ seat \in BOOLEAN
  /\ grants \in SUBSET Offered
  /\ registered \in SUBSET OurKey
  /\ \E says \in [Role \X registered -> Effect \cup {Null}] :
       rules = [e \in {f \in DOMAIN says : says[f] # Null} |-> says[e]]
  /\ \E level \in [{key.module : key \in registered} \X Role -> Level \cup {Null}] :
       grid = [c \in {b \in DOMAIN level : level[b] # Null} |-> level[c]]
  /\ inactive \in SUBSET {key.module : key \in registered}
  /\ retired = {}
  /\ version = 1
  /\ now = 0
  /\ admin = [a \in Admin |-> Null]
  /\ reader = [w \in Reader |-> Idle]
  /\ tokens = {}
  /\ commits = 0 /\ reports = 0 /\ overtaken = 0

\* Whoever is loading is owed no more than was allowed at some moment.
Watch ==
  reader' = [w \in Reader |->
    IF reader[w] = Idle THEN Idle
    ELSE [reader[w] EXCEPT !.right = @ \cup AllowedNow']]

Tick ==
  /\ now < MaxTime
  /\ now' = now + 1
  /\ UNCHANGED <<tables, admin, tokens, history>>
  /\ Watch

-----------------------------------------------------------------------------
(* Readers.                                                                *)

\* The person's row is loaded before anything else is.
Ask(w) ==
  /\ reader[w] = Idle
  /\ reader' = [reader EXCEPT ![w] =
       [Idle EXCEPT !.at = "entitled", !.pv = version, !.since = Changes,
                    !.reports = reports, !.overtaken = overtaken,
                    !.retired = retired, !.off = inactive, !.right = AllowedNow]]
  /\ UNCHANGED <<tables, now, admin, tokens, history>>

\* The next statement of load(); without entitlement there is no next one.
Load(w) ==
  LET r == reader[w] IN
  /\ r.at \in DOMAIN After
  /\ reader' = [reader EXCEPT ![w] =
       IF r.at = "entitled" /\ ~Entitled THEN [r EXCEPT !.at = "loaded"]
       ELSE [r EXCEPT !.at = After[r.at], !.data = Fetched(r.data, r.at)]]
  /\ UNCHANGED <<tables, now, admin, tokens, history>>

\* can(), the gate and holders: the answer is Permitted(data, now).
Answer(w) ==
  /\ reader[w].at = "loaded"
  /\ reader' = [reader EXCEPT ![w] = Idle]
  /\ UNCHANGED <<tables, now, admin, tokens, history>>

Expiry(d) ==
  IF d.until # Never /\ d.until < now + TOKEN_TTL THEN d.until ELSE now + TOKEN_TTL

\* build_claims: no token for somebody who is not entitled.
Mint(w) ==
  LET r == reader[w] IN
  /\ r.at = "loaded"
  /\ r.data.entitled
  /\ Cardinality(tokens) < MaxTokens
  /\ tokens' = tokens \cup {[claims |-> ToClaims(r.data), pv |-> r.pv,
                             exp |-> Expiry(r.data), reports |-> r.reports,
                             retired |-> r.retired, overtaken |-> r.overtaken]}
  /\ reader' = [reader EXCEPT ![w] = Idle]
  /\ UNCHANGED <<tables, now, admin, history>>

-----------------------------------------------------------------------------
(* Administrators' requests.                                               *)

\* What a request reads: the rows it may change, who holds what, and the version.
Open(a) ==
  /\ admin[a] = Null
  /\ commits < MaxCommits
  /\ admin' = [admin EXCEPT ![a] =
       [seat |-> seat, grants |-> grants, rules |-> rules, grid |-> grid,
        registered |-> registered, inactive |-> inactive, version |-> version]]
  /\ UNCHANGED <<tables, now, reader, tokens, history>>

\* Refused: nothing is written.
Drop(a) ==
  /\ admin[a] # Null
  /\ admin' = [admin EXCEPT ![a] = Null]
  /\ UNCHANGED <<tables, now, reader, tokens, history>>

Commit ==
  /\ commits < MaxCommits
  /\ commits' = commits + 1
  /\ UNCHANGED <<now, tokens>>
  /\ Watch

\* Another commit has changed the person's grants or version since a read them.
Overtaken(a) == admin[a].version # version \/ admin[a].grants # grants

Finish(a) ==
  /\ admin' = [admin EXCEPT ![a] = Null]
  /\ overtaken' = IF Overtaken(a) THEN overtaken + 1 ELSE overtaken
  /\ UNCHANGED <<retired, registered, reports>>
  /\ Commit

\* bump_permissions_version: the version that was read, and one.
Bump(a, affected) ==
  version' = IF affected THEN admin[a].version + 1 ELSE version

Holds(a, role) == \E g \in admin[a].grants : g.role = role

HasTool(keys, module) == \E key \in keys : key.module = module

\* table with the rows that changes names set, or cleared where it says Null.
Written(table, changes) ==
  [e \in {f \in DOMAIN table \cup DOMAIN changes :
            f \in DOMAIN changes => changes[f] # Null} |->
     IF e \in DOMAIN changes THEN changes[e] ELSE table[e]]

\* The changes that differ from what was read: no other is sent.
Differing(read, changes) ==
  [e \in {f \in DOMAIN changes :
            changes[f] # IF f \in DOMAIN read THEN read[f] ELSE Null} |-> changes[e]]

\* A row that was read can be updated while it is there, a row that was not can
\* be inserted while it is not; deleting one that is gone does nothing.
Writable(read, table, changes) ==
  \A e \in DOMAIN changes : changes[e] # Null => (e \in DOMAIN read <=> e \in DOMAIN table)

\* accounts.revoke_role of a grant the person held, or else accounts.grant_role.
ChangeGrant(a, g) ==
  /\ admin[a] # Null
  /\ g \in admin[a].grants \/ g \notin grants
  /\ grants' = IF g \in admin[a].grants THEN grants \ {g} ELSE grants \cup {g}
  /\ Bump(a, TRUE)
  /\ UNCHANGED <<seat, rules, grid, inactive>>
  /\ Finish(a)

\* accounts.remove_license, or accounts.assign_license.
ChangeSeat(a) ==
  /\ admin[a] # Null
  /\ admin[a].seat \/ ~seat
  /\ seat' = ~admin[a].seat
  /\ Bump(a, TRUE)
  /\ UNCHANGED <<grants, rules, grid, inactive>>
  /\ Finish(a)

\* A rule for a permission removed meanwhile is refused by its foreign key.
PatchRole(a, role, changes) ==
  LET sent == Differing(admin[a].rules, changes) IN
  /\ admin[a] # Null
  /\ role \notin System
  /\ DOMAIN changes \subseteq {role} \X admin[a].registered
  /\ Writable(admin[a].rules, rules, sent)
  /\ \A e \in DOMAIN sent : sent[e] # Null => e[2] \in registered
  /\ rules' = Written(rules, sent)
  /\ Bump(a, Holds(a, role))
  /\ UNCHANGED <<seat, grants, grid, inactive>>
  /\ Finish(a)

\* Mutant: clearing a cell tells nobody.
PutToolRulesTellingSet(a, changes) ==
  LET sent == Differing(admin[a].grid, changes) IN
  /\ admin[a] # Null
  /\ DOMAIN changes # {}
  /\ \A c \in DOMAIN changes : HasTool(admin[a].registered, c[1])
  /\ Writable(admin[a].grid, grid, sent)
  /\ grid' = Written(grid, sent)
  /\ Bump(a, \E c \in DOMAIN changes : Holds(a, c[2]) /\ changes[c] # Null)
  /\ UNCHANGED <<seat, grants, rules, inactive>>
  /\ Finish(a)

PutToolRules(a, changes) ==
  LET sent == Differing(admin[a].grid, changes) IN
  /\ admin[a] # Null
  /\ DOMAIN changes # {}
  /\ \A c \in DOMAIN changes : HasTool(admin[a].registered, c[1])
  /\ Writable(admin[a].grid, grid, sent)
  /\ grid' = Written(grid, sent)
  /\ Bump(a, \E c \in DOMAIN changes :
               Holds(a, c[2]) /\ (changes[c] = Null => c \in DOMAIN admin[a].grid))
  /\ UNCHANGED <<seat, grants, rules, inactive>>
  /\ Finish(a)

\* A setting removed with its feature meanwhile cannot be switched on again.
PutToolStatus(a, module, off) ==
  LET differs == off # (module \in admin[a].inactive) IN
  /\ admin[a] # Null
  /\ HasTool(admin[a].registered, module)
  /\ differs => off \/ module \notin retired
  /\ inactive' = IF ~differs THEN inactive
                 ELSE IF off THEN inactive \cup {module} ELSE inactive \ {module}
  /\ Bump(a, differs /\ admin[a].grants # {})
  /\ UNCHANGED <<seat, grants, rules, grid>>
  /\ Finish(a)

Administer(a) ==
  \/ \E g \in Offered : ChangeGrant(a, g)
  \/ ChangeSeat(a)
  \/ \E role \in Role : \E keys \in SUBSET OurKey :
       \E changes \in [{role} \X keys -> Effect \cup {Null}] : PatchRole(a, role, changes)
  \/ \E cells \in SUBSET (Module \X Role) :
       \E changes \in [cells -> Level \cup {Null}] : PutToolRules(a, changes)
  \/ \E module \in Module, off \in BOOLEAN : PutToolStatus(a, module, off)

-----------------------------------------------------------------------------
(* The application's reports, and what is removed after them.              *)

\* features.register: what is new is allowed for Global Admin and denied for
\* every other role, and nobody's version moves.
RegisterFeatures(keys) ==
  LET new == keys \ registered IN
  /\ keys \subseteq OurKey
  /\ \A key \in keys : key.module \notin retired
  /\ new # {}
  /\ registered' = registered \cup keys
  /\ rules' = Written(rules, [e \in Role \X new |->
                                IF e[1] = GlobalAdmin THEN "allow" ELSE "deny"])
  /\ reports' = reports + 1
  /\ UNCHANGED <<seat, grants, grid, inactive, retired, version, admin, overtaken>>
  /\ Commit

\* Mutant: the permissions go, their rules stay.
RemoveFeatureKeepingRules(module) ==
  /\ HasTool(registered, module)
  /\ registered' = {key \in registered : key.module # module}
  /\ grid' = [c \in {b \in DOMAIN grid : b[1] # module} |-> grid[c]]
  /\ inactive' = inactive \ {module}
  /\ retired' = retired \cup {module}
  /\ UNCHANGED <<seat, grants, rules, version, admin, reports, overtaken>>
  /\ Commit

\* features.remove, of a feature its application reports no longer.
RemoveFeature(module) ==
  /\ HasTool(registered, module)
  /\ registered' = {key \in registered : key.module # module}
  /\ rules' = [e \in {f \in DOMAIN rules : f[2].module # module} |-> rules[e]]
  /\ grid' = [c \in {b \in DOMAIN grid : b[1] # module} |-> grid[c]]
  /\ inactive' = inactive \ {module}
  /\ retired' = retired \cup {module}
  /\ UNCHANGED <<seat, grants, version, admin, reports, overtaken>>
  /\ Commit

Next ==
  \/ Tick
  \/ \E w \in Reader : Ask(w) \/ Load(w) \/ Answer(w) \/ Mint(w)
  \/ \E a \in Admin : Open(a) \/ Drop(a) \/ Administer(a)
  \/ \E keys \in SUBSET OurKey : RegisterFeatures(keys)
  \/ \E module \in Module : RemoveFeature(module)

Spec == Init /\ [][Next]_vars

-----------------------------------------------------------------------------
Rows(table, keys, values) ==
  DOMAIN table \subseteq keys /\ \A e \in DOMAIN table : table[e] \in values

Input(d) ==
  /\ d.app = APP /\ d.org = ORG
  /\ d.entitled \in BOOLEAN
  /\ d.until \in Moment
  /\ d.grants \subseteq Grant
  /\ Rows(d.rules, Role \X OurKey, Effect)
  /\ Rows(d.grid, Module \X Role, Level)
  /\ d.registered \subseteq OurKey
  /\ d.inactive \subseteq Module
  /\ d.configuring \subseteq Configuring

\* The tables as their constraints keep them (models.py:285-434): a role
\* permission without its permission is not one of them.
TypeOK ==
  /\ seat \in BOOLEAN
  /\ grants \subseteq Offered
  /\ registered \subseteq OurKey
  /\ Rows(rules, Role \X registered, Effect)
  /\ Rows(grid, Module \X Role, Level)
  /\ inactive \subseteq Module
  /\ retired \subseteq Module
  /\ version \in Nat /\ now \in Nat
  /\ commits \in Nat /\ reports \in Nat /\ overtaken \in Nat
  /\ DOMAIN admin = Admin
  /\ \A a \in Admin : admin[a] # Null => admin[a].version \in Nat
  /\ DOMAIN reader = Reader
  /\ \A w \in Reader : /\ reader[w].at \in DOMAIN After \cup {"idle", "loaded"}
                        /\ Input(reader[w].data)
                        /\ reader[w].pv \in Nat
  /\ \A t \in tokens : t.pv \in Nat /\ t.exp \in Nat /\ Input(FromClaims(t.claims))

-----------------------------------------------------------------------------
(* Of the decision, whatever the tables hold.                              *)

\* d with this level in that cell, or with the cell clear.
WithCell(d, cell, level) == [d EXCEPT !.grid = Written(d.grid, [c \in {cell} |-> level])]

\* resolution.py:226-249: in one cell, closing it never allows anything, at any
\* scope, that clearing it would refuse, and opening it - which does allow, by
\* itself - never refuses anything that clearing it would allow.
GridIsMonotone ==
  \A cell \in Module \X Role, key \in OurKey, requested \in Scope :
    LET Allows(level) == Resolve(WithCell(LoadNow, cell, level), key, requested, now) IN
    /\ Allows("no_access") => Allows(Null)
    /\ Allows(Null) => Allows("full")

\* OPEN-DECISIONS.md:1166-1171: `configure' is had by a role that says so or by
\* a built-in administrator's, never because a cell was switched on.
ConfigureStaysWithAdmins ==
  \A key \in OurKey, requested \in Scope :
    key.action = "configure" /\ Resolve(LoadNow, key, requested, now)
      => \E g \in Reaching(LoadNow, requested, now) :
           g.role \in Configuring \/ Rule(LoadNow, g.role, key) = "allow"

\* resolution.py:227: most specific wins.  A grant below one that says something
\* has no say, not even by what the grid does to its role.
OutrankedGrantsAreMute ==
  \A g \in LoadNow.grants, key \in OurKey, requested \in Scope :
    (\E h \in Reaching(LoadNow, requested, now) :
        Rank(h) > Rank(g) /\ Says(LoadNow, h.role, key) # Null)
      => Resolve([LoadNow EXCEPT !.grants = @ \ {g}], key, requested, now)
           = Resolve(LoadNow, key, requested, now)

\* The policy (resolution.py:184-273), of any contents of the tables.
Policy == GridIsMonotone /\ ConfigureStaysWithAdmins /\ OutrankedGrantsAreMute

\* resolution.py:281-285: the claims read back are the input they were made of.
ClaimsCarryTheInput == FromClaims(ToClaims(LoadNow)) = LoadNow

-----------------------------------------------------------------------------
(* Of a load that others commit during.                                    *)

\* permissions.load: though it reads in six statements, one change in between -
\* an administrator's commit, or a grant that ends - never allows what was
\* refused both before and after it.  The exception is a switched-off feature
\* removed meanwhile.
AllowedWasRight ==
  \A w \in Reader :
    LET r == reader[w] IN
    r.at = "loaded" /\ Changes - r.since <= 1 /\ reports = r.reports
      => \A key \in Permitted(r.data, now) : key \in r.right \/ key.module \in r.off \cap retired

-----------------------------------------------------------------------------
(* Of a token.                                                             *)

Live(t) == now < t.exp

Accepted(t) == Permitted(FromClaims(t.claims), now)

\* tokens.py:55: the version is bumped by every change an administrator makes to
\* this person's access, so a live token that bears it answers what Core would.
\* It is not bumped by what a report adds or a removal takes away.  And it is
\* read in one statement and written in another (permissions.py:323-326): the
\* promise is not kept once a request commits that read the person's grants or
\* version before another's commit changed them, for its bump may repeat a
\* version, undo a later one, or not be made at all.
VersionTellsAdminChanges ==
  \A t \in tokens :
    /\ Live(t) /\ t.pv = version
    /\ t.reports = reports /\ t.retired = retired /\ t.overtaken = overtaken
    => Accepted(t) = AllowedNow
=============================================================================
