-------------------------- MODULE DecisionsProofs ---------------------------
(***************************************************************************)
(* What holds of every decision, for any roles, features, scopes, tables   *)
(* and moments: first of the operators of Resolution, over any input, then *)
(* of Decisions, whose loads only ever build such inputs; then what one    *)
(* change that falls between the statements of a load can do to it; then   *)
(* what the version in a token tells.                                      *)
(***************************************************************************)
EXTENDS Decisions, TLAPS

-----------------------------------------------------------------------------
(* The operators.                                                          *)

\* The four scopes are ordered, so of any grants some are the most specific.
LEMMA RankType ==
  \A g : g.scope.kind \in DOMAIN Specificity => Rank(g) \in 1..4
BY DEF Rank, Specificity

LEMMA TopExists ==
  ASSUME NEW S, S # {}, \A g \in S : Rank(g) \in 1..4
  PROVE  \E g \in S : \A h \in S : Rank(h) <= Rank(g)
<1>1. CASE \E g \in S : Rank(g) = 4
  BY <1>1
<1>2. CASE ~(\E g \in S : Rank(g) = 4) /\ \E g \in S : Rank(g) = 3
  BY <1>2
<1>3. CASE ~(\E g \in S : Rank(g) \in {3, 4}) /\ \E g \in S : Rank(g) = 2
  BY <1>3
<1>4. CASE ~(\E g \in S : Rank(g) \in {2, 3, 4})
  BY <1>4
<1> QED
  BY <1>1, <1>2, <1>3, <1>4

LEMMA GrantRank == \A g \in Grant : Rank(g) \in 1..4
<1> SUFFICES ASSUME NEW g \in Grant PROVE Rank(g) \in 1..4
  OBVIOUS
<1>1. g.scope \in Scope
  BY DEF Grant
<1>2. g.scope.kind \in DOMAIN Specificity
  BY <1>1 DEF Scope, Specificity
<1> QED
  BY <1>2, RankType

\* Two inputs that differ in their grid only, and whose roles say the same of
\* a key, have the same decisive grants.
LEMMA SameSaysSameDecisive ==
  ASSUME NEW d, NEW e, NEW key, NEW requested, NEW at,
         e.grants = d.grants, e.app = d.app, e.org = d.org,
         \A role : Says(e, role, key) = Says(d, role, key)
  PROVE  Decisive(e, key, requested, at) = Decisive(d, key, requested, at)
<1>1. Reaching(e, requested, at) = Reaching(d, requested, at)
  BY DEF Reaching, Covers
<1> QED
  BY <1>1 DEF Decisive

\* What setting one cell leaves of the input.
LEMMA WithCellFields ==
  ASSUME NEW d, d = [app |-> d.app, org |-> d.org, entitled |-> d.entitled,
                     until |-> d.until, grants |-> d.grants, rules |-> d.rules,
                     grid |-> d.grid, registered |-> d.registered,
                     inactive |-> d.inactive, configuring |-> d.configuring],
         NEW module, NEW role, NEW level
  PROVE  LET e == WithCell(d, <<module, role>>, level) IN
         /\ e.app = d.app /\ e.org = d.org /\ e.entitled = d.entitled
         /\ e.until = d.until /\ e.grants = d.grants /\ e.rules = d.rules
         /\ e.registered = d.registered /\ e.inactive = d.inactive
         /\ e.configuring = d.configuring
         /\ Cell(e, module, role) = level
         /\ \A m, r : <<m, r>> # <<module, role>> => Cell(e, m, r) = Cell(d, m, r)
<1> DEFINE c == <<module, role>>
           changes == [x \in {c} |-> level]
           e == WithCell(d, c, level)
<1>1. e.grid = Written(d.grid, changes)
  BY DEF WithCell
<1>2. DOMAIN changes = {c} /\ changes[c] = level
  OBVIOUS
<1>3. DOMAIN e.grid = {f \in DOMAIN d.grid \cup {c} : f = c => level # Null}
  BY <1>1, <1>2 DEF Written
<1>4. \A x \in DOMAIN e.grid : e.grid[x] = IF x = c THEN level ELSE d.grid[x]
  BY <1>1, <1>2, <1>3 DEF Written
<1>5. Cell(e, module, role) = level
  <2>1. CASE level = Null
    BY <1>3, <2>1 DEF Cell
  <2>2. CASE level # Null
    BY <1>3, <1>4, <2>2 DEF Cell
  <2> QED
    BY <2>1, <2>2
<1>6. ASSUME NEW m, NEW r, <<m, r>> # <<module, role>>
      PROVE  Cell(e, m, r) = Cell(d, m, r)
  BY <1>3, <1>4, <1>6 DEF Cell
<1>7. /\ e.app = d.app /\ e.org = d.org /\ e.entitled = d.entitled
      /\ e.until = d.until /\ e.grants = d.grants /\ e.rules = d.rules
      /\ e.registered = d.registered /\ e.inactive = d.inactive
      /\ e.configuring = d.configuring
  BY DEF WithCell
<1> QED
  BY <1>5, <1>6, <1>7

-----------------------------------------------------------------------------
Ranked(d) == \A g \in d.grants : Rank(g) \in 1..4

\* Closing a cell that was clear refuses more and allows nothing: the roles say
\* what they said.
LEMMA ClosingOnlyTakesAway ==
  ASSUME NEW c, NEW d, NEW key, NEW requested, NEW at, NEW role,
         d.grants = c.grants, d.app = c.app, d.org = c.org, d.entitled = c.entitled,
         d.until = c.until, d.rules = c.rules, d.registered = c.registered,
         d.inactive = c.inactive, d.configuring = c.configuring,
         NEW module, Cell(c, module, role) = "no_access", Cell(d, module, role) = Null,
         \A m, r : <<m, r>> # <<module, role>> => Cell(c, m, r) = Cell(d, m, r),
         Resolve(c, key, requested, at)
  PROVE  Resolve(d, key, requested, at)
<1>1. \A r : Says(c, r, key) = Says(d, r, key)
  <2> SUFFICES ASSUME NEW r PROVE Says(c, r, key) = Says(d, r, key)
    OBVIOUS
  <2>1. Rule(c, r, key) = Rule(d, r, key)
    BY DEF Rule
  <2>2. SwitchedOn(c, r, key) <=> SwitchedOn(d, r, key)
    <3>1. (Cell(c, key.module, r) = "full") <=> (Cell(d, key.module, r) = "full")
      <4>1. CASE <<key.module, r>> = <<module, role>>
        <5>1. key.module = module /\ r = role
          BY <4>1
        <5>2. Null # "full"
          BY ResolutionAssumption
        <5> QED
          BY <5>1, <5>2
      <4>2. CASE <<key.module, r>> # <<module, role>>
        BY <4>2
      <4> QED
        BY <4>1, <4>2
    <3>2. AllowsAny(c, r, key.module) <=> AllowsAny(d, r, key.module)
      BY DEF AllowsAny
    <3> QED
      BY <3>1, <3>2 DEF SwitchedOn
  <2> QED
    BY <2>1, <2>2 DEF Says
<1>2. Decisive(d, key, requested, at) = Decisive(c, key, requested, at)
  BY <1>1, SameSaysSameDecisive
<1>3. \A r : ~ShutOut(c, r, key.module) => ~ShutOut(d, r, key.module)
  <2> SUFFICES ASSUME NEW r, ~ShutOut(c, r, key.module) PROVE ~ShutOut(d, r, key.module)
    OBVIOUS
  <2>1. CASE <<key.module, r>> = <<module, role>>
    BY <2>1 DEF ShutOut
  <2>2. CASE <<key.module, r>> # <<module, role>>
    BY <2>2 DEF ShutOut
  <2> QED
    BY <2>1, <2>2
<1> QED
  BY <1>1, <1>2, <1>3 DEF Resolve

\* Opening a cell that was clear makes its role say "allow" where it said
\* nothing or "deny", and takes no say from anybody.
LEMMA OpeningOnlyAdds ==
  ASSUME NEW d, NEW e, NEW key, NEW requested, NEW at, NEW role,
         e.grants = d.grants, e.app = d.app, e.org = d.org, e.entitled = d.entitled,
         e.until = d.until, e.rules = d.rules, e.registered = d.registered,
         e.inactive = d.inactive, e.configuring = d.configuring,
         NEW module, Cell(d, module, role) = Null, Cell(e, module, role) = "full",
         \A m, r : <<m, r>> # <<module, role>> => Cell(e, m, r) = Cell(d, m, r),
         Ranked(d), Resolve(d, key, requested, at)
  PROVE  Resolve(e, key, requested, at)
<1> DEFINE reach == Reaching(d, requested, at)
           before == {g \in reach : Says(d, g.role, key) # Null}
           after  == {g \in reach : Says(e, g.role, key) # Null}
<1>1. Reaching(e, requested, at) = reach
  BY DEF Reaching, Covers
<1>2. \A r : Says(e, r, key) = Says(d, r, key)
             \/ (Says(e, r, key) = "allow" /\ Cell(e, key.module, r) = "full")
  <2> SUFFICES ASSUME NEW r
               PROVE  Says(e, r, key) = Says(d, r, key)
                      \/ (Says(e, r, key) = "allow" /\ Cell(e, key.module, r) = "full")
    OBVIOUS
  <2>1. Rule(e, r, key) = Rule(d, r, key)
    BY DEF Rule
  <2>2. AllowsAny(e, r, key.module) <=> AllowsAny(d, r, key.module)
    BY DEF AllowsAny
  <2>3. CASE SwitchedOn(e, r, key)
    BY <2>3 DEF Says, SwitchedOn
  <2>4. CASE ~SwitchedOn(e, r, key)
    <3>1. ~SwitchedOn(d, r, key)
      <4>1. CASE <<key.module, r>> = <<module, role>>
        BY <4>1, ResolutionAssumption DEF SwitchedOn
      <4>2. CASE <<key.module, r>> # <<module, role>>
        BY <2>2, <2>4, <4>2 DEF SwitchedOn
      <4> QED
        BY <4>1, <4>2
    <3> QED
      BY <2>1, <2>4, <3>1 DEF Says
  <2> QED
    BY <2>3, <2>4
<1>3. "allow" # Null
  BY ResolutionAssumption
<1>4. before \subseteq after
  BY <1>2, <1>3
<1>5. Decisive(d, key, requested, at) = {g \in before : \A h \in before : Rank(h) <= Rank(g)}
  BY DEF Decisive
<1>6. Decisive(e, key, requested, at) = {g \in after : \A h \in after : Rank(h) <= Rank(g)}
  BY <1>1 DEF Decisive
<1>7. Decisive(e, key, requested, at) # {}
  <2>1. before # {}
    BY <1>5 DEF Resolve
  <2>2. after # {}
    BY <2>1, <1>4
  <2>3. \A g \in after : Rank(g) \in 1..4
    BY DEF Ranked, Reaching
  <2>4. \E g \in after : \A h \in after : Rank(h) <= Rank(g)
    <3> HIDE DEF after
    <3> QED
      BY <2>2, <2>3, TopExists
  <2> QED
    BY <2>4, <1>6
<1>8. ASSUME NEW g \in Decisive(e, key, requested, at)
      PROVE  Says(e, g.role, key) = "allow" /\ ~ShutOut(e, g.role, key.module)
  <2>1. g \in after /\ \A h \in after : Rank(h) <= Rank(g)
    BY <1>6, <1>8
  <2>2. CASE Says(e, g.role, key) = "allow" /\ Cell(e, key.module, g.role) = "full"
    BY <2>2 DEF ShutOut
  <2>3. CASE Says(e, g.role, key) = Says(d, g.role, key)
    <3>1. g \in before
      BY <2>1, <2>3
    <3>2. g \in Decisive(d, key, requested, at)
      BY <1>4, <1>5, <2>1, <3>1
    <3>3. Says(d, g.role, key) = "allow" /\ ~ShutOut(d, g.role, key.module)
      BY <3>2 DEF Resolve
    <3>4. ~ShutOut(e, g.role, key.module)
      <4>1. CASE <<key.module, g.role>> = <<module, role>>
        BY <4>1 DEF ShutOut
      <4>2. CASE <<key.module, g.role>> # <<module, role>>
        BY <3>3, <4>2 DEF ShutOut
      <4> QED
        BY <4>1, <4>2
    <3> QED
      BY <2>3, <3>3, <3>4
  <2> QED
    BY <1>2, <2>2, <2>3
<1> QED
  BY <1>7, <1>8 DEF Resolve

\* Taking away a grant that is outranked leaves the decisive ones.
LEMMA OutrankedLeavesDecisive ==
  ASSUME NEW d, NEW e, NEW key, NEW requested, NEW at, NEW g, NEW h,
         Ranked(d),
         e.grants = d.grants \ {g}, e.app = d.app, e.org = d.org, e.entitled = d.entitled,
         e.until = d.until, e.rules = d.rules, e.registered = d.registered,
         e.inactive = d.inactive, e.configuring = d.configuring, e.grid = d.grid,
         g \in d.grants, h \in Reaching(d, requested, at),
         Rank(h) > Rank(g), Says(d, h.role, key) # Null
  PROVE  Resolve(e, key, requested, at) = Resolve(d, key, requested, at)
<1>1. \A r : Says(e, r, key) = Says(d, r, key)
  BY DEF Says, SwitchedOn, Rule, Cell, AllowsAny
<1>2. \A r : ShutOut(e, r, key.module) <=> ShutOut(d, r, key.module)
  BY DEF ShutOut, Cell
<1> DEFINE before == {x \in Reaching(d, requested, at) : Says(d, x.role, key) # Null}
           after  == {x \in Reaching(e, requested, at) : Says(e, x.role, key) # Null}
<1>3. after = before \ {g}
  BY <1>1 DEF Reaching, Covers
<1>4. Decisive(d, key, requested, at) = {x \in before : \A y \in before : Rank(y) <= Rank(x)}
  BY DEF Decisive
<1>5. Decisive(e, key, requested, at) = {x \in after : \A y \in after : Rank(y) <= Rank(x)}
  BY DEF Decisive
<1>6. \A x \in before : Rank(x) \in 1..4
  BY DEF Ranked, Reaching
<1>7. Rank(g) \in 1..4
  BY DEF Ranked
<1>8. h \in before /\ h \in after
  <2>1. h \in before
    OBVIOUS
  <2>2. h # g
    BY <1>7
  <2> QED
    BY <2>1, <2>2, <1>3
<1> HIDE DEF before, after
<1>9. Decisive(e, key, requested, at) = Decisive(d, key, requested, at)
  <2>1. ASSUME NEW x \in Decisive(d, key, requested, at)
        PROVE  x \in Decisive(e, key, requested, at)
    <3>1. x # g
      BY <1>4, <1>6, <1>7, <1>8
    <3> QED
      BY <1>3, <1>4, <1>5, <3>1
  <2>2. ASSUME NEW x \in Decisive(e, key, requested, at)
        PROVE  x \in Decisive(d, key, requested, at)
    <3>1. x \in before /\ Rank(h) <= Rank(x)
      BY <1>3, <1>5, <1>8
    <3>2. \A y \in before : Rank(y) <= Rank(x)
      BY <1>3, <1>5, <1>6, <1>7, <1>8, <3>1
    <3> QED
      BY <1>4, <3>1, <3>2
  <2> QED
    BY <2>1, <2>2
<1> QED
  BY <1>1, <1>2, <1>9 DEF Resolve

\* Every key and cell of a token's claims is read back with what it said.
LEMMA RulesCarried ==
  ASSUME NEW d, DOMAIN d.rules \subseteq Role \X OurKey
  PROVE  FromClaims(ToClaims(d)).rules = [e \in DOMAIN d.rules |-> d.rules[e]]
<1> DEFINE roles == {e[1] : e \in DOMAIN d.rules}
           keysOf(role) == {e[2] : e \in {f \in DOMAIN d.rules : f[1] = role}}
           carried == [role \in roles |-> [key \in keysOf(role) |-> d.rules[<<role, key>>]]]
           pairs == UNION {{role} \X DOMAIN carried[role] : role \in DOMAIN carried}
<1>1. ToClaims(d).role_permissions = carried
  BY DEF ToClaims
<1>2. FromClaims(ToClaims(d)).rules = [e \in pairs |-> carried[e[1]][e[2]]]
  BY <1>1 DEF FromClaims
<1>3. ASSUME NEW e \in DOMAIN d.rules
      PROVE  /\ e = <<e[1], e[2]>> /\ e[1] \in roles /\ e[2] \in keysOf(e[1])
             /\ carried[e[1]][e[2]] = d.rules[e]
  OBVIOUS
<1>4. DOMAIN d.rules \subseteq pairs
  <2> SUFFICES ASSUME NEW e \in DOMAIN d.rules PROVE e \in pairs
    OBVIOUS
  <2>1. DOMAIN carried = roles /\ DOMAIN carried[e[1]] = keysOf(e[1])
    BY <1>3
  <2>2. e \in {e[1]} \X DOMAIN carried[e[1]]
    BY <1>3, <2>1
  <2> QED
    BY <1>3, <2>1, <2>2
<1>5. pairs \subseteq DOMAIN d.rules
  <2> SUFFICES ASSUME NEW e \in pairs PROVE e \in DOMAIN d.rules
    OBVIOUS
  <2>1. PICK role \in DOMAIN carried : e \in {role} \X DOMAIN carried[role]
    OBVIOUS
  <2>2. role \in roles /\ DOMAIN carried[role] = keysOf(role)
    OBVIOUS
  <2>3. e = <<role, e[2]>> /\ e[2] \in keysOf(role)
    BY <2>1, <2>2
  <2>4. PICK f \in DOMAIN d.rules : f[1] = role /\ f[2] = e[2]
    BY <2>3
  <2> QED
    BY <1>3, <2>3, <2>4
<1> HIDE DEF roles, keysOf, carried, pairs
<1>6. pairs = DOMAIN d.rules
  BY <1>4, <1>5
<1>7. [e \in pairs |-> carried[e[1]][e[2]]] = [e \in DOMAIN d.rules |-> d.rules[e]]
  BY <1>3, <1>6
<1> QED
  BY <1>2, <1>7

LEMMA GridCarried ==
  ASSUME NEW d, DOMAIN d.grid \subseteq Module \X Role
  PROVE  FromClaims(ToClaims(d)).grid = [c \in DOMAIN d.grid |-> d.grid[c]]
<1> DEFINE line(c) == [module_key |-> c[1], role_id |-> c[2], access_level |-> d.grid[c]]
           lines == {line(c) : c \in DOMAIN d.grid}
           cells == {<<t.module_key, t.role_id>> : t \in lines}
           chosen(c) == CHOOSE t \in lines : <<t.module_key, t.role_id>> = c
<1>1. FromClaims(ToClaims(d)).grid = [c \in cells |-> chosen(c).access_level]
  BY DEF FromClaims, ToClaims, CellsOf
<1>2. ASSUME NEW c \in DOMAIN d.grid
      PROVE  /\ line(c) \in lines
             /\ <<line(c).module_key, line(c).role_id>> = c
  OBVIOUS
<1>3. ASSUME NEW t \in lines
      PROVE  <<t.module_key, t.role_id>> \in DOMAIN d.grid
             /\ t = line(<<t.module_key, t.role_id>>)
  <2>1. PICK c \in DOMAIN d.grid : t = line(c)
    OBVIOUS
  <2> QED
    BY <1>2, <2>1
<1>4. \A c : line(c).access_level = d.grid[c]
  OBVIOUS
<1> HIDE DEF line, lines
<1>5. cells = DOMAIN d.grid
  BY <1>2, <1>3
<1>6. ASSUME NEW c \in DOMAIN d.grid PROVE chosen(c).access_level = d.grid[c]
  <2>1. \E t \in lines : <<t.module_key, t.role_id>> = c
    BY <1>2
  <2>2. chosen(c) \in lines /\ <<chosen(c).module_key, chosen(c).role_id>> = c
    BY <2>1
  <2> HIDE DEF chosen
  <2>3. chosen(c) = line(c)
    BY <1>3, <2>2
  <2> QED
    BY <1>4, <2>3
<1> QED
  BY <1>1, <1>5, <1>6

-----------------------------------------------------------------------------
(* Of the tables and the loads: the types.                                 *)

\* A load's input and its bookkeeping have the fields they began with.
Whole(d) == d = [app |-> d.app, org |-> d.org, entitled |-> d.entitled,
                 until |-> d.until, grants |-> d.grants, rules |-> d.rules,
                 grid |-> d.grid, registered |-> d.registered,
                 inactive |-> d.inactive, configuring |-> d.configuring]

LoadOK(r) ==
  /\ {"at", "data", "pv"} \subseteq DOMAIN r
  /\ r.at \in DOMAIN After \cup {"idle", "loaded"}
  /\ Input(r.data) /\ Whole(r.data)
  /\ r.pv \in Nat

TablesOK ==
  /\ seat \in BOOLEAN
  /\ grants \subseteq Offered
  /\ registered \subseteq OurKey
  /\ Rows(rules, Role \X registered, Effect)
  /\ Rows(grid, Module \X Role, Level)
  /\ inactive \subseteq Module
  /\ retired \subseteq Module
  /\ version \in Nat /\ now \in Nat
  /\ commits \in Nat /\ reports \in Nat /\ overtaken \in Nat

AdminsOK ==
  DOMAIN admin = Admin /\ \A a \in Admin : admin[a] # Null => admin[a].version \in Nat

ReaderOK == DOMAIN reader = Reader /\ \A w \in Reader : LoadOK(reader[w])

TokenOK(t) == t.pv \in Nat /\ t.exp \in Nat /\ Input(FromClaims(t.claims))

TokensOK == \A t \in tokens : TokenOK(t)

TypeInv == TablesOK /\ AdminsOK /\ ReaderOK /\ TokensOK

LEMMA TypeInvTypeOK == TypeInv => TypeOK
BY DEF TypeInv, TablesOK, AdminsOK, ReaderOK, LoadOK, TokensOK, TokenOK, TypeOK

LEMMA BlankOK == Input(Blank) /\ Whole(Blank)
BY DecisionsAssumption DEF Input, Blank, Whole, Rows, Moment

LEMMA IdleOK == LoadOK(Idle)
BY BlankOK DEF LoadOK, Idle

\* What is written over a table of rows is rows.
LEMMA WrittenRows ==
  ASSUME NEW t, NEW c, NEW K, NEW V, Rows(t, K, V), DOMAIN c \subseteq K,
         \A e \in DOMAIN c : c[e] \in V \cup {Null}
  PROVE  Rows(Written(t, c), K, V)
BY DEF Rows, Written

LEMMA InitTypes == Init => TypeInv
<1> SUFFICES ASSUME Init PROVE TypeInv
  OBVIOUS
<1>1. Rows(rules, Role \X registered, Effect)
  <2>1. PICK says \in [Role \X registered -> Effect \cup {Null}] :
          rules = [e \in {f \in DOMAIN says : says[f] # Null} |-> says[e]]
    BY DEF Init
  <2> QED
    BY <2>1 DEF Rows
<1>2. registered \subseteq OurKey
  BY DEF Init
<1>3. {key.module : key \in registered} \subseteq Module
  BY <1>2 DEF OurKey
<1>4. Rows(grid, Module \X Role, Level)
  <2>1. PICK level \in [{key.module : key \in registered} \X Role -> Level \cup {Null}] :
          grid = [c \in {b \in DOMAIN level : level[b] # Null} |-> level[c]]
    BY DEF Init
  <2> QED
    BY <1>3, <2>1 DEF Rows
<1>5. TablesOK
  BY <1>1, <1>2, <1>3, <1>4 DEF Init, TablesOK
<1>6. ReaderOK
  BY IdleOK DEF Init, ReaderOK
<1>7. TokensOK
  BY DEF Init, TokensOK
<1>8. AdminsOK
  BY DEF Init, AdminsOK
<1> QED
  BY <1>5, <1>6, <1>7, <1>8 DEF TypeInv

LEMMA WatchTypes == ASSUME ReaderOK, Watch PROVE ReaderOK'
<1> SUFFICES ASSUME NEW w \in Reader PROVE LoadOK(reader'[w])
  BY DEF Watch, ReaderOK, LoadOK, Input, Rows, Whole
<1>1. LoadOK(reader[w])
  BY DEF ReaderOK
<1>2. CASE reader[w] = Idle
  BY <1>2, IdleOK DEF Watch
<1>3. CASE reader[w] # Idle
  <2> DEFINE r == reader[w]
  <2>1. reader'[w] = [r EXCEPT !.right = @ \cup AllowedNow']
    BY <1>3 DEF Watch
  <2> HIDE DEF r
  <2>2. /\ reader'[w].at = r.at /\ reader'[w].data = r.data /\ reader'[w].pv = r.pv
        /\ DOMAIN reader'[w] = DOMAIN r
    BY <1>1, <2>1 DEF LoadOK, r
  <2> QED
    BY <1>1, <2>2 DEF LoadOK, r
<1> QED
  BY <1>2, <1>3

LEMMA FetchedOK ==
  ASSUME TablesOK, NEW d, Input(d), Whole(d), NEW step \in DOMAIN After
  PROVE  Input(Fetched(d, step)) /\ Whole(Fetched(d, step))
<1>1. Rows(rules, Role \X OurKey, Effect)
  BY DEF TablesOK, Rows
<1>2. grants \subseteq Grant /\ Bearing \subseteq Grant
  BY DecisionsAssumption DEF TablesOK, Bearing
<1>3. Rows(RulesFor(RolesOf(d)), Role \X OurKey, Effect)
  BY <1>1 DEF RulesFor, Rows
<1>4. Rows(CellsFor(RolesOf(d)), Module \X Role, Level)
  BY DEF CellsFor, Rows, TablesOK
<1>5. UNTIL \in Moment
  BY DecisionsAssumption
<1>6. CASE step = "entitled"
  <2>1. Fetched(d, step) = [d EXCEPT !.entitled = TRUE, !.until = UNTIL]
    BY <1>6 DEF Fetched
  <2> QED
    BY <1>5, <2>1 DEF Input, Whole
<1>7. CASE step = "grants"
  <2>1. Fetched(d, step) = [d EXCEPT !.grants = Bearing]
    BY <1>7 DEF Fetched
  <2> QED
    BY <1>2, <2>1 DEF Input, Whole
<1>8. CASE step = "rules"
  <2>1. Fetched(d, step) = [d EXCEPT !.rules = RulesFor(RolesOf(d))]
    BY <1>8 DEF Fetched
  <2> QED
    BY <1>3, <2>1 DEF Input, Whole
<1>9. CASE step = "grid"
  <2>1. Fetched(d, step) = [d EXCEPT !.grid = CellsFor(RolesOf(d))]
    BY <1>9 DEF Fetched
  <2> QED
    BY <1>4, <2>1 DEF Input, Whole
<1>10. CASE step = "registered"
  <2>1. Fetched(d, step) = [d EXCEPT !.registered = registered,
                                     !.configuring = Configuring \cap RolesOf(d)]
    BY <1>10 DEF Fetched
  <2> QED
    BY <2>1 DEF Input, Whole, TablesOK
<1>11. CASE step = "inactive"
  <2>1. Fetched(d, step) = [d EXCEPT !.inactive = inactive]
    BY <1>11 DEF Fetched
  <2> QED
    BY <2>1 DEF Input, Whole, TablesOK
<1> QED
  BY <1>6, <1>7, <1>8, <1>9, <1>10, <1>11 DEF After

\* Nobody's commit but that of a request, a report or a removal; and a request
\* that reads, or is refused, leaves everything else as it is.
Requested == \E a \in Admin : Administer(a)

Committing ==
  \/ Requested
  \/ \E keys \in SUBSET OurKey : RegisterFeatures(keys)
  \/ \E module \in Module : RemoveFeature(module)

Looking == \E a \in Admin : Open(a) \/ Drop(a)

LEMMA NextIs ==
  ASSUME [Next]_vars
  PROVE  \/ Tick
         \/ \E w \in Reader : Ask(w) \/ Load(w) \/ Answer(w) \/ Mint(w)
         \/ Committing
         \/ UNCHANGED <<tables, now, reader, tokens, history>>
BY DEF Next, Committing, Requested, Open, Drop, vars

\* What the five kinds of request have in common.
LEMMA RequestFinishes ==
  ASSUME NEW a \in Admin, Administer(a)
  PROVE  admin[a] # Null /\ Finish(a)
BY DEF Administer, ChangeGrant, ChangeSeat, PatchRole, PutToolRules, PutToolStatus

LEMMA FinishTypes ==
  ASSUME TablesOK, NEW a \in Admin, Finish(a)
  PROVE  /\ overtaken' \in Nat /\ commits' \in Nat /\ now' = now
         /\ UNCHANGED <<retired, registered, reports>>
BY DEF Finish, Commit, TablesOK

LEMMA BumpTypes ==
  ASSUME TablesOK, AdminsOK, NEW a \in Admin, admin[a] # Null, NEW affected, Bump(a, affected)
  PROVE  version' \in Nat
BY DEF Bump, TablesOK, AdminsOK

LEMMA RequestTables ==
  ASSUME TablesOK, AdminsOK, NEW a \in Admin, Administer(a)
  PROVE  TablesOK'
<1>0. /\ overtaken' \in Nat /\ commits' \in Nat /\ now' = now
      /\ UNCHANGED <<retired, registered, reports>>
      /\ \A affected : Bump(a, affected) => version' \in Nat
  BY RequestFinishes, FinishTypes, BumpTypes
<1> USE DEF TablesOK
<1>1. ASSUME NEW g \in Offered, ChangeGrant(a, g) PROVE TablesOK'
  BY <1>0, <1>1 DEF ChangeGrant
<1>2. CASE ChangeSeat(a)
  BY <1>0, <1>2 DEF ChangeSeat
<1>3. ASSUME NEW role \in Role, NEW keys \in SUBSET OurKey,
             NEW changes \in [{role} \X keys -> Effect \cup {Null}], PatchRole(a, role, changes)
      PROVE  TablesOK'
  <2> DEFINE sent == Differing(admin[a].rules, changes)
  <2>1. /\ Writable(admin[a].rules, rules, sent) /\ rules' = Written(rules, sent)
        /\ \A e \in DOMAIN sent : sent[e] # Null => e[2] \in registered
    BY <1>3 DEF PatchRole
  <2>2. DOMAIN sent \subseteq Role \X OurKey
        /\ \A e \in DOMAIN sent : sent[e] \in Effect \cup {Null}
    BY DEF Differing
  <2> HIDE DEF sent
  <2>3. DOMAIN rules' \subseteq Role \X registered
    <3>1. DOMAIN rules' = {f \in DOMAIN rules \cup DOMAIN sent : f \in DOMAIN sent => sent[f] # Null}
      BY <2>1 DEF Written
    <3>2. \A e \in DOMAIN sent : sent[e] # Null => e \in Role \X registered
      BY <2>1, <2>2
    <3> QED
      BY <3>1, <3>2 DEF Rows
  <2>4. \A e \in DOMAIN rules' : rules'[e] \in Effect
    BY <2>1, <2>2 DEF Written, Rows
  <2>5. UNCHANGED <<seat, grants, grid, inactive>> /\ version' \in Nat
    BY <1>0, <1>3 DEF PatchRole
  <2> QED
    BY <1>0, <2>3, <2>4, <2>5 DEF Rows
<1>4. ASSUME NEW cells \in SUBSET (Module \X Role),
             NEW changes \in [cells -> Level \cup {Null}], PutToolRules(a, changes)
      PROVE  TablesOK'
  <2> DEFINE sent == Differing(admin[a].grid, changes)
  <2>1. DOMAIN sent \subseteq Module \X Role
        /\ \A e \in DOMAIN sent : sent[e] \in Level \cup {Null}
    BY DEF Differing
  <2>2. grid' = Written(grid, sent)
    BY <1>4 DEF PutToolRules
  <2> HIDE DEF sent
  <2>3. Rows(grid', Module \X Role, Level)
    BY <2>1, <2>2, WrittenRows
  <2> QED
    BY <1>0, <1>4, <2>3 DEF PutToolRules
<1>5. ASSUME NEW module \in Module, NEW off \in BOOLEAN, PutToolStatus(a, module, off)
      PROVE  TablesOK'
  <2>1. inactive' \subseteq Module
    BY <1>5 DEF PutToolStatus
  <2> QED
    BY <1>0, <1>5, <2>1 DEF PutToolStatus
<1> QED
  BY <1>1, <1>2, <1>3, <1>4, <1>5 DEF Administer

LEMMA TablesStep ==
  ASSUME TablesOK, AdminsOK, [Next]_vars
  PROVE  TablesOK'
<1> USE DEF TablesOK
<1>1. Rows(rules, Role \X OurKey, Effect)
  BY DEF Rows
<1>2. CASE Tick
  BY <1>2 DEF Tick, tables, history
<1>3. ASSUME NEW w \in Reader, Ask(w) \/ Load(w) \/ Answer(w) \/ Mint(w)
      PROVE  TablesOK'
  BY <1>3 DEF Ask, Load, Answer, Mint, tables, history
<1>4. CASE Requested
  BY <1>4, RequestTables DEF Requested
<1>5. ASSUME Commit PROVE commits' \in Nat /\ now' = now
  BY <1>5 DEF Commit
<1>11. ASSUME NEW keys \in SUBSET OurKey, RegisterFeatures(keys)
       PROVE  TablesOK'
  <2> DEFINE new == keys \ registered
             given == [e \in Role \X new |-> IF e[1] = GlobalAdmin THEN "allow" ELSE "deny"]
  <2>1. registered' = registered \cup keys /\ rules' = Written(rules, given)
        /\ reports' = reports + 1
    BY <1>11 DEF RegisterFeatures
  <2>2. Rows(rules, Role \X registered', Effect)
    BY <2>1 DEF Rows
  <2>3. DOMAIN given \subseteq Role \X registered'
        /\ \A e \in DOMAIN given : given[e] \in Effect \cup {Null}
    BY <2>1 DEF Effect
  <2>4. Rows(rules', Role \X registered', Effect)
    <3> HIDE DEF given
    <3> QED
      BY <2>1, <2>2, <2>3, WrittenRows
  <2>5. commits' \in Nat /\ now' = now
    BY <1>5, <1>11 DEF RegisterFeatures
  <2>6. UNCHANGED <<seat, grants, grid, inactive, retired, version, overtaken>>
    BY <1>11 DEF RegisterFeatures
  <2> QED
    BY <2>1, <2>4, <2>5, <2>6
<1>12. ASSUME NEW module \in Module, RemoveFeature(module)
       PROVE  TablesOK'
  <2>1. Rows(rules', Role \X registered', Effect)
    BY <1>12 DEF RemoveFeature, Rows
  <2>2. Rows(grid', Module \X Role, Level)
    BY <1>12 DEF RemoveFeature, Rows
  <2>3. registered' \subseteq OurKey
    BY <1>12 DEF RemoveFeature
  <2> QED
    BY <1>5, <1>12, <2>1, <2>2, <2>3 DEF RemoveFeature
<1>13. CASE UNCHANGED <<tables, now, reader, tokens, history>>
  BY <1>13 DEF tables, history
<1> QED
  BY <1>2, <1>3, <1>4, <1>11, <1>12, <1>13, NextIs DEF Committing

LEMMA AdminsStep ==
  ASSUME TablesOK, AdminsOK, [Next]_vars
  PROVE  AdminsOK'
<1>1. ASSUME NEW a \in Admin, Open(a) PROVE AdminsOK'
  <2>1. PICK s : /\ s = [seat |-> seat, grants |-> grants, rules |-> rules, grid |-> grid,
                         registered |-> registered, inactive |-> inactive, version |-> version]
                 /\ admin' = [admin EXCEPT ![a] = s]
    BY <1>1 DEF Open
  <2>2. s.version \in Nat
    BY <2>1 DEF TablesOK
  <2> QED
    BY <2>1, <2>2 DEF AdminsOK
<1>2. ASSUME NEW a \in Admin, Drop(a) \/ Administer(a) PROVE AdminsOK'
  <2>1. admin' = [admin EXCEPT ![a] = Null]
    BY <1>2, RequestFinishes DEF Drop, Finish
  <2> QED
    BY <2>1 DEF AdminsOK
<1>3. CASE UNCHANGED admin
  BY <1>3 DEF AdminsOK
<1> QED
  BY <1>1, <1>2, <1>3 DEF Next, Tick, Ask, Load, Answer, Mint, RegisterFeatures, RemoveFeature, vars

\* A commit, like the clock, changes no load but what it is owed.
LEMMA CommitLeaves == Commit => Watch /\ UNCHANGED <<now, tokens>>
BY DEF Commit

LEMMA CommittingCommits == Committing => Commit
BY RequestFinishes DEF Committing, Requested, Finish, RegisterFeatures, RemoveFeature

LEMMA ReaderStep ==
  ASSUME TablesOK, ReaderOK, [Next]_vars
  PROVE  ReaderOK'
<1>1. ASSUME NEW w \in Reader, NEW r, LoadOK(r), reader' = [reader EXCEPT ![w] = r]
      PROVE  ReaderOK'
  <2>1. DOMAIN reader' = Reader /\ \A x \in Reader : LoadOK(reader'[x])
    BY <1>1 DEF ReaderOK
  <2> QED
    BY <2>1 DEF ReaderOK, LoadOK, Input, Whole, Rows
<1>2. ASSUME NEW w \in Reader, Ask(w) PROVE ReaderOK'
  <2> DEFINE r == [Idle EXCEPT !.at = "entitled", !.pv = version, !.since = Changes,
                               !.reports = reports, !.overtaken = overtaken,
                               !.retired = retired, !.off = inactive, !.right = AllowedNow]
  <2>1. reader' = [reader EXCEPT ![w] = r]
    BY <1>2 DEF Ask
  <2>2. r.at = "entitled" /\ r.data = Blank /\ r.pv = version /\ DOMAIN r = DOMAIN Idle
    BY DEF Idle
  <2> HIDE DEF r
  <2>3. LoadOK(r)
    BY <2>2, BlankOK, IdleOK DEF LoadOK, After, TablesOK
  <2> QED
    BY <1>1, <2>1, <2>3
<1>3. ASSUME NEW w \in Reader, Load(w) PROVE ReaderOK'
  <2> DEFINE r == reader[w]
  <2>1. LoadOK(r) /\ r.at \in DOMAIN After
    BY <1>3 DEF ReaderOK, Load
  <2>2. CASE r.at = "entitled" /\ ~Entitled
    <3>1. reader' = [reader EXCEPT ![w] = [r EXCEPT !.at = "loaded"]]
      BY <1>3, <2>2 DEF Load
    <3>2. LoadOK([r EXCEPT !.at = "loaded"])
      <4> HIDE DEF r
      <4> QED
        BY <2>1 DEF LoadOK
    <3> QED
      BY <1>1, <3>1, <3>2
  <2>3. CASE ~(r.at = "entitled" /\ ~Entitled)
    <3>1. reader' = [reader EXCEPT ![w] =
                       [r EXCEPT !.at = After[r.at], !.data = Fetched(r.data, r.at)]]
      BY <1>3, <2>3 DEF Load
    <3>2. Input(Fetched(r.data, r.at)) /\ Whole(Fetched(r.data, r.at))
      BY <2>1, FetchedOK DEF LoadOK
    <3>3. After[r.at] \in DOMAIN After \cup {"idle", "loaded"}
      BY <2>1 DEF After
    <3>4. LoadOK([r EXCEPT !.at = After[r.at], !.data = Fetched(r.data, r.at)])
      <4> HIDE DEF r
      <4> DEFINE s == [r EXCEPT !.at = After[r.at], !.data = Fetched(r.data, r.at)]
      <4>1. s.at = After[r.at] /\ s.data = Fetched(r.data, r.at) /\ s.pv = r.pv
            /\ DOMAIN s = DOMAIN r
        BY <2>1 DEF LoadOK
      <4>2. r.pv \in Nat /\ {"at", "data", "pv"} \subseteq DOMAIN r
        BY <2>1 DEF LoadOK
      <4> HIDE DEF s
      <4>3. LoadOK(s)
        BY <3>2, <3>3, <4>1, <4>2 DEF LoadOK
      <4> QED
        BY <4>3 DEF s
    <3> QED
      BY <1>1, <3>1, <3>4
  <2> QED
    BY <2>2, <2>3
<1>4. ASSUME NEW w \in Reader, Answer(w) \/ Mint(w) PROVE ReaderOK'
  BY <1>1, <1>4, IdleOK DEF Answer, Mint
<1>5. CASE Tick
  BY <1>5, WatchTypes DEF Tick
<1>6. CASE Committing
  BY <1>6, CommittingCommits, CommitLeaves, WatchTypes
<1>7. CASE UNCHANGED reader
  BY <1>7 DEF ReaderOK, LoadOK, Input, Whole, Rows
<1> QED
  BY <1>2, <1>3, <1>4, <1>5, <1>6, <1>7, NextIs

\* What is read back from the claims of an input is an input.
LEMMA CarriedInput ==
  ASSUME NEW d, Input(d)
  PROVE  Input(FromClaims(ToClaims(d)))
<1> DEFINE f == FromClaims(ToClaims(d))
<1>1. f.rules = [e \in DOMAIN d.rules |-> d.rules[e]]
  BY RulesCarried DEF Input, Rows
<1>2. f.grid = [c \in DOMAIN d.grid |-> d.grid[c]]
  BY GridCarried DEF Input, Rows
<1>3. /\ f.app = d.app /\ f.org = d.org /\ f.entitled = d.entitled /\ f.until = d.until
      /\ f.grants = d.grants /\ f.registered = d.registered
      /\ f.inactive = d.inactive /\ f.configuring = d.configuring
  BY DEF FromClaims, ToClaims
<1> HIDE DEF f
<1> QED
  BY <1>1, <1>2, <1>3 DEF Input, Rows, f

LEMMA TokensStep ==
  ASSUME TablesOK, ReaderOK, TokensOK, [Next]_vars
  PROVE  TokensOK'
<1>1. CASE UNCHANGED tokens
  BY <1>1 DEF TokensOK, TokenOK, Input, Rows
<1>2. ASSUME NEW w \in Reader, Mint(w) PROVE TokensOK'
  <2> DEFINE r == reader[w]
             t == [claims |-> ToClaims(r.data), pv |-> r.pv, exp |-> Expiry(r.data),
                   reports |-> r.reports, retired |-> r.retired, overtaken |-> r.overtaken]
  <2>1. tokens' = tokens \cup {t}
    BY <1>2 DEF Mint
  <2>2. LoadOK(r)
    BY DEF ReaderOK
  <2>3. Expiry(r.data) \in Nat
    <3>1. r.data.until \in Moment
      BY <2>2 DEF LoadOK, Input
    <3> HIDE DEF r
    <3> QED
      BY <3>1, DecisionsAssumption DEF Expiry, Moment, TablesOK
  <2>4. Input(FromClaims(ToClaims(r.data)))
    BY <2>2, CarriedInput DEF LoadOK
  <2>5. TokenOK(t)
    BY <2>2, <2>3, <2>4 DEF TokenOK, LoadOK
  <2>6. \A x \in tokens' : TokenOK(x)
    BY <2>1, <2>5 DEF TokensOK
  <2> QED
    BY <2>6 DEF TokensOK, TokenOK, Input, Rows
<1>3. CASE Committing
  BY <1>1, <1>3, CommittingCommits, CommitLeaves
<1> QED
  BY <1>1, <1>2, <1>3, NextIs DEF Tick, Ask, Load, Answer

\* Every table, load and token keeps its type: whatever commits fall between the
\* statements of a load (permissions.load), and whatever is removed meanwhile.
THEOREM TypeCorrect == Spec => []TypeOK
<1>1. Init => TypeInv
  BY InitTypes
<1>2. TypeInv /\ [Next]_vars => TypeInv'
  BY TablesStep, AdminsStep, ReaderStep, TokensStep DEF TypeInv
<1>3. TypeInv => TypeOK
  BY TypeInvTypeOK
<1> QED
  BY <1>1, <1>2, <1>3, PTL DEF Spec

-----------------------------------------------------------------------------
(* Of every decision a load can ask for.                                   *)

LEMMA LoadNowWhole == Whole(LoadNow)
<1>1. CASE Entitled
  BY <1>1 DEF LoadNow, Whole
<1>2. CASE ~Entitled
  BY <1>2, BlankOK DEF LoadNow
<1> QED
  BY <1>1, <1>2

LEMMA LoadNowRanked == ASSUME grants \subseteq Offered PROVE Ranked(LoadNow)
<1>1. LoadNow.grants \subseteq Grant
  BY DecisionsAssumption DEF LoadNow, Bearing, Blank
<1> QED
  BY <1>1, GrantRank DEF Ranked

LEMMA GridMonotoneState == ASSUME grants \subseteq Offered PROVE GridIsMonotone
<1> SUFFICES ASSUME NEW cell \in Module \X Role, NEW key \in OurKey, NEW requested \in Scope
             PROVE  LET Allows(level) == Resolve(WithCell(LoadNow, cell, level), key, requested, now)
                    IN  /\ Allows("no_access") => Allows(Null)
                        /\ Allows(Null) => Allows("full")
  BY DEF GridIsMonotone
<1> DEFINE l == LoadNow
           c == WithCell(l, cell, "no_access")
           d == WithCell(l, cell, Null)
           e == WithCell(l, cell, "full")
<1>1. PICK module \in Module, role \in Role : cell = <<module, role>>
  OBVIOUS
<1>2. l = [app |-> l.app, org |-> l.org, entitled |-> l.entitled, until |-> l.until,
           grants |-> l.grants, rules |-> l.rules, grid |-> l.grid,
           registered |-> l.registered, inactive |-> l.inactive,
           configuring |-> l.configuring]
  BY LoadNowWhole DEF Whole
<1>3. Ranked(l)
  BY LoadNowRanked
<1> HIDE DEF l
<1>4. ASSUME NEW level
      PROVE  LET x == WithCell(l, <<module, role>>, level) IN
             /\ x.app = l.app /\ x.org = l.org /\ x.entitled = l.entitled
             /\ x.until = l.until /\ x.grants = l.grants /\ x.rules = l.rules
             /\ x.registered = l.registered /\ x.inactive = l.inactive
             /\ x.configuring = l.configuring
             /\ Cell(x, module, role) = level
             /\ \A m, r : <<m, r>> # <<module, role>> => Cell(x, m, r) = Cell(l, m, r)
  BY <1>2, WithCellFields
<1>5. /\ c = WithCell(l, <<module, role>>, "no_access")
      /\ d = WithCell(l, <<module, role>>, Null)
      /\ e = WithCell(l, <<module, role>>, "full")
  BY <1>1
<1>6. /\ c.app = l.app /\ c.org = l.org /\ c.entitled = l.entitled
      /\ c.until = l.until /\ c.grants = l.grants /\ c.rules = l.rules
      /\ c.registered = l.registered /\ c.inactive = l.inactive
      /\ c.configuring = l.configuring
      /\ Cell(c, module, role) = "no_access"
      /\ \A m, r : <<m, r>> # <<module, role>> => Cell(c, m, r) = Cell(l, m, r)
  BY <1>4, <1>5
<1>7. /\ d.app = l.app /\ d.org = l.org /\ d.entitled = l.entitled
      /\ d.until = l.until /\ d.grants = l.grants /\ d.rules = l.rules
      /\ d.registered = l.registered /\ d.inactive = l.inactive
      /\ d.configuring = l.configuring
      /\ Cell(d, module, role) = Null
      /\ \A m, r : <<m, r>> # <<module, role>> => Cell(d, m, r) = Cell(l, m, r)
  BY <1>4, <1>5
<1>8. /\ e.app = l.app /\ e.org = l.org /\ e.entitled = l.entitled
      /\ e.until = l.until /\ e.grants = l.grants /\ e.rules = l.rules
      /\ e.registered = l.registered /\ e.inactive = l.inactive
      /\ e.configuring = l.configuring
      /\ Cell(e, module, role) = "full"
      /\ \A m, r : <<m, r>> # <<module, role>> => Cell(e, m, r) = Cell(l, m, r)
  BY <1>4, <1>5
<1> HIDE DEF c, d, e
<1>9. Resolve(c, key, requested, now) => Resolve(d, key, requested, now)
  <2> SUFFICES ASSUME Resolve(c, key, requested, now) PROVE Resolve(d, key, requested, now)
    OBVIOUS
  <2>1. /\ d.grants = c.grants /\ d.app = c.app /\ d.org = c.org /\ d.entitled = c.entitled
        /\ d.until = c.until /\ d.rules = c.rules /\ d.registered = c.registered
        /\ d.inactive = c.inactive /\ d.configuring = c.configuring
    BY <1>6, <1>7
  <2>2. \A m, r : <<m, r>> # <<module, role>> => Cell(c, m, r) = Cell(d, m, r)
    BY <1>6, <1>7
  <2> QED
    BY <1>6, <1>7, <2>1, <2>2, ClosingOnlyTakesAway
<1>10. Resolve(d, key, requested, now) => Resolve(e, key, requested, now)
  <2> SUFFICES ASSUME Resolve(d, key, requested, now) PROVE Resolve(e, key, requested, now)
    OBVIOUS
  <2>1. /\ e.grants = d.grants /\ e.app = d.app /\ e.org = d.org /\ e.entitled = d.entitled
        /\ e.until = d.until /\ e.rules = d.rules /\ e.registered = d.registered
        /\ e.inactive = d.inactive /\ e.configuring = d.configuring
    BY <1>7, <1>8
  <2>2. \A m, r : <<m, r>> # <<module, role>> => Cell(e, m, r) = Cell(d, m, r)
    BY <1>7, <1>8
  <2>3. Ranked(d)
    BY <1>3, <1>7 DEF Ranked
  <2> QED
    BY <1>7, <1>8, <2>1, <2>2, <2>3, OpeningOnlyAdds
<1> QED
  BY <1>9, <1>10 DEF c, d, e, l

\* resolution.py:226-249: whatever else the tables hold, closing a cell of the
\* grid allows nothing that clearing it would refuse, and opening one refuses
\* nothing that clearing it would allow.
THEOREM GridMonotone == Spec => []GridIsMonotone
<1>1. TypeOK => GridIsMonotone
  BY GridMonotoneState DEF TypeOK
<1> QED
  BY <1>1, TypeCorrect, PTL

\* OPEN-DECISIONS.md:1166-1171: `configure' comes of a role that allows it or of
\* a built-in administrator's, never of a cell alone.
THEOREM ConfigureStays == Spec => []ConfigureStaysWithAdmins
<1>1. ConfigureStaysWithAdmins
  <2> SUFFICES ASSUME NEW key \in OurKey, NEW requested \in Scope,
                      key.action = "configure", Resolve(LoadNow, key, requested, now)
               PROVE  \E g \in Reaching(LoadNow, requested, now) :
                        g.role \in Configuring \/ Rule(LoadNow, g.role, key) = "allow"
    BY DEF ConfigureStaysWithAdmins
  <2>1. PICK g : g \in Decisive(LoadNow, key, requested, now)
                 /\ Says(LoadNow, g.role, key) = "allow"
    BY DEF Resolve
  <2>2. g \in Reaching(LoadNow, requested, now)
    BY <2>1 DEF Decisive
  <2>3. LoadNow.configuring \subseteq Configuring
    BY DEF LoadNow, Blank
  <2>4. SwitchedOn(LoadNow, g.role, key) => g.role \in LoadNow.configuring
    BY DEF SwitchedOn
  <2>5. ~SwitchedOn(LoadNow, g.role, key) => Rule(LoadNow, g.role, key) = "allow"
    BY <2>1 DEF Says
  <2> QED
    BY <2>2, <2>3, <2>4, <2>5
<1> QED
  BY <1>1, PTL

\* resolution.py:227: the most specific grant wins, and one below it has no say.
THEOREM OutrankedMute == Spec => []OutrankedGrantsAreMute
<1>1. TypeOK => OutrankedGrantsAreMute
  <2> SUFFICES ASSUME grants \subseteq Offered,
                      NEW g \in LoadNow.grants, NEW key \in OurKey, NEW requested \in Scope,
                      NEW h \in Reaching(LoadNow, requested, now),
                      Rank(h) > Rank(g), Says(LoadNow, h.role, key) # Null
               PROVE  Resolve([LoadNow EXCEPT !.grants = @ \ {g}], key, requested, now)
                        = Resolve(LoadNow, key, requested, now)
    BY DEF OutrankedGrantsAreMute, TypeOK
  <2> DEFINE l == LoadNow
             e == [l EXCEPT !.grants = @ \ {g}]
  <2>1. Whole(l) /\ Ranked(l)
    BY LoadNowWhole, LoadNowRanked
  <2> HIDE DEF l
  <2>2. /\ e.grants = l.grants \ {g} /\ e.app = l.app /\ e.org = l.org
        /\ e.entitled = l.entitled /\ e.until = l.until /\ e.rules = l.rules
        /\ e.registered = l.registered /\ e.inactive = l.inactive
        /\ e.configuring = l.configuring /\ e.grid = l.grid
    BY <2>1 DEF Whole
  <2>3. /\ g \in l.grants /\ h \in Reaching(l, requested, now)
        /\ Rank(h) > Rank(g) /\ Says(l, h.role, key) # Null
    BY DEF l
  <2> HIDE DEF e
  <2>4. Resolve(e, key, requested, now) = Resolve(l, key, requested, now)
    BY <2>1, <2>2, <2>3, OutrankedLeavesDecisive
  <2> QED
    BY <2>4 DEF e, l
<1> QED
  BY <1>1, TypeCorrect, PTL

\* The policy holds of every content of the tables (resolution.py:184-273).
THEOREM PolicyHolds == Spec => []Policy
BY GridMonotone, ConfigureStays, OutrankedMute, PTL DEF Policy

\* resolution.py:281-285: an application that reads the claims back decides on
\* the input Core decided on.
THEOREM ClaimsCarry == Spec => []ClaimsCarryTheInput
<1>1. TypeOK => ClaimsCarryTheInput
  <2> SUFFICES ASSUME TypeOK PROVE FromClaims(ToClaims(LoadNow)) = LoadNow
    BY DEF ClaimsCarryTheInput
  <2> DEFINE l == LoadNow
             f == FromClaims(ToClaims(l))
  <2>1. /\ DOMAIN l.rules \subseteq Role \X OurKey
        /\ l.rules = [e \in DOMAIN l.rules |-> l.rules[e]]
    <3>1. CASE Entitled
      BY <3>1 DEF LoadNow, RulesFor, TypeOK, Rows
    <3>2. CASE ~Entitled
      BY <3>2 DEF LoadNow, Blank
    <3> QED
      BY <3>1, <3>2
  <2>2. /\ DOMAIN l.grid \subseteq Module \X Role
        /\ l.grid = [c \in DOMAIN l.grid |-> l.grid[c]]
    <3>1. CASE Entitled
      BY <3>1 DEF LoadNow, CellsFor, TypeOK, Rows
    <3>2. CASE ~Entitled
      BY <3>2 DEF LoadNow, Blank
    <3> QED
      BY <3>1, <3>2
  <2>3. Whole(l)
    BY LoadNowWhole
  <2> HIDE DEF l
  <2>4. f.rules = l.rules
    BY <2>1, RulesCarried
  <2>5. f.grid = l.grid
    BY <2>2, GridCarried
  <2>6. f = [app |-> l.app, org |-> l.org, entitled |-> l.entitled, until |-> l.until,
             grants |-> l.grants, rules |-> f.rules, grid |-> f.grid,
             registered |-> l.registered, inactive |-> l.inactive,
             configuring |-> l.configuring]
    BY DEF FromClaims, ToClaims
  <2> HIDE DEF f
  <2>7. f = l
    BY <2>3, <2>4, <2>5, <2>6 DEF Whole
  <2> QED
    BY <2>7 DEF f, l
<1> QED
  BY <1>1, TypeCorrect, PTL
-----------------------------------------------------------------------------
(* Of loads that others commit during.                                     *)

\* What a load has yet to read, once it has found the person entitled: the
\* statement it comes to next is one of these.
GrantsUnread   == {"grants"}
RulesUnread    == GrantsUnread \cup {"rules"}
GridUnread     == RulesUnread \cup {"grid"}
RegistryUnread == GridUnread \cup {"registered"}
StatusUnread   == RegistryUnread \cup {"inactive"}

\* What it will return if nothing changes any more.
Held(r) == IF r.at \in GrantsUnread THEN Bearing ELSE r.data.grants

HeldRoles(r) == {g.role : g \in Held(r)}

Filled(r) ==
  [app |-> APP, org |-> ORG, entitled |-> TRUE, until |-> UNTIL,
   grants      |-> Held(r),
   rules       |-> IF r.at \in RulesUnread THEN RulesFor(HeldRoles(r)) ELSE r.data.rules,
   grid        |-> IF r.at \in GridUnread THEN CellsFor(HeldRoles(r)) ELSE r.data.grid,
   registered  |-> IF r.at \in RegistryUnread THEN registered ELSE r.data.registered,
   inactive    |-> IF r.at \in StatusUnread THEN inactive ELSE r.data.inactive,
   configuring |-> Configuring \cap HeldRoles(r)]

Finished(r) ==
  IF r.at = "entitled" THEN LoadNow ELSE IF r.data.entitled THEN Filled(r) ELSE Blank

InFlight(r) == r.at # "idle"

\* Until a request that was overtaken commits, versions only grow.
Earlier(x) ==
  /\ x.overtaken \in Nat /\ x.overtaken <= overtaken
  /\ x.overtaken = overtaken => x.pv <= version

\* What a load knows, wherever it is.
Reading(r) ==
  /\ DOMAIN r = DOMAIN Idle
  /\ r.at = "idle" => r = Idle
  /\ r.at = "entitled" => r.data = Blank
  /\ r.at \notin {"idle", "entitled"} /\ ~r.data.entitled => r.at = "loaded" /\ r.data = Blank
  /\ r.data.entitled =>
       /\ r.data.until = UNTIL
       /\ r.at \in {"inactive", "loaded"} =>
            r.data.configuring = Configuring \cap RolesOf(r.data)
  /\ r.since \in Nat /\ r.since <= Changes
  /\ r.reports \in Nat /\ r.reports <= reports
  /\ Earlier(r)
  /\ r.retired \subseteq retired

\* As long as nothing has changed, it will return what there is; and after one
\* change, nothing that was refused before it and after it.
Undisturbed(r) ==
  /\ r.since = Changes =>
       /\ Finished(r) = LoadNow
       /\ AllowedNow \subseteq r.right
       /\ r.off = inactive
  /\ Changes - r.since <= 1 /\ reports = r.reports =>
       \A key \in Permitted(Finished(r), now) : key \in r.right \/ key.module \in r.off \cap retired

LoadsInv ==
  \A w \in Reader : Reading(reader[w]) /\ (InFlight(reader[w]) => Undisturbed(reader[w]))

\* What d holds, up to a statement, is as the tables have it: but for grants that
\* have ended since, and for statuses where there is no grant.
Tells(d, at) ==
  /\ d.app = APP /\ d.org = ORG /\ d.entitled /\ d.until = UNTIL /\ seat
  /\ at \notin GrantsUnread =>
       /\ d.grants \subseteq grants
       /\ {g \in d.grants : InForce(g, now)} = Bearing
  /\ at \notin RulesUnread => d.rules = RulesFor(RolesOf(d))
  /\ at \notin GridUnread => d.grid = CellsFor(RolesOf(d))
  /\ at \notin RegistryUnread =>
       d.registered = registered /\ d.configuring = Configuring \cap RolesOf(d)
  /\ at \notin StatusUnread => d.inactive = inactive \/ grants = {}

\* Nothing that moves the version, no report, no removal and no commit of an
\* overtaken request since.
SinceThen(x) ==
  /\ x.pv = version /\ x.reports = reports /\ x.retired = retired
  /\ x.overtaken = overtaken

VersionsInv ==
  /\ \A key \in registered : key.module \notin retired
  /\ \A w \in Reader :
       LET r == reader[w] IN
       r.at \notin {"idle", "entitled"} /\ r.data.entitled /\ SinceThen(r) => Tells(r.data, r.at)
  /\ \A t \in tokens :
       /\ Earlier(t) /\ t.reports \in Nat /\ t.reports <= reports /\ t.retired \subseteq retired
       /\ SinceThen(t) => Tells(FromClaims(t.claims), "loaded")

\* Two inputs that agree on the grants in force, and of these roles on what bears
\* on a key, give one decision.
LEMMA SameDecision ==
  ASSUME NEW d, NEW e, NEW key, NEW requested, NEW at,
         e.app = d.app, e.entitled = d.entitled, e.until = d.until,
         Reaching(e, requested, at) = Reaching(d, requested, at),
         \A g \in Reaching(d, requested, at) :
           /\ Rule(e, g.role, key) = Rule(d, g.role, key)
           /\ AllowsAny(e, g.role, key.module) <=> AllowsAny(d, g.role, key.module)
           /\ Cell(e, key.module, g.role) = Cell(d, key.module, g.role)
           /\ g.role \in e.configuring <=> g.role \in d.configuring,
         key \in e.registered <=> key \in d.registered,
         key.module \in e.inactive <=> key.module \in d.inactive
  PROVE  Resolve(e, key, requested, at) <=> Resolve(d, key, requested, at)
<1> DEFINE reach == Reaching(d, requested, at)
<1>1. \A g \in reach : Says(e, g.role, key) = Says(d, g.role, key)
  <2> SUFFICES ASSUME NEW g \in reach PROVE Says(e, g.role, key) = Says(d, g.role, key)
    OBVIOUS
  <2>1. SwitchedOn(e, g.role, key) <=> SwitchedOn(d, g.role, key)
    BY DEF SwitchedOn
  <2> QED
    BY <2>1 DEF Says
<1>2. \A g \in reach : ShutOut(e, g.role, key.module) <=> ShutOut(d, g.role, key.module)
  BY DEF ShutOut
<1> DEFINE saying(x) == {g \in reach : Says(x, g.role, key) # Null}
<1>3. saying(e) = saying(d)
  BY <1>1
<1>4. /\ Decisive(d, key, requested, at) = {g \in saying(d) : \A h \in saying(d) : Rank(h) <= Rank(g)}
      /\ Decisive(e, key, requested, at) = {g \in saying(e) : \A h \in saying(e) : Rank(h) <= Rank(g)}
  BY DEF Decisive
<1>5. Decisive(e, key, requested, at) = Decisive(d, key, requested, at)
      /\ Decisive(d, key, requested, at) \subseteq reach
  BY <1>3, <1>4
<1> HIDE DEF saying, reach
<1> QED
  BY <1>1, <1>2, <1>5 DEF Resolve

\* A decision looks at nothing of other features.
LEMMA SameFeature ==
  ASSUME NEW d, NEW e, NEW key, NEW requested, NEW at,
         e.app = d.app, e.org = d.org, e.entitled = d.entitled, e.until = d.until,
         e.grants = d.grants, e.configuring = d.configuring,
         \A f : f[2].module = key.module =>
           /\ f \in DOMAIN e.rules <=> f \in DOMAIN d.rules
           /\ f \in DOMAIN d.rules => e.rules[f] = d.rules[f],
         \A c : c[1] = key.module =>
           /\ c \in DOMAIN e.grid <=> c \in DOMAIN d.grid
           /\ c \in DOMAIN d.grid => e.grid[c] = d.grid[c],
         key \in e.registered <=> key \in d.registered,
         key.module \in e.inactive <=> key.module \in d.inactive
  PROVE  Resolve(e, key, requested, at) <=> Resolve(d, key, requested, at)
<1>1. Reaching(e, requested, at) = Reaching(d, requested, at)
  BY DEF Reaching, Covers
<1>2. ASSUME NEW role
      PROVE  /\ Rule(e, role, key) = Rule(d, role, key)
             /\ AllowsAny(e, role, key.module) <=> AllowsAny(d, role, key.module)
             /\ Cell(e, key.module, role) = Cell(d, key.module, role)
  <2>1. Rule(e, role, key) = Rule(d, role, key)
    <3>1. <<role, key>>[2].module = key.module
      OBVIOUS
    <3> QED
      BY <3>1 DEF Rule
  <2>2. AllowsAny(e, role, key.module) <=> AllowsAny(d, role, key.module)
    BY DEF AllowsAny
  <2>3. Cell(e, key.module, role) = Cell(d, key.module, role)
    <3>1. <<key.module, role>>[1] = key.module
      OBVIOUS
    <3> QED
      BY <3>1 DEF Cell
  <2> QED
    BY <2>1, <2>2, <2>3
<1> QED
  BY <1>1, <1>2, SameDecision

\* Tables, restricted to the roles of some grants, say of these roles what they say.
LEMMA RestrictedSays ==
  ASSUME NEW d, NEW roles, NEW role \in roles, NEW key,
         d.rules = RulesFor(roles), d.grid = CellsFor(roles)
  PROVE  /\ Rule(d, role, key) = IF <<role, key>> \in DOMAIN rules THEN rules[<<role, key>>] ELSE Null
         /\ AllowsAny(d, role, key.module) <=>
              \E f \in DOMAIN rules : f[1] = role /\ f[2].module = key.module /\ rules[f] = "allow"
         /\ Cell(d, key.module, role) =
              IF <<key.module, role>> \in DOMAIN grid THEN grid[<<key.module, role>>] ELSE Null
<1>1. /\ DOMAIN d.rules = {f \in DOMAIN rules : f[1] \in roles}
      /\ \A f \in DOMAIN d.rules : d.rules[f] = rules[f]
  BY DEF RulesFor
<1>2. /\ DOMAIN d.grid = {c \in DOMAIN grid : c[2] \in roles}
      /\ \A c \in DOMAIN d.grid : d.grid[c] = grid[c]
  BY DEF CellsFor
<1>3. <<role, key>>[1] = role /\ <<key.module, role>>[2] = role
  OBVIOUS
<1>4. Rule(d, role, key) = IF <<role, key>> \in DOMAIN rules THEN rules[<<role, key>>] ELSE Null
  BY <1>1, <1>3 DEF Rule
<1>5. AllowsAny(d, role, key.module) <=>
        \E f \in DOMAIN rules : f[1] = role /\ f[2].module = key.module /\ rules[f] = "allow"
  BY <1>1 DEF AllowsAny
<1>6. Cell(d, key.module, role) =
        IF <<key.module, role>> \in DOMAIN grid THEN grid[<<key.module, role>>] ELSE Null
  BY <1>2, <1>3 DEF Cell
<1> QED
  BY <1>4, <1>5, <1>6

\* What tells all there is decides as an undisturbed load would.
LEMMA TellsAllowed ==
  ASSUME TablesOK, NEW d, Tells(d, "loaded")
  PROVE  Permitted(d, now) = AllowedNow
<1> DEFINE l == LoadNow
<1>0. /\ d.app = APP /\ d.org = ORG /\ d.entitled /\ d.until = UNTIL /\ seat
      /\ d.grants \subseteq grants
      /\ {g \in d.grants : InForce(g, now)} = Bearing
      /\ d.rules = RulesFor(RolesOf(d)) /\ d.grid = CellsFor(RolesOf(d))
      /\ d.registered = registered /\ d.configuring = Configuring \cap RolesOf(d)
      /\ d.inactive = inactive \/ grants = {}
  BY DEF Tells, GrantsUnread, RulesUnread, GridUnread, RegistryUnread, StatusUnread
<1>1. CASE ~Entitled
  <2>1. UNTIL # Never /\ ~(UNTIL >= now)
    BY <1>0, <1>1 DEF Entitled
  <2>2. Permitted(d, now) = {}
    BY <1>0, <2>1 DEF Permitted, Resolve
  <2>3. AllowedNow = {}
    BY <1>1 DEF AllowedNow, LoadNow, Permitted, Blank
  <2> QED
    BY <2>2, <2>3
<1>2. CASE Entitled
  <2>1. /\ l.app = APP /\ l.org = ORG /\ l.entitled = TRUE /\ l.until = UNTIL /\ l.grants = Bearing
        /\ l.rules = RulesFor(RolesOf(l)) /\ l.grid = CellsFor(RolesOf(l))
        /\ l.registered = registered /\ l.inactive = inactive
        /\ l.configuring = Configuring \cap RolesOf(l)
    BY <1>2 DEF LoadNow, RolesOf
  <2> HIDE DEF l
  <2>2. \A g \in Bearing : InForce(g, now)
    BY DEF Bearing
  <2>3. Reaching(l, Asked, now) = Reaching(d, Asked, now)
    BY <1>0, <2>1, <2>2 DEF Reaching, Covers
  <2>4. Reaching(d, Asked, now) \subseteq Bearing
    BY <1>0 DEF Reaching
  <2>5. ASSUME NEW key
        PROVE  Resolve(l, key, Asked, now) <=> Resolve(d, key, Asked, now)
    <3>1. CASE grants = {}
      <4>1. Reaching(l, Asked, now) = {} /\ Reaching(d, Asked, now) = {}
        BY <1>0, <2>3, <2>4, <3>1
      <4> QED
        BY <4>1 DEF Resolve, Decisive
    <3>2. CASE d.inactive = inactive
      <4>1. ASSUME NEW g \in Reaching(d, Asked, now)
            PROVE  /\ Rule(l, g.role, key) = Rule(d, g.role, key)
                   /\ AllowsAny(l, g.role, key.module) <=> AllowsAny(d, g.role, key.module)
                   /\ Cell(l, key.module, g.role) = Cell(d, key.module, g.role)
                   /\ g.role \in l.configuring <=> g.role \in d.configuring
        <5>1. g \in l.grants /\ g \in d.grants
          BY <1>0, <2>1, <2>4
        <5>2. g.role \in RolesOf(l) /\ g.role \in RolesOf(d)
          BY <5>1 DEF RolesOf
        <5> DEFINE role == g.role
                   said == IF <<role, key>> \in DOMAIN rules THEN rules[<<role, key>>] ELSE Null
                   cell == IF <<key.module, role>> \in DOMAIN grid
                           THEN grid[<<key.module, role>>] ELSE Null
                   any  == \E f \in DOMAIN rules :
                             f[1] = role /\ f[2].module = key.module /\ rules[f] = "allow"
        <5>3. Rule(l, role, key) = said /\ (AllowsAny(l, role, key.module) <=> any)
              /\ Cell(l, key.module, role) = cell
          BY <2>1, <5>2, RestrictedSays
        <5>4. Rule(d, role, key) = said /\ (AllowsAny(d, role, key.module) <=> any)
              /\ Cell(d, key.module, role) = cell
          BY <1>0, <5>2, RestrictedSays
        <5>5. role \in l.configuring <=> role \in d.configuring
          BY <1>0, <2>1, <5>2
        <5> QED
          BY <5>3, <5>4, <5>5
      <4>2. l.app = d.app /\ l.entitled = d.entitled /\ l.until = d.until
        BY <1>0, <2>1
      <4>3. (key \in l.registered <=> key \in d.registered)
            /\ (key.module \in l.inactive <=> key.module \in d.inactive)
        BY <1>0, <2>1, <3>2
      <4> QED
        BY <2>3, <4>1, <4>2, <4>3, SameDecision
    <3> QED
      BY <1>0, <3>1, <3>2
  <2>6. l.registered = d.registered
    BY <1>0, <2>1
  <2> QED
    BY <2>5, <2>6 DEF Permitted, AllowedNow, l
<1> QED
  BY <1>1, <1>2

\* Of a load that nothing has disturbed, and that has found the person entitled:
\* what it has read is what there is.
LEMMA FilledIsNow ==
  ASSUME NEW r, InFlight(r), r.at # "entitled", r.data.entitled, Finished(r) = LoadNow
  PROVE  /\ Entitled
         /\ Held(r) = Bearing /\ HeldRoles(r) = {g.role : g \in Bearing}
         /\ r.at \notin RulesUnread => r.data.rules = RulesFor({g.role : g \in Bearing})
         /\ r.at \notin GridUnread => r.data.grid = CellsFor({g.role : g \in Bearing})
         /\ r.at \notin RegistryUnread => r.data.registered = registered
         /\ r.at \notin StatusUnread => r.data.inactive = inactive
<1>1. Finished(r) = Filled(r)
  BY DEF Finished
<1>2. Filled(r).entitled = TRUE /\ Blank.entitled = FALSE
  BY DEF Filled, Blank
<1>3. Entitled
  BY <1>1, <1>2 DEF LoadNow
<1>4. /\ LoadNow.grants = Bearing
      /\ LoadNow.rules = RulesFor({g.role : g \in Bearing})
      /\ LoadNow.grid = CellsFor({g.role : g \in Bearing})
      /\ LoadNow.registered = registered /\ LoadNow.inactive = inactive
  BY <1>3 DEF LoadNow
<1>5. /\ Filled(r).grants = Held(r)
      /\ r.at \notin RulesUnread => Filled(r).rules = r.data.rules
      /\ r.at \notin GridUnread => Filled(r).grid = r.data.grid
      /\ r.at \notin RegistryUnread => Filled(r).registered = r.data.registered
      /\ r.at \notin StatusUnread => Filled(r).inactive = r.data.inactive
  BY DEF Filled
<1> QED
  BY <1>1, <1>3, <1>4, <1>5 DEF HeldRoles

\* The answer it will give after one commit of an administrator is the one there
\* was, or the one there is.
LEMMA CommitFinished ==
  ASSUME NEW r, InFlight(r), Finished(r) = LoadNow,
         now' = now,
         \/ UNCHANGED <<rules, grid, registered, inactive>> /\ (grants' = grants \/ seat' = seat)
         \/ UNCHANGED <<seat, grants, grid, registered, inactive>>
         \/ UNCHANGED <<seat, grants, rules, registered, inactive>>
         \/ UNCHANGED <<seat, grants, rules, grid, registered>>
  PROVE  Finished(r)' = LoadNow \/ Finished(r)' = LoadNow'
<1>1. CASE r.at = "entitled"
  BY <1>1 DEF Finished
<1>2. CASE r.at # "entitled" /\ ~r.data.entitled
  <2>1. Finished(r) = Blank /\ Finished(r)' = Blank
    BY <1>2 DEF Finished, Blank
  <2> QED
    BY <2>1
<1>3. CASE r.at # "entitled" /\ r.data.entitled
  <2> DEFINE R == {g.role : g \in Bearing}
  <2>1. /\ Entitled
        /\ Held(r) = Bearing /\ HeldRoles(r) = R
        /\ r.at \notin RulesUnread => r.data.rules = RulesFor(R)
        /\ r.at \notin GridUnread => r.data.grid = CellsFor(R)
        /\ r.at \notin RegistryUnread => r.data.registered = registered
        /\ r.at \notin StatusUnread => r.data.inactive = inactive
    BY <1>3, FilledIsNow
  <2>2. Finished(r) = Filled(r) /\ Finished(r)' = Filled(r)'
    BY <1>3 DEF Finished
  <2>3. CASE UNCHANGED <<rules, grid, registered, inactive>> /\ grants' = grants
    <3>1. Filled(r)' = Filled(r)
      BY <2>3 DEF Filled, Held, HeldRoles, Bearing, RulesFor, CellsFor
    <3> QED
      BY <2>2, <3>1
  <2>4. CASE UNCHANGED <<rules, grid, registered, inactive>> /\ seat' = seat
    <3>1. CASE r.at \in GrantsUnread
      <4>1. Entitled'
        BY <2>1, <2>4 DEF Entitled
      <4>2. r.at \in RulesUnread /\ r.at \in GridUnread /\ r.at \in RegistryUnread
            /\ r.at \in StatusUnread
        BY <3>1 DEF RulesUnread, GridUnread, RegistryUnread, StatusUnread
      <4>3. Filled(r)' = LoadNow'
        BY <3>1, <4>1, <4>2 DEF Filled, LoadNow, Held, HeldRoles
      <4> QED
        BY <2>2, <4>3
    <3>2. CASE r.at \notin GrantsUnread
      <4>1. Held(r)' = Held(r) /\ HeldRoles(r)' = HeldRoles(r)
        BY <3>2 DEF Held, HeldRoles
      <4>2. Filled(r)' = Filled(r)
        BY <2>4, <4>1 DEF Filled, RulesFor, CellsFor
      <4> QED
        BY <2>2, <4>2
    <3> QED
      BY <3>1, <3>2
  <2>5. CASE UNCHANGED <<seat, grants>>
    <3>1. Bearing' = Bearing /\ Held(r)' = Held(r) /\ HeldRoles(r)' = HeldRoles(r) /\ Entitled'
          /\ R' = R
      BY <2>1, <2>5 DEF Bearing, Held, HeldRoles, Entitled
    <3> HIDE DEF R
    <3>2. LoadNow' = [app |-> APP, org |-> ORG, entitled |-> TRUE, until |-> UNTIL,
                      grants |-> Bearing, rules |-> RulesFor(R)', grid |-> CellsFor(R)',
                      registered |-> registered', inactive |-> inactive',
                      configuring |-> Configuring \cap R]
      BY <3>1 DEF LoadNow, R
    <3>3. Filled(r)' =
            [app |-> APP, org |-> ORG, entitled |-> TRUE, until |-> UNTIL,
             grants |-> Bearing,
             rules |-> IF r.at \in RulesUnread THEN RulesFor(R)' ELSE RulesFor(R),
             grid |-> IF r.at \in GridUnread THEN CellsFor(R)' ELSE CellsFor(R),
             registered |-> IF r.at \in RegistryUnread THEN registered' ELSE registered,
             inactive |-> IF r.at \in StatusUnread THEN inactive' ELSE inactive,
             configuring |-> Configuring \cap R]
      BY <2>1, <3>1 DEF Filled
    <3>4. LoadNow = [app |-> APP, org |-> ORG, entitled |-> TRUE, until |-> UNTIL,
                     grants |-> Bearing, rules |-> RulesFor(R), grid |-> CellsFor(R),
                     registered |-> registered, inactive |-> inactive,
                     configuring |-> Configuring \cap R]
      BY <2>1 DEF LoadNow, R
    <3>5. /\ rules' = rules => RulesFor(R)' = RulesFor(R)
          /\ grid' = grid => CellsFor(R)' = CellsFor(R)
      BY <3>1 DEF RulesFor, CellsFor
    <3>6. CASE UNCHANGED <<grid, registered, inactive>>
      BY <2>2, <3>2, <3>3, <3>4, <3>5, <3>6
    <3>7. CASE UNCHANGED <<rules, registered, inactive>>
      BY <2>2, <3>2, <3>3, <3>4, <3>5, <3>7
    <3>8. CASE UNCHANGED <<rules, grid, registered>>
      BY <2>2, <3>2, <3>3, <3>4, <3>5, <3>8
    <3> QED
      BY <2>3, <2>5, <3>6, <3>7, <3>8
  <2> QED
    BY <2>3, <2>4, <2>5
<1> QED
  BY <1>1, <1>2, <1>3
\* The same of the next state.
TellingDecides == TablesOK => \A d : Tells(d, "loaded") => Permitted(d, now) = AllowedNow

LEMMA TellsAllowedNext == TellingDecides'
<1>1. TellingDecides
  BY TellsAllowed DEF TellingDecides
<1> QED
  BY <1>1, PTL

\* What is in force later was in force before.
LEMMA InForceBefore ==
  ASSUME NEW g, g.expires \in Moment, now \in Nat, now' = now + 1
  PROVE  InForce(g, now') => InForce(g, now)
BY ResolutionAssumption DEF InForce, Moment

LEMMA BearingEnds ==
  ASSUME TablesOK, UNCHANGED grants, now' = now + 1
  PROVE  Bearing' = {g \in Bearing : InForce(g, now')}
<1>1. \A g \in grants : g.expires \in Moment
  BY DecisionsAssumption DEF TablesOK, Grant
<1>2. \A g \in grants : InForce(g, now') => InForce(g, now)
  BY <1>1, InForceBefore DEF TablesOK
<1> QED
  BY <1>2 DEF Bearing

\* The clock moves no table.
LEMMA TickTells ==
  ASSUME TablesOK, UNCHANGED tables, now' = now + 1, NEW d, NEW at, Tells(d, at)
  PROVE  Tells(d, at)'
<1>1. ASSUME at \notin GrantsUnread
      PROVE  d.grants \subseteq grants' /\ {g \in d.grants : InForce(g, now')} = Bearing'
  <2>1. d.grants \subseteq grants /\ {g \in d.grants : InForce(g, now)} = Bearing
    BY <1>1 DEF Tells
  <2>2. \A g \in grants : g.expires \in Moment
    BY DecisionsAssumption DEF TablesOK, Grant
  <2>3. \A g \in d.grants : InForce(g, now') => InForce(g, now)
    BY <2>1, <2>2, InForceBefore DEF TablesOK
  <2>4. Bearing' = {g \in Bearing : InForce(g, now')}
    BY BearingEnds DEF tables
  <2> QED
    BY <2>1, <2>3, <2>4 DEF tables
<1>2. UNCHANGED <<seat, grants, rules, grid, registered, inactive, retired>>
  BY DEF tables
<1> QED
  BY <1>1, <1>2 DEF Tells, RulesFor, CellsFor

LEMMA TickFinished ==
  ASSUME TablesOK, TablesOK', UNCHANGED tables, now' = now + 1,
         NEW r, InFlight(r), Finished(r) = LoadNow
  PROVE  Permitted(Finished(r), now)' \subseteq AllowedNow'
<1>1. CASE r.at = "entitled"
  BY <1>1 DEF Finished, AllowedNow
<1>2. CASE r.at # "entitled" /\ ~r.data.entitled
  BY <1>2 DEF Finished, Permitted, Blank
<1>3. CASE r.at # "entitled" /\ r.data.entitled
  <2> DEFINE R == {g.role : g \in Bearing}
  <2>1. /\ Entitled
        /\ Held(r) = Bearing /\ HeldRoles(r) = R
    BY <1>3, FilledIsNow
  <2>2. Finished(r) = Filled(r) /\ Finished(r)' = Filled(r)'
    BY <1>3 DEF Finished
  <2>3. CASE r.at \in GrantsUnread
    <3>1. r.at \in RulesUnread /\ r.at \in GridUnread /\ r.at \in RegistryUnread
          /\ r.at \in StatusUnread
      BY <2>3 DEF RulesUnread, GridUnread, RegistryUnread, StatusUnread
    <3>2. CASE Entitled'
      <4>1. Filled(r)' = LoadNow'
        BY <2>3, <3>1, <3>2 DEF Filled, LoadNow, Held, HeldRoles
      <4> QED
        BY <2>2, <4>1 DEF AllowedNow
    <3>3. CASE ~Entitled'
      <4>1. UNTIL # Never /\ ~(UNTIL >= now')
        BY <2>1, <3>3 DEF Entitled, tables
      <4>2. Filled(r)'.until = UNTIL
        BY DEF Filled
      <4>3. PICK e : e = Filled(r)'
        OBVIOUS
      <4>4. Permitted(e, now') = {}
        BY <4>1, <4>2, <4>3 DEF Permitted, Resolve
      <4>5. Permitted(Finished(r), now)' = Permitted(e, now')
        BY <2>2, <4>3 DEF Permitted
      <4> QED
        BY <4>4, <4>5
    <3> QED
      BY <3>2, <3>3
  <2>4. CASE r.at \notin GrantsUnread
    <3>1. Filled(r)' = Filled(r)
      BY <2>4 DEF Filled, Held, HeldRoles, tables, RulesFor, CellsFor
    <3>2. PICK d : d = LoadNow
      OBVIOUS
    <3>3. Finished(r)' = d
      BY <2>2, <3>1, <3>2
    <3>4. Tells(d, "loaded")
      <4>1. \A g \in Bearing : InForce(g, now)
        BY DEF Bearing
      <4>2. /\ d.app = APP /\ d.org = ORG /\ d.entitled = TRUE /\ d.until = UNTIL
            /\ d.grants = Bearing
            /\ d.rules = RulesFor(RolesOf(d)) /\ d.grid = CellsFor(RolesOf(d))
            /\ d.registered = registered /\ d.inactive = inactive
            /\ d.configuring = Configuring \cap RolesOf(d)
        BY <2>1, <3>2 DEF LoadNow, RolesOf
      <4>3. seat /\ Bearing \subseteq grants
        BY <2>1 DEF Entitled, Bearing
      <4> QED
        BY <4>1, <4>2, <4>3 DEF Tells
    <3>5. Tells(d, "loaded")'
      BY <3>4, TickTells
    <3>6. Permitted(d, now') = AllowedNow'
      BY <3>5, TellsAllowedNext DEF TellingDecides
    <3>7. Permitted(Finished(r), now)' = Permitted(d, now')
      BY <3>3 DEF Permitted
    <3> QED
      BY <3>6, <3>7
  <2> QED
    BY <2>3, <2>4
<1> QED
  BY <1>1, <1>2, <1>3

\* After a removal the answer it will give is, of the feature that went, the one
\* there was, unless that was switched off; and of any other, too.
LEMMA RemovalFinished ==
  ASSUME TablesOK, NEW r, InFlight(r), Finished(r) = LoadNow,
         NEW module, RemoveFeature(module), NEW key, key \in Permitted(Finished(r), now)'
  PROVE  \/ key \in AllowedNow
         \/ key \in AllowedNow'
         \/ key.module \in inactive \cap retired'
<1>0. /\ UNCHANGED <<seat, grants, now>>
      /\ registered' = {k \in registered : k.module # module}
      /\ rules' = [f \in {e \in DOMAIN rules : e[2].module # module} |-> rules[f]]
      /\ grid' = [c \in {b \in DOMAIN grid : b[1] # module} |-> grid[c]]
      /\ inactive' = inactive \ {module}
      /\ retired' = retired \cup {module}
  BY DEF RemoveFeature, Commit
<1>1. CASE r.at = "entitled"
  BY <1>1 DEF Finished, AllowedNow
<1>2. CASE r.at # "entitled" /\ ~r.data.entitled
  BY <1>2 DEF Finished, Permitted, Blank
<1>3. CASE r.at # "entitled" /\ r.data.entitled
  <2>0. PICK R : R = {g.role : g \in Bearing}
    OBVIOUS
  <2>1. /\ Entitled
        /\ Held(r) = Bearing /\ HeldRoles(r) = R
        /\ r.at \notin RulesUnread => r.data.rules = RulesFor(R)
        /\ r.at \notin GridUnread => r.data.grid = CellsFor(R)
        /\ r.at \notin RegistryUnread => r.data.registered = registered
        /\ r.at \notin StatusUnread => r.data.inactive = inactive
    BY <1>3, <2>0, FilledIsNow
  <2>2. Held(r)' = Bearing /\ HeldRoles(r)' = R
    BY <1>0, <2>1 DEF Held, HeldRoles, Bearing
  <2>3. PICK d : d = LoadNow
    OBVIOUS
  <2>4. /\ d.app = APP /\ d.org = ORG /\ d.entitled = TRUE /\ d.until = UNTIL
        /\ d.grants = Bearing /\ d.rules = RulesFor(R) /\ d.grid = CellsFor(R)
        /\ d.registered = registered /\ d.inactive = inactive
        /\ d.configuring = Configuring \cap R
    BY <2>0, <2>1, <2>3 DEF LoadNow
  <2>5. PICK e : e = Filled(r)'
    OBVIOUS
  <2>6. /\ e.app = APP /\ e.org = ORG /\ e.entitled = TRUE /\ e.until = UNTIL
        /\ e.grants = Bearing
        /\ e.rules = IF r.at \in RulesUnread THEN RulesFor(R)' ELSE RulesFor(R)
        /\ e.grid = IF r.at \in GridUnread THEN CellsFor(R)' ELSE CellsFor(R)
        /\ e.registered = IF r.at \in RegistryUnread THEN registered' ELSE registered
        /\ e.inactive = IF r.at \in StatusUnread THEN inactive' ELSE inactive
        /\ e.configuring = Configuring \cap R
    <3>1. Filled(r)' =
            [app |-> APP, org |-> ORG, entitled |-> TRUE, until |-> UNTIL,
             grants |-> Bearing,
             rules |-> IF r.at \in RulesUnread THEN RulesFor(R)' ELSE RulesFor(R),
             grid |-> IF r.at \in GridUnread THEN CellsFor(R)' ELSE CellsFor(R),
             registered |-> IF r.at \in RegistryUnread THEN registered' ELSE registered,
             inactive |-> IF r.at \in StatusUnread THEN inactive' ELSE inactive,
             configuring |-> Configuring \cap R]
      BY <2>1, <2>2 DEF Filled
    <3> QED
      BY <2>5, <3>1
  <2>7. key \in e.registered /\ Resolve(e, key, Asked, now)
    BY <1>0, <1>3, <2>5 DEF Finished, Permitted
  <2>8. \A f : f \in DOMAIN RulesFor(R) <=> f \in DOMAIN rules /\ f[1] \in R
    BY DEF RulesFor
  <2>9. \A f : f \in DOMAIN RulesFor(R)' <=> f \in DOMAIN rules /\ f[1] \in R /\ f[2].module # module
    BY <1>0 DEF RulesFor
  <2>10. \A f \in DOMAIN RulesFor(R)' : RulesFor(R)'[f] = RulesFor(R)[f]
    BY <1>0 DEF RulesFor
  <2>11. \A c : c \in DOMAIN CellsFor(R) <=> c \in DOMAIN grid /\ c[2] \in R
    BY DEF CellsFor
  <2>12. \A c : c \in DOMAIN CellsFor(R)' <=> c \in DOMAIN grid /\ c[2] \in R /\ c[1] # module
    BY <1>0 DEF CellsFor
  <2>13. \A c \in DOMAIN CellsFor(R)' : CellsFor(R)'[c] = CellsFor(R)[c]
    BY <1>0 DEF CellsFor
  <2>14. ASSUME key.module # module PROVE key \in AllowedNow
    <3>1. \A f : f[2].module = key.module =>
            /\ f \in DOMAIN e.rules <=> f \in DOMAIN d.rules
            /\ f \in DOMAIN d.rules => e.rules[f] = d.rules[f]
      BY <2>4, <2>6, <2>8, <2>9, <2>10, <2>14
    <3>2. \A c : c[1] = key.module =>
            /\ c \in DOMAIN e.grid <=> c \in DOMAIN d.grid
            /\ c \in DOMAIN d.grid => e.grid[c] = d.grid[c]
      BY <2>4, <2>6, <2>11, <2>12, <2>13, <2>14
    <3>3. (key \in e.registered <=> key \in d.registered)
          /\ (key.module \in e.inactive <=> key.module \in d.inactive)
      BY <1>0, <2>4, <2>6, <2>14
    <3>4. /\ e.app = d.app /\ e.org = d.org /\ e.entitled = d.entitled /\ e.until = d.until
          /\ e.grants = d.grants /\ e.configuring = d.configuring
      BY <2>4, <2>6
    <3>5. Resolve(e, key, Asked, now) <=> Resolve(d, key, Asked, now)
      BY <3>1, <3>2, <3>3, <3>4, SameFeature
    <3> QED
      BY <2>3, <2>7, <3>3, <3>5 DEF AllowedNow, Permitted
  <2>15. ASSUME key.module = module, module \notin inactive PROVE key \in AllowedNow
    <3>1. r.at \notin RegistryUnread
      BY <1>0, <2>6, <2>7, <2>15
    <3>2. r.at \notin RulesUnread /\ r.at \notin GridUnread
      BY <3>1 DEF RulesUnread, GridUnread, RegistryUnread
    <3>3. /\ e.app = d.app /\ e.org = d.org /\ e.entitled = d.entitled /\ e.until = d.until
          /\ e.grants = d.grants /\ e.configuring = d.configuring
          /\ e.rules = d.rules /\ e.grid = d.grid /\ e.registered = d.registered
          /\ e.inactive = d.inactive
      BY <1>0, <2>4, <2>6, <2>15, <3>1, <3>2
    <3>4. Resolve(e, key, Asked, now) <=> Resolve(d, key, Asked, now)
      BY <3>3, SameFeature
    <3> QED
      BY <2>3, <2>7, <3>3, <3>4 DEF AllowedNow, Permitted
  <2> QED
    BY <1>0, <2>14, <2>15
<1> QED
  BY <1>1, <1>2, <1>3
-----------------------------------------------------------------------------
(* The steps of a load, and of others meanwhile.                           *)

LEMMA LoadsInit == ASSUME Init PROVE LoadsInv
<1>1. /\ Idle.at = "idle" /\ Idle.data = Blank /\ Idle.since = 0 /\ Idle.reports = 0
      /\ Idle.pv = 0 /\ Idle.retired = {} /\ Idle.overtaken = 0
  BY DEF Idle
<1>2. Blank.entitled = FALSE
  BY DEF Blank
<1>3. Changes = 0 /\ version = 1 /\ reports = 0 /\ overtaken = 0 /\ \A w \in Reader : reader[w] = Idle
  BY DEF Init, Changes
<1> HIDE DEF Idle
<1> QED
  BY <1>1, <1>2, <1>3 DEF LoadsInv, Reading, InFlight, Earlier

\* Who has read the same, and is as far, gives the same answer.
LEMMA FinishedOf ==
  ASSUME NEW r, NEW s, s.at = r.at, s.data = r.data
  PROVE  Finished(s) = Finished(r)
BY DEF Finished, Filled, Held, HeldRoles

\* Where no table moves, nothing that is said of a load does.
LEMMA SameTables ==
  ASSUME UNCHANGED <<tables, now, history>>, NEW r
  PROVE  /\ Reading(r) => Reading(r)'
         /\ Undisturbed(r) => Undisturbed(r)'
         /\ LoadNow' = LoadNow /\ AllowedNow' = AllowedNow /\ Changes' = Changes
<1>1. UNCHANGED <<seat, grants, rules, grid, registered, inactive, retired, version,
                  commits, reports, overtaken>>
  BY DEF tables, history
<1>2. LoadNow' = LoadNow
  BY <1>1 DEF LoadNow, Entitled, Bearing, RulesFor, CellsFor
<1>3. Finished(r)' = Finished(r)
  BY <1>1, <1>2 DEF Finished, Filled, Held, HeldRoles, Bearing, RulesFor, CellsFor
<1>4. AllowedNow' = AllowedNow
  BY <1>2 DEF AllowedNow
<1>5. Changes' = Changes
  BY <1>1 DEF Changes
<1>6. Reading(r) => Reading(r)'
  BY <1>1, <1>5 DEF Reading, Earlier
<1>7. Permitted(Finished(r), now)' = Permitted(Finished(r), now)
  BY <1>3 DEF Permitted
<1>8. Undisturbed(r) => Undisturbed(r)'
  BY <1>1, <1>2, <1>3, <1>4, <1>5, <1>7 DEF Undisturbed
<1> QED
  BY <1>2, <1>4, <1>5, <1>6, <1>8

\* A reading leaves the answer as it would have been.
LEMMA LoadMoves ==
  ASSUME TablesOK, NEW r, Reading(r), LoadOK(r), r.at \in DOMAIN After,
         NEW s, s = IF r.at = "entitled" /\ ~Entitled THEN [r EXCEPT !.at = "loaded"]
                    ELSE [r EXCEPT !.at = After[r.at], !.data = Fetched(r.data, r.at)]
  PROVE  Reading(s) /\ InFlight(s) /\ Finished(s) = Finished(r)
         /\ s.since = r.since /\ s.reports = r.reports /\ s.off = r.off /\ s.right = r.right
         /\ s.pv = r.pv /\ s.retired = r.retired /\ s.overtaken = r.overtaken
<1>1. /\ DOMAIN s = DOMAIN Idle /\ s.since = r.since /\ s.reports = r.reports /\ s.off = r.off
      /\ s.right = r.right /\ s.pv = r.pv /\ s.retired = r.retired
      /\ s.overtaken = r.overtaken
      /\ s.at = IF r.at = "entitled" /\ ~Entitled THEN "loaded" ELSE After[r.at]
      /\ s.data = IF r.at = "entitled" /\ ~Entitled THEN r.data ELSE Fetched(r.data, r.at)
  <2>1. DOMAIN r = {"at", "data", "pv", "since", "reports", "overtaken", "retired", "off", "right"}
    BY DEF Reading, Idle
  <2> QED
    BY <2>1 DEF Reading
<1>2. s.since \in Nat /\ s.since <= Changes /\ s.reports \in Nat /\ s.reports <= reports
      /\ Earlier(s) /\ s.retired \subseteq retired
  BY <1>1 DEF Reading, Earlier
<1>3. Blank.entitled = FALSE
  BY DEF Blank
<1>4. Whole(r.data)
  BY DEF LoadOK
<1> DEFINE d == r.data
           e == s.data
<1>5. ASSUME r.at = "entitled", ~Entitled
      PROVE  Reading(s) /\ InFlight(s) /\ Finished(s) = Finished(r)
  <2>1. s.at = "loaded" /\ s.data = Blank
    BY <1>1, <1>5 DEF Reading
  <2>2. Finished(r) = LoadNow /\ LoadNow = Blank
    BY <1>5 DEF Finished, LoadNow
  <2> QED
    BY <1>1, <1>2, <1>3, <2>1, <2>2 DEF Reading, InFlight, Finished
<1>6. ASSUME r.at = "entitled", Entitled
      PROVE  Reading(s) /\ InFlight(s) /\ Finished(s) = Finished(r)
  <2>1. s.at = "grants" /\ e = [Blank EXCEPT !.entitled = TRUE, !.until = UNTIL]
    <3>1. s.at = After["entitled"] /\ e = Fetched(Blank, "entitled")
      BY <1>1, <1>6 DEF Reading
    <3>2. After["entitled"] = "grants"
      BY DEF After
    <3>3. Fetched(Blank, "entitled") = [Blank EXCEPT !.entitled = TRUE, !.until = UNTIL]
      BY DEF Fetched
    <3> QED
      BY <3>1, <3>2, <3>3
  <2>2. e.entitled = TRUE /\ e.until = UNTIL
    BY <2>1 DEF Blank
  <2>3. Finished(s) = Filled(s)
    BY <2>1, <2>2 DEF Finished
  <2>4. Filled(s) = LoadNow
    BY <1>6, <2>1 DEF Filled, LoadNow, Held, HeldRoles, GrantsUnread, RulesUnread, GridUnread,
                      RegistryUnread, StatusUnread
  <2> QED
    BY <1>1, <1>2, <1>6, <2>1, <2>2, <2>3, <2>4 DEF Reading, InFlight, Finished
<1>7. ASSUME r.at # "entitled"
      PROVE  Reading(s) /\ InFlight(s) /\ Finished(s) = Finished(r)
  <2>1. r.at \in {"grants", "rules", "grid", "registered", "inactive"} /\ d.entitled
    BY <1>7 DEF After, Reading
  <2>2. d.until = UNTIL
    BY <2>1 DEF Reading
  <2>3. s.at = After[r.at] /\ e = Fetched(d, r.at)
    BY <1>1, <1>7
  <2>4. Finished(r) = Filled(r)
    BY <1>7, <2>1 DEF Finished
  <2>5. Filled(r).entitled = TRUE
    BY DEF Filled
  <2> HIDE DEF d, e
  <2>6. CASE r.at = "grants"
    <3>1. s.at = "rules" /\ e = [d EXCEPT !.grants = Bearing]
      BY <2>3, <2>6 DEF After, Fetched
    <3>2. e.grants = Bearing /\ e.entitled = d.entitled /\ e.until = d.until
      BY <1>4, <3>1 DEF Whole, d
    <3>3. Held(s) = Bearing /\ Held(r) = Bearing
      BY <2>6, <3>1, <3>2 DEF Held, GrantsUnread, e
    <3>4. Filled(s) = Filled(r)
      BY <2>6, <3>1, <3>3 DEF Filled, HeldRoles, GrantsUnread, RulesUnread, GridUnread,
                              RegistryUnread, StatusUnread
    <3>5. Finished(s) = Filled(s)
      BY <2>1, <3>1, <3>2 DEF Finished, e
    <3> QED
      BY <1>1, <1>2, <2>1, <2>2, <2>4, <3>1, <3>2, <3>4, <3>5 DEF Reading, InFlight, d, e
  <2>7. CASE r.at = "rules"
    <3>1. s.at = "grid" /\ e = [d EXCEPT !.rules = RulesFor(RolesOf(d))]
      BY <2>3, <2>7 DEF After, Fetched
    <3>2. /\ e.rules = RulesFor(RolesOf(d)) /\ e.grants = d.grants
          /\ e.entitled = d.entitled /\ e.until = d.until
      BY <1>4, <3>1 DEF Whole, d
    <3>3. Held(s) = d.grants /\ Held(r) = d.grants /\ HeldRoles(r) = RolesOf(d)
      BY <2>7, <3>1, <3>2 DEF Held, HeldRoles, RolesOf, GrantsUnread, d, e
    <3>4. Filled(s) = Filled(r)
      BY <2>7, <3>1, <3>2, <3>3 DEF Filled, HeldRoles, GrantsUnread, RulesUnread, GridUnread,
                                    RegistryUnread, StatusUnread, e
    <3>5. Finished(s) = Filled(s)
      BY <2>1, <3>1, <3>2 DEF Finished, e
    <3> QED
      BY <1>1, <1>2, <2>1, <2>2, <2>4, <3>1, <3>2, <3>4, <3>5 DEF Reading, InFlight, d, e
  <2>8. CASE r.at = "grid"
    <3>1. s.at = "registered" /\ e = [d EXCEPT !.grid = CellsFor(RolesOf(d))]
      BY <2>3, <2>8 DEF After, Fetched
    <3>2. /\ e.grid = CellsFor(RolesOf(d)) /\ e.grants = d.grants /\ e.rules = d.rules
          /\ e.entitled = d.entitled /\ e.until = d.until
      BY <1>4, <3>1 DEF Whole, d
    <3>3. Held(s) = d.grants /\ Held(r) = d.grants /\ HeldRoles(r) = RolesOf(d)
      BY <2>8, <3>1, <3>2 DEF Held, HeldRoles, RolesOf, GrantsUnread, d, e
    <3>4. Filled(s) = Filled(r)
      BY <2>8, <3>1, <3>2, <3>3 DEF Filled, HeldRoles, GrantsUnread, RulesUnread, GridUnread,
                                    RegistryUnread, StatusUnread, d, e
    <3>5. Finished(s) = Filled(s)
      BY <2>1, <3>1, <3>2 DEF Finished, e
    <3> QED
      BY <1>1, <1>2, <2>1, <2>2, <2>4, <3>1, <3>2, <3>4, <3>5 DEF Reading, InFlight, d, e
  <2>9. CASE r.at = "registered"
    <3>1. s.at = "inactive" /\ e = [d EXCEPT !.registered = registered,
                                             !.configuring = Configuring \cap RolesOf(d)]
      BY <2>3, <2>9 DEF After, Fetched
    <3>2. /\ e.registered = registered /\ e.configuring = Configuring \cap RolesOf(d)
          /\ e.grants = d.grants /\ e.rules = d.rules /\ e.grid = d.grid
          /\ e.entitled = d.entitled /\ e.until = d.until
      BY <1>4, <3>1 DEF Whole, d
    <3>3. Held(s) = d.grants /\ Held(r) = d.grants /\ HeldRoles(r) = RolesOf(d) /\ RolesOf(e) = RolesOf(d)
      BY <2>9, <3>1, <3>2 DEF Held, HeldRoles, RolesOf, GrantsUnread, d, e
    <3>4. Filled(s) = Filled(r)
      <4>1. /\ s.at \notin RulesUnread /\ s.at \notin GridUnread /\ s.at \notin RegistryUnread
            /\ s.at \in StatusUnread
            /\ r.at \notin RulesUnread /\ r.at \notin GridUnread /\ r.at \in RegistryUnread
            /\ r.at \in StatusUnread
        BY <2>9, <3>1 DEF GrantsUnread, RulesUnread, GridUnread, RegistryUnread, StatusUnread
      <4>2. HeldRoles(s) = HeldRoles(r)
        BY <3>3 DEF HeldRoles
      <4>3. Filled(r) =
             [app |-> APP, org |-> ORG, entitled |-> TRUE, until |-> UNTIL,
              grants |-> d.grants, rules |-> d.rules, grid |-> d.grid,
              registered |-> registered, inactive |-> inactive,
              configuring |-> Configuring \cap HeldRoles(r)]
        BY <3>3, <4>1 DEF Filled, d
      <4>4. Filled(s) =
             [app |-> APP, org |-> ORG, entitled |-> TRUE, until |-> UNTIL,
              grants |-> d.grants, rules |-> d.rules, grid |-> d.grid,
              registered |-> registered, inactive |-> inactive,
              configuring |-> Configuring \cap HeldRoles(r)]
        BY <3>2, <3>3, <4>1, <4>2 DEF Filled, e
      <4> QED
        BY <4>3, <4>4
    <3>5. Finished(s) = Filled(s)
      BY <2>1, <3>1, <3>2 DEF Finished, e
    <3> QED
      BY <1>1, <1>2, <2>1, <2>2, <2>4, <3>1, <3>2, <3>3, <3>4, <3>5 DEF Reading, InFlight, d, e
  <2>10. CASE r.at = "inactive"
    <3>1. s.at = "loaded" /\ e = [d EXCEPT !.inactive = inactive]
      BY <2>3, <2>10 DEF After, Fetched
    <3>2. /\ e.registered = d.registered /\ e.configuring = d.configuring
          /\ e.grants = d.grants /\ e.rules = d.rules /\ e.grid = d.grid
          /\ e.entitled = d.entitled /\ e.until = d.until /\ e.inactive = inactive
      BY <1>4, <3>1 DEF Whole, d
    <3>3. Held(s) = d.grants /\ Held(r) = d.grants /\ RolesOf(e) = RolesOf(d)
          /\ d.configuring = Configuring \cap RolesOf(d)
      BY <2>1, <2>10, <3>1, <3>2 DEF Held, HeldRoles, RolesOf, GrantsUnread, d, e, Reading
    <3>4. Filled(s) = Filled(r)
      <4>1. /\ s.at \notin RulesUnread /\ s.at \notin GridUnread /\ s.at \notin RegistryUnread
            /\ s.at \notin StatusUnread
            /\ r.at \notin RulesUnread /\ r.at \notin GridUnread /\ r.at \notin RegistryUnread
            /\ r.at \in StatusUnread
        BY <2>10, <3>1 DEF GrantsUnread, RulesUnread, GridUnread, RegistryUnread, StatusUnread
      <4>2. HeldRoles(s) = HeldRoles(r)
        BY <3>3 DEF HeldRoles
      <4>3. Filled(r) =
             [app |-> APP, org |-> ORG, entitled |-> TRUE, until |-> UNTIL,
              grants |-> d.grants, rules |-> d.rules, grid |-> d.grid,
              registered |-> d.registered, inactive |-> inactive,
              configuring |-> Configuring \cap HeldRoles(r)]
        BY <3>3, <4>1 DEF Filled, d
      <4>4. Filled(s) =
             [app |-> APP, org |-> ORG, entitled |-> TRUE, until |-> UNTIL,
              grants |-> d.grants, rules |-> d.rules, grid |-> d.grid,
              registered |-> d.registered, inactive |-> inactive,
              configuring |-> Configuring \cap HeldRoles(r)]
        BY <3>2, <3>3, <4>1, <4>2 DEF Filled, e
      <4> QED
        BY <4>3, <4>4
    <3>5. Finished(s) = Filled(s)
      BY <2>1, <3>1, <3>2 DEF Finished, e
    <3> QED
      BY <1>1, <1>2, <2>1, <2>2, <2>4, <3>1, <3>2, <3>3, <3>4, <3>5 DEF Reading, InFlight, d, e
  <2> QED
    BY <2>1, <2>6, <2>7, <2>8, <2>9, <2>10
<1> QED
  BY <1>1, <1>5, <1>6, <1>7

\* What watching a change does to a load.
LEMMA WatchMoves ==
  ASSUME LoadsInv, Watch, NEW w \in Reader
  PROVE  /\ reader[w].at = "idle" => reader'[w] = Idle
         /\ reader'[w].at = reader[w].at /\ reader'[w].data = reader[w].data
         /\ reader'[w].pv = reader[w].pv /\ reader'[w].since = reader[w].since
         /\ reader'[w].reports = reader[w].reports /\ reader'[w].retired = reader[w].retired
         /\ reader'[w].overtaken = reader[w].overtaken
         /\ reader'[w].off = reader[w].off /\ DOMAIN reader'[w] = DOMAIN reader[w]
         /\ InFlight(reader[w]) => reader'[w].right = reader[w].right \cup AllowedNow'
<1>1. Reading(reader[w])
  BY DEF LoadsInv
<1>2. DOMAIN reader[w] = {"at", "data", "pv", "since", "reports", "overtaken", "retired", "off", "right"}
  BY <1>1 DEF Reading, Idle
<1>3. reader'[w] = IF reader[w] = Idle THEN Idle
                   ELSE [reader[w] EXCEPT !.right = @ \cup AllowedNow']
  BY DEF Watch
<1>4. CASE reader[w] = Idle
  <2>1. reader[w].at = "idle"
    BY <1>4 DEF Idle
  <2> QED
    BY <1>3, <1>4, <2>1 DEF InFlight
<1>5. CASE reader[w] # Idle
  <2>1. reader[w].at # "idle"
    BY <1>1, <1>5 DEF Reading
  <2> QED
    BY <1>2, <1>3, <1>5, <2>1 DEF InFlight
<1> QED
  BY <1>4, <1>5

\* One change gives no load more than there was before it and after it.
OneChange ==
  \A r : InFlight(r) /\ Finished(r) = LoadNow /\ reports' = reports =>
    \A key \in Permitted(Finished(r), now)' :
      key \in AllowedNow \/ key \in AllowedNow' \/ key.module \in inactive \cap retired'

LEMMA TickChange ==
  ASSUME TablesOK, TablesOK', Tick
  PROVE  OneChange
<1> SUFFICES ASSUME NEW r, InFlight(r), Finished(r) = LoadNow
             PROVE  Permitted(Finished(r), now)' \subseteq AllowedNow'
  BY DEF OneChange
<1>1. UNCHANGED tables /\ now' = now + 1
  BY DEF Tick
<1> QED
  BY <1>1, TickFinished

LEMMA CommittingChange ==
  ASSUME TablesOK, Committing
  PROVE  OneChange
<1> SUFFICES ASSUME NEW r, InFlight(r), Finished(r) = LoadNow, reports' = reports,
                    NEW key, key \in Permitted(Finished(r), now)'
             PROVE  key \in AllowedNow \/ key \in AllowedNow' \/ key.module \in inactive \cap retired'
  BY DEF OneChange
<1>1. now' = now
  BY CommittingCommits, CommitLeaves
<1>2. ASSUME Finished(r)' = LoadNow \/ Finished(r)' = LoadNow'
      PROVE  key \in AllowedNow \/ key \in AllowedNow'
  <2>1. CASE Finished(r)' = LoadNow
    BY <1>1, <2>1 DEF Permitted, AllowedNow
  <2>2. CASE Finished(r)' = LoadNow'
    BY <2>2 DEF Permitted, AllowedNow
  <2> QED
    BY <1>2, <2>1, <2>2
<1>3. ASSUME NEW a \in Admin, NEW g \in Offered, ChangeGrant(a, g)
      PROVE  Finished(r)' = LoadNow \/ Finished(r)' = LoadNow'
  BY <1>1, <1>3, CommitFinished DEF ChangeGrant, Finish
<1>4. ASSUME NEW a \in Admin, ChangeSeat(a)
      PROVE  Finished(r)' = LoadNow \/ Finished(r)' = LoadNow'
  BY <1>1, <1>4, CommitFinished DEF ChangeSeat, Finish
<1>5. ASSUME NEW a \in Admin, NEW role \in Role, NEW changes, PatchRole(a, role, changes)
      PROVE  Finished(r)' = LoadNow \/ Finished(r)' = LoadNow'
  BY <1>1, <1>5, CommitFinished DEF PatchRole, Finish
<1>6. ASSUME NEW a \in Admin, NEW changes, PutToolRules(a, changes)
      PROVE  Finished(r)' = LoadNow \/ Finished(r)' = LoadNow'
  BY <1>1, <1>6, CommitFinished DEF PutToolRules, Finish
<1>7. ASSUME NEW a \in Admin, NEW module \in Module, NEW off \in BOOLEAN,
             PutToolStatus(a, module, off)
      PROVE  Finished(r)' = LoadNow \/ Finished(r)' = LoadNow'
  BY <1>1, <1>7, CommitFinished DEF PutToolStatus, Finish
<1>8. ASSUME NEW keys \in SUBSET OurKey, RegisterFeatures(keys)
      PROVE  FALSE
  BY <1>8 DEF RegisterFeatures, TablesOK
<1>9. ASSUME NEW module \in Module, RemoveFeature(module)
      PROVE  key \in AllowedNow \/ key \in AllowedNow' \/ key.module \in inactive \cap retired'
  BY <1>9, RemovalFinished
<1> QED
  BY <1>2, <1>3, <1>4, <1>5, <1>6, <1>7, <1>8, <1>9 DEF Committing, Requested, Administer

\* What a change leaves of the counters.
LEMMA RequestCounts ==
  ASSUME TablesOK, AdminsOK, NEW a \in Admin, Administer(a)
  PROVE  /\ overtaken' \in Nat /\ overtaken <= overtaken'
         /\ overtaken' = overtaken => admin[a].version = version /\ admin[a].grants = grants
         /\ version' \in Nat
         /\ overtaken' = overtaken => version <= version'
         /\ UNCHANGED <<registered, reports, retired>>
<1>1. admin[a] # Null /\ Finish(a)
  BY RequestFinishes
<1>2. /\ overtaken' \in Nat /\ overtaken <= overtaken'
      /\ overtaken' = overtaken => admin[a].version = version /\ admin[a].grants = grants
      /\ UNCHANGED <<registered, reports, retired>>
  BY <1>1 DEF Finish, Overtaken, TablesOK
<1>3. PICK affected : Bump(a, affected)
  BY DEF Administer, ChangeGrant, ChangeSeat, PatchRole, PutToolRules, PutToolStatus
<1>4. version' \in Nat
  BY <1>1, <1>3, BumpTypes
<1>5. overtaken' = overtaken => version <= version'
  BY <1>2, <1>3 DEF Bump, TablesOK
<1> QED
  BY <1>2, <1>4, <1>5

LEMMA ChangeCounts ==
  ASSUME TablesOK, AdminsOK, Tick \/ Committing
  PROVE  /\ Watch /\ Changes \in Nat /\ Changes' = Changes + 1
         /\ \A x : x.pv \in Nat /\ Earlier(x) => Earlier(x)'
         /\ reports \in Nat /\ reports' \in Nat /\ reports <= reports'
         /\ retired \subseteq retired'
         /\ overtaken \in Nat /\ overtaken' \in Nat /\ overtaken <= overtaken'
         /\ version \in Nat /\ version' \in Nat
         /\ overtaken' = overtaken => version <= version'
<1>1. ASSUME version' \in Nat, overtaken' \in Nat, overtaken <= overtaken',
             overtaken' = overtaken => version <= version'
      PROVE  \A x : x.pv \in Nat /\ Earlier(x) => Earlier(x)'
  BY <1>1 DEF Earlier, TablesOK
<1>2. CASE Tick
  <2>1. UNCHANGED <<version, reports, retired, commits, overtaken>> /\ now' = now + 1 /\ Watch
    BY <1>2 DEF Tick, tables, history
  <2> QED
    BY <1>1, <2>1 DEF TablesOK, Changes
<1>3. CASE Committing
  <2>1. Commit
    BY <1>3, CommittingCommits
  <2>2. Watch /\ Changes \in Nat /\ Changes' = Changes + 1
    BY <2>1 DEF Commit, TablesOK, Changes
  <2>3. CASE Requested
    <3>1. /\ overtaken' \in Nat /\ overtaken <= overtaken'
          /\ version' \in Nat
          /\ overtaken' = overtaken => version <= version'
          /\ UNCHANGED <<reports, retired>>
      BY <2>3, RequestCounts DEF Requested
    <3> QED
      BY <1>1, <2>2, <3>1 DEF TablesOK
  <2>4. CASE (\E keys \in SUBSET OurKey : RegisterFeatures(keys))
             \/ \E module \in Module : RemoveFeature(module)
    <3>1. /\ reports' \in {reports, reports + 1} /\ retired \subseteq retired'
          /\ UNCHANGED <<version, overtaken>>
      BY <2>4 DEF RegisterFeatures, RemoveFeature
    <3> QED
      BY <1>1, <2>2, <3>1 DEF TablesOK
  <2> QED
    BY <1>3, <2>3, <2>4 DEF Committing
<1> QED
  BY <1>2, <1>3

LEMMA LoadsStep ==
  ASSUME TablesOK, TablesOK', AdminsOK, ReaderOK, LoadsInv, [Next]_vars
  PROVE  LoadsInv'
<1>1. ASSUME Tick \/ Committing PROVE LoadsInv'
  <2> SUFFICES ASSUME NEW w \in Reader
               PROVE  Reading(reader[w])' /\ (InFlight(reader[w]) => Undisturbed(reader[w]))'
    BY DEF LoadsInv
  <2>1. PICK r, s : r = reader[w] /\ s = reader'[w]
    OBVIOUS
  <2>2. Reading(r) /\ (InFlight(r) => Undisturbed(r))
    BY <2>1 DEF LoadsInv
  <2>3. /\ r.at = "idle" => s = Idle
        /\ s.at = r.at /\ s.data = r.data /\ s.pv = r.pv /\ s.since = r.since
        /\ s.reports = r.reports /\ s.retired = r.retired /\ s.off = r.off /\ DOMAIN s = DOMAIN r
        /\ s.overtaken = r.overtaken
        /\ InFlight(r) => s.right = r.right \cup AllowedNow'
    BY <1>1, <2>1, ChangeCounts, WatchMoves
  <2>4. /\ Changes \in Nat /\ Changes' = Changes + 1
        /\ \A x : x.pv \in Nat /\ Earlier(x) => Earlier(x)'
        /\ reports \in Nat /\ reports' \in Nat /\ reports <= reports'
        /\ retired \subseteq retired'
    BY <1>1, ChangeCounts
  <2>5. r.pv \in Nat
    BY <2>1 DEF ReaderOK, LoadOK
  <2>6. Reading(s)'
    <3>1. Earlier(r)'
      BY <2>2, <2>4, <2>5 DEF Reading
    <3>2. Earlier(s)'
      BY <2>3, <3>1 DEF Earlier
    <3> QED
      BY <2>2, <2>3, <2>4, <3>2 DEF Reading
  <2>7. ASSUME InFlight(s) PROVE Undisturbed(s)'
    <3>1. InFlight(r) /\ Undisturbed(r)
      BY <2>2, <2>3, <2>7 DEF InFlight
    <3>2. s.since # Changes'
      BY <2>2, <2>3, <2>4 DEF Reading
    <3>3. ASSUME Changes' - s.since <= 1, reports' = s.reports,
                 NEW key, key \in Permitted(Finished(s), now)'
          PROVE  key \in s.right \/ key.module \in s.off \cap retired'
      <4>1. r.since = Changes /\ reports' = reports
        BY <2>2, <2>3, <2>4, <3>3 DEF Reading
      <4>2. Finished(r) = LoadNow /\ AllowedNow \subseteq r.right /\ r.off = inactive
        BY <3>1, <4>1 DEF Undisturbed
      <4>3. Finished(s)' = Finished(r)'
        BY <2>3 DEF Finished, Filled, Held, HeldRoles
      <4>4. key \in Permitted(Finished(r), now)'
        BY <3>3, <4>3 DEF Permitted
      <4>5. OneChange
        BY <1>1, TickChange, CommittingChange
      <4> QED
        BY <2>3, <3>1, <4>1, <4>2, <4>4, <4>5 DEF OneChange
    <3> QED
      BY <3>2, <3>3 DEF Undisturbed
  <2> QED
    BY <2>1, <2>6, <2>7 DEF InFlight
<1>2. ASSUME UNCHANGED <<tables, now, history>>, NEW w \in Reader, NEW s,
             reader' = [reader EXCEPT ![w] = s], Reading(s), InFlight(s) => Undisturbed(s)
      PROVE  LoadsInv'
  <2> SUFFICES ASSUME NEW v \in Reader
               PROVE  Reading(reader[v])' /\ (InFlight(reader[v]) => Undisturbed(reader[v]))'
    BY DEF LoadsInv
  <2>1. PICK x : x = reader'[v]
    OBVIOUS
  <2>2. x = IF v = w THEN s ELSE reader[v]
    BY <1>2, <2>1 DEF ReaderOK
  <2>3. Reading(x) /\ (InFlight(x) => Undisturbed(x))
    BY <1>2, <2>2 DEF LoadsInv
  <2>4. Reading(x)' /\ (InFlight(x) => Undisturbed(x)')
    BY <1>2, <2>3, SameTables
  <2> QED
    BY <2>1, <2>4 DEF InFlight
<1>3. Reading(Idle) /\ ~InFlight(Idle)
  BY DEF Reading, Idle, InFlight, Blank, Changes, TablesOK, Earlier
<1>4. ASSUME NEW w \in Reader, Ask(w) PROVE LoadsInv'
  <2> DEFINE s == [Idle EXCEPT !.at = "entitled", !.pv = version, !.since = Changes,
                               !.reports = reports, !.overtaken = overtaken,
                               !.retired = retired, !.off = inactive, !.right = AllowedNow]
  <2>1. reader' = [reader EXCEPT ![w] = s] /\ UNCHANGED <<tables, now, history>>
    BY <1>4 DEF Ask
  <2>2. /\ s.at = "entitled" /\ s.data = Blank /\ s.pv = version /\ s.since = Changes
        /\ s.reports = reports /\ s.retired = retired /\ s.off = inactive
        /\ s.overtaken = overtaken
        /\ s.right = AllowedNow /\ DOMAIN s = DOMAIN Idle
    BY DEF Idle
  <2> HIDE DEF s
  <2>3. Reading(s)
    BY <2>2 DEF Reading, Blank, Changes, TablesOK, Earlier
  <2>4. Undisturbed(s)
    <3>1. Finished(s) = LoadNow
      BY <2>2 DEF Finished
    <3>2. Permitted(Finished(s), now) = AllowedNow
      BY <3>1 DEF AllowedNow
    <3> QED
      BY <2>2, <3>1, <3>2 DEF Undisturbed
  <2> QED
    BY <1>2, <2>1, <2>3, <2>4
<1>5. ASSUME NEW w \in Reader, Load(w) PROVE LoadsInv'
  <2>1. PICK r : r = reader[w]
    OBVIOUS
  <2>2. PICK s : s = IF r.at = "entitled" /\ ~Entitled THEN [r EXCEPT !.at = "loaded"]
                     ELSE [r EXCEPT !.at = After[r.at], !.data = Fetched(r.data, r.at)]
    OBVIOUS
  <2>3. /\ r.at \in DOMAIN After /\ reader' = [reader EXCEPT ![w] = s]
        /\ UNCHANGED <<tables, now, history>>
    BY <1>5, <2>1, <2>2 DEF Load
  <2>4. Reading(r) /\ LoadOK(r) /\ (InFlight(r) => Undisturbed(r))
    BY <2>1 DEF LoadsInv, ReaderOK
  <2>5. InFlight(r)
    BY <2>3 DEF InFlight, After
  <2>6. Reading(s) /\ InFlight(s) /\ Finished(s) = Finished(r)
        /\ s.since = r.since /\ s.reports = r.reports /\ s.off = r.off /\ s.right = r.right
    BY <2>2, <2>3, <2>4, LoadMoves
  <2>7. Undisturbed(s)
    BY <2>4, <2>5, <2>6 DEF Undisturbed
  <2> QED
    BY <1>2, <2>3, <2>6, <2>7
<1>6. ASSUME NEW w \in Reader, Answer(w) \/ Mint(w) PROVE LoadsInv'
  <2>1. reader' = [reader EXCEPT ![w] = Idle] /\ UNCHANGED <<tables, now, history>>
    BY <1>6 DEF Answer, Mint
  <2> QED
    BY <1>2, <1>3, <2>1
<1>7. CASE UNCHANGED <<tables, now, reader, tokens, history>>
  <2> SUFFICES ASSUME NEW v \in Reader
               PROVE  Reading(reader[v])' /\ (InFlight(reader[v]) => Undisturbed(reader[v]))'
    BY DEF LoadsInv
  <2>1. PICK x : x = reader[v]
    OBVIOUS
  <2>2. x = reader'[v] /\ UNCHANGED <<tables, now, history>>
    BY <1>7, <2>1
  <2>3. Reading(x) /\ (InFlight(x) => Undisturbed(x))
    BY <2>1 DEF LoadsInv
  <2>4. Reading(x)' /\ (InFlight(x) => Undisturbed(x)')
    BY <2>2, <2>3, SameTables
  <2> QED
    BY <2>2, <2>4 DEF InFlight
<1> QED
  BY <1>1, <1>4, <1>5, <1>6, <1>7, NextIs

LEMMA LoadsInvRight == ASSUME TypeInv, LoadsInv PROVE AllowedWasRight
<1> SUFFICES ASSUME NEW w \in Reader, reader[w].at = "loaded",
                    Changes - reader[w].since <= 1, reports = reader[w].reports,
                    NEW key \in Permitted(reader[w].data, now)
             PROVE  key \in reader[w].right \/ key.module \in reader[w].off \cap retired
  BY DEF AllowedWasRight
<1> DEFINE r == reader[w]
<1>1. Reading(r) /\ Undisturbed(r) /\ LoadOK(r)
  BY DEF LoadsInv, InFlight, TypeInv, ReaderOK
<1>2. Finished(r) = r.data
  <2>1. CASE ~r.data.entitled
    BY <1>1, <2>1 DEF Reading, Finished
  <2>2. CASE r.data.entitled
    <3>1. Finished(r) = Filled(r)
      BY <2>2 DEF Finished
    <3>2. r.at = "loaded" /\ r.at \notin GrantsUnread /\ r.at \notin RulesUnread /\ r.at \notin GridUnread
          /\ r.at \notin RegistryUnread /\ r.at \notin StatusUnread
      BY DEF GrantsUnread, RulesUnread, GridUnread, RegistryUnread, StatusUnread
    <3>3. HeldRoles(r) = RolesOf(r.data) /\ Held(r) = r.data.grants
      BY <3>2 DEF HeldRoles, Held, RolesOf
    <3>4. /\ r.data.app = APP /\ r.data.org = ORG /\ r.data.entitled = TRUE /\ r.data.until = UNTIL
          /\ r.data.configuring = Configuring \cap RolesOf(r.data)
      BY <1>1, <2>2, <3>2 DEF LoadOK, Input, Reading
    <3>5. Whole(r.data)
      BY <1>1 DEF LoadOK
    <3> HIDE DEF r
    <3>6. Filled(r) = r.data
      BY <3>2, <3>3, <3>4, <3>5 DEF Filled, Whole
    <3> QED
      BY <3>1, <3>6
  <2> QED
    BY <2>1, <2>2
<1> QED
  BY <1>1, <1>2 DEF Undisturbed

\* permissions.load: for any instance, AllowedWasRight: one change between its six
\* statements never gives somebody what was refused them both before it and after
\* it, a switched-off feature that is removed meanwhile aside.
THEOREM AllowedRight == Spec => []AllowedWasRight
<1>1. Init => TypeInv /\ LoadsInv
  BY InitTypes, LoadsInit
<1>2. TypeInv /\ LoadsInv /\ [Next]_vars => TypeInv' /\ LoadsInv'
  BY TablesStep, AdminsStep, ReaderStep, TokensStep, LoadsStep DEF TypeInv
<1>3. TypeInv /\ LoadsInv => AllowedWasRight
  BY LoadsInvRight
<1> QED
  BY <1>1, <1>2, <1>3, PTL DEF Spec

-----------------------------------------------------------------------------
(* Of the version, and the tokens that bear it.                            *)

LEMMA TellsOf ==
  ASSUME NEW d, NEW e, NEW at, Tells(d, at),
         e.app = d.app, e.org = d.org, e.entitled = d.entitled, e.until = d.until,
         e.grants = d.grants, e.rules = d.rules, e.grid = d.grid, e.registered = d.registered,
         e.inactive = d.inactive, e.configuring = d.configuring
  PROVE  Tells(e, at)
<1>1. RolesOf(e) = RolesOf(d)
  BY DEF RolesOf
<1> QED
  BY <1>1 DEF Tells

\* What is read tells what there is: the next statement adds to it.
LEMMA TellsMore ==
  ASSUME NEW d, Whole(d), NEW at \in DOMAIN After \ {"entitled"}, Tells(d, at)
  PROVE  Tells(Fetched(d, at), After[at])
<1> DEFINE e == Fetched(d, at)
<1>1. /\ d.app = APP /\ d.org = ORG /\ d.entitled /\ d.until = UNTIL /\ seat
  BY DEF Tells
<1>2. CASE at = "grants"
  <2>1. e = [d EXCEPT !.grants = Bearing] /\ After[at] = "rules"
    BY <1>2 DEF Fetched, After
  <2>2. e.grants = Bearing /\ e.app = d.app /\ e.org = d.org /\ e.entitled = d.entitled
        /\ e.until = d.until
    BY <2>1 DEF Whole
  <2>3. Bearing \subseteq grants /\ \A g \in Bearing : InForce(g, now)
    BY DEF Bearing
  <2> HIDE DEF e
  <2> QED
    BY <1>1, <2>1, <2>2, <2>3 DEF Tells, GrantsUnread, RulesUnread, GridUnread, RegistryUnread,
                                  StatusUnread, e
<1>3. CASE at = "rules"
  <2>1. e = [d EXCEPT !.rules = RulesFor(RolesOf(d))] /\ After[at] = "grid"
    BY <1>3 DEF Fetched, After
  <2>2. /\ e.rules = RulesFor(RolesOf(d)) /\ e.app = d.app /\ e.org = d.org
        /\ e.entitled = d.entitled /\ e.until = d.until /\ e.grants = d.grants
    BY <2>1 DEF Whole
  <2>3. RolesOf(e) = RolesOf(d)
    BY <2>2 DEF RolesOf
  <2> HIDE DEF e
  <2> QED
    BY <1>1, <1>3, <2>1, <2>2, <2>3 DEF Tells, GrantsUnread, RulesUnread, GridUnread,
                                        RegistryUnread, StatusUnread, e
<1>4. CASE at = "grid"
  <2>1. e = [d EXCEPT !.grid = CellsFor(RolesOf(d))] /\ After[at] = "registered"
    BY <1>4 DEF Fetched, After
  <2>2. /\ e.grid = CellsFor(RolesOf(d)) /\ e.app = d.app /\ e.org = d.org
        /\ e.entitled = d.entitled /\ e.until = d.until /\ e.grants = d.grants
        /\ e.rules = d.rules
    BY <2>1 DEF Whole
  <2>3. RolesOf(e) = RolesOf(d)
    BY <2>2 DEF RolesOf
  <2> HIDE DEF e
  <2> QED
    BY <1>1, <1>4, <2>1, <2>2, <2>3 DEF Tells, GrantsUnread, RulesUnread, GridUnread,
                                        RegistryUnread, StatusUnread, e
<1>5. CASE at = "registered"
  <2>1. e = [d EXCEPT !.registered = registered, !.configuring = Configuring \cap RolesOf(d)]
        /\ After[at] = "inactive"
    BY <1>5 DEF Fetched, After
  <2>2. /\ e.registered = registered /\ e.configuring = Configuring \cap RolesOf(d)
        /\ e.app = d.app /\ e.org = d.org
        /\ e.entitled = d.entitled /\ e.until = d.until /\ e.grants = d.grants
        /\ e.rules = d.rules /\ e.grid = d.grid
    BY <2>1 DEF Whole
  <2>3. RolesOf(e) = RolesOf(d)
    BY <2>2 DEF RolesOf
  <2> HIDE DEF e
  <2> QED
    BY <1>1, <1>5, <2>1, <2>2, <2>3 DEF Tells, GrantsUnread, RulesUnread, GridUnread,
                                        RegistryUnread, StatusUnread, e
<1>6. CASE at = "inactive"
  <2>1. e = [d EXCEPT !.inactive = inactive] /\ After[at] = "loaded"
    BY <1>6 DEF Fetched, After
  <2>2. /\ e.inactive = inactive /\ e.registered = d.registered /\ e.configuring = d.configuring
        /\ e.app = d.app /\ e.org = d.org
        /\ e.entitled = d.entitled /\ e.until = d.until /\ e.grants = d.grants
        /\ e.rules = d.rules /\ e.grid = d.grid
    BY <2>1 DEF Whole
  <2>3. RolesOf(e) = RolesOf(d)
    BY <2>2 DEF RolesOf
  <2> HIDE DEF e
  <2> QED
    BY <1>1, <1>6, <2>1, <2>2, <2>3 DEF Tells, GrantsUnread, RulesUnread, GridUnread,
                                        RegistryUnread, StatusUnread, e
<1> QED
  BY <1>2, <1>3, <1>4, <1>5, <1>6 DEF After

\* A commit that does not move the version, and is no report or removal, leaves
\* what was read as true as it was.
LEMMA CommittingTells ==
  ASSUME TablesOK, AdminsOK, Committing, version' = version, reports' = reports,
         retired' = retired, overtaken' = overtaken,
         \A key \in registered : key.module \notin retired,
         NEW d, NEW at, Tells(d, at)
  PROVE  Tells(d, at)'
<1>0. version # version + 1 /\ reports # reports + 1
  BY DEF TablesOK
<1>1. now' = now
  BY CommittingCommits, CommitLeaves
<1> DEFINE Fresh(a) == /\ admin[a].version = version /\ admin[a].grants = grants
                       /\ registered' = registered
<1>12. ASSUME NEW a \in Admin, Administer(a) PROVE Fresh(a)
  BY <1>12, RequestCounts
<1> HIDE DEF Fresh
<1>13. ASSUME NEW a \in Admin, Fresh(a), NEW affected, Bump(a, affected) PROVE ~affected
  BY <1>0, <1>13 DEF Bump, Fresh
<1>2. ASSUME NEW a \in Admin, Fresh(a), NEW g \in Offered, ChangeGrant(a, g) PROVE FALSE
  BY <1>2, <1>13 DEF ChangeGrant
<1>3. ASSUME NEW a \in Admin, Fresh(a), ChangeSeat(a) PROVE FALSE
  BY <1>3, <1>13 DEF ChangeSeat
<1>4. ASSUME NEW keys \in SUBSET OurKey, RegisterFeatures(keys) PROVE FALSE
  BY <1>0, <1>4 DEF RegisterFeatures
<1>5. ASSUME NEW module \in Module, RemoveFeature(module) PROVE FALSE
  BY <1>5 DEF RemoveFeature, HasTool
<1>6. at \notin RulesUnread => at \notin GrantsUnread
  BY DEF RulesUnread
<1>7. at \notin GridUnread => at \notin GrantsUnread
  BY DEF RulesUnread, GridUnread
<1>8. ASSUME at \notin GrantsUnread, NEW role \in RolesOf(d) PROVE \E g \in grants : g.role = role
  BY <1>8 DEF Tells, RolesOf
<1>9. ASSUME NEW a \in Admin, Fresh(a), NEW role \in Role, NEW changes, PatchRole(a, role, changes)
      PROVE  Tells(d, at)'
  <2>0. PICK sent : sent = Differing(admin[a].rules, changes)
    OBVIOUS
  <2>1. ~\E g \in grants : g.role = role
    BY <1>9, <1>13 DEF PatchRole, Holds, Fresh
  <2>2. /\ rules' = Written(rules, sent)
        /\ \A f \in DOMAIN sent : f[1] = role
        /\ UNCHANGED <<seat, grants, grid, registered, inactive>>
    BY <1>9, <2>0 DEF PatchRole, Fresh, Differing
  <2>3. ASSUME at \notin RulesUnread PROVE d.rules = RulesFor(RolesOf(d))'
    <3>1. role \notin RolesOf(d)
      BY <1>6, <1>8, <2>1, <2>3
    <3>2. \A f : f[1] \in RolesOf(d) => f \notin DOMAIN sent
      BY <2>2, <3>1
    <3>3. \A f : f[1] \in RolesOf(d) => (f \in DOMAIN rules' <=> f \in DOMAIN rules)
      BY <2>2, <3>2 DEF Written
    <3>4. \A f \in DOMAIN rules' : f[1] \in RolesOf(d) => rules'[f] = rules[f]
      BY <2>2, <3>2 DEF Written
    <3>5. {f \in DOMAIN rules' : f[1] \in RolesOf(d)} = {f \in DOMAIN rules : f[1] \in RolesOf(d)}
      BY <3>3
    <3>6. d.rules = RulesFor(RolesOf(d))
      BY <2>3 DEF Tells
    <3>7. RulesFor(RolesOf(d))' = RulesFor(RolesOf(d))
      BY <3>4, <3>5 DEF RulesFor, RolesOf
    <3> QED
      BY <3>6, <3>7
  <2>4. Bearing' = Bearing /\ \A roles : CellsFor(roles)' = CellsFor(roles)
    BY <1>1, <2>2 DEF Bearing, CellsFor
  <2> QED
    BY <1>1, <2>2, <2>3, <2>4 DEF Tells, RolesOf
<1>10. ASSUME NEW a \in Admin, Fresh(a), NEW changes, PutToolRules(a, changes)
       PROVE  Tells(d, at)'
  <2>0. PICK sent : sent = Differing(admin[a].grid, changes)
    OBVIOUS
  <2>1. \A c \in DOMAIN sent : ~\E g \in grants : g.role = c[2]
    <3>1. \A c \in DOMAIN changes :
            Holds(a, c[2]) => changes[c] = Null /\ c \notin DOMAIN admin[a].grid
      BY <1>10, <1>13 DEF PutToolRules
    <3>2. \A c \in DOMAIN sent : ~Holds(a, c[2])
      BY <2>0, <3>1 DEF Differing
    <3> QED
      BY <1>10, <3>2 DEF Holds, Fresh
  <2>2. /\ grid' = Written(grid, sent)
        /\ UNCHANGED <<seat, grants, rules, registered, inactive>>
    BY <1>10, <2>0 DEF PutToolRules, Fresh
  <2>3. ASSUME at \notin GridUnread PROVE d.grid = CellsFor(RolesOf(d))'
    <3>1. \A c \in DOMAIN sent : c[2] \notin RolesOf(d)
      BY <1>7, <1>8, <2>1, <2>3
    <3>2. \A c : c[2] \in RolesOf(d) => (c \in DOMAIN grid' <=> c \in DOMAIN grid)
      BY <2>2, <3>1 DEF Written
    <3>3. \A c \in DOMAIN grid' : c[2] \in RolesOf(d) => grid'[c] = grid[c]
      BY <2>2, <3>1 DEF Written
    <3>4. {c \in DOMAIN grid' : c[2] \in RolesOf(d)} = {c \in DOMAIN grid : c[2] \in RolesOf(d)}
      BY <3>2
    <3>5. d.grid = CellsFor(RolesOf(d))
      BY <2>3 DEF Tells
    <3>6. CellsFor(RolesOf(d))' = CellsFor(RolesOf(d))
      BY <3>3, <3>4 DEF CellsFor, RolesOf
    <3> QED
      BY <3>5, <3>6
  <2>4. Bearing' = Bearing /\ \A roles : RulesFor(roles)' = RulesFor(roles)
    BY <1>1, <2>2 DEF Bearing, RulesFor
  <2> QED
    BY <1>1, <2>2, <2>3, <2>4 DEF Tells, RolesOf
<1>11. ASSUME NEW a \in Admin, Fresh(a), NEW module \in Module, NEW off \in BOOLEAN,
              PutToolStatus(a, module, off)
       PROVE  Tells(d, at)'
  <2>1. inactive' = inactive \/ grants = {}
    <3>1. off = (module \in admin[a].inactive) \/ admin[a].grants = {}
      BY <1>11, <1>13 DEF PutToolStatus
    <3> QED
      BY <1>11, <3>1 DEF PutToolStatus, Fresh
  <2>2. UNCHANGED <<seat, grants, rules, grid, registered>>
    BY <1>11 DEF PutToolStatus, Fresh
  <2>3. /\ Bearing' = Bearing /\ \A roles : RulesFor(roles)' = RulesFor(roles)
        /\ \A roles : CellsFor(roles)' = CellsFor(roles)
    BY <1>1, <2>2 DEF Bearing, RulesFor, CellsFor
  <2> QED
    BY <1>1, <2>1, <2>2, <2>3 DEF Tells, RolesOf
<1> QED
  BY <1>2, <1>3, <1>4, <1>5, <1>9, <1>10, <1>11, <1>12 DEF Committing, Requested, Administer

LEMMA VersionsInit == ASSUME Init PROVE VersionsInv
BY DEF Init, VersionsInv, Idle

LEMMA RegisteredStay ==
  ASSUME TablesOK, AdminsOK, VersionsInv, [Next]_vars
  PROVE  \A key \in registered' : key.module \notin retired'
<1> USE DEF VersionsInv
<1>1. CASE Tick
  BY <1>1 DEF Tick, tables
<1>2. ASSUME NEW w \in Reader, Ask(w) \/ Load(w) \/ Answer(w) \/ Mint(w)
      PROVE  \A key \in registered' : key.module \notin retired'
  BY <1>2 DEF Ask, Load, Answer, Mint, tables
<1>3. ASSUME NEW keys \in SUBSET OurKey, RegisterFeatures(keys)
      PROVE  \A key \in registered' : key.module \notin retired'
  BY <1>3 DEF RegisterFeatures
<1>4. ASSUME NEW module \in Module, RemoveFeature(module)
      PROVE  \A key \in registered' : key.module \notin retired'
  BY <1>4 DEF RemoveFeature
<1>5. CASE UNCHANGED <<registered, retired>>
  BY <1>5
<1> QED
  BY <1>1, <1>2, <1>3, <1>4, <1>5, NextIs, RequestCounts DEF Committing, Requested, tables

\* A change that leaves the version, reports and removals alone leaves what was read true.
LEMMA ChangeTells ==
  ASSUME TablesOK, AdminsOK, VersionsInv, Tick \/ Committing,
         NEW x, x.pv \in Nat, Earlier(x), x.reports \in Nat, x.reports <= reports,
         x.retired \subseteq retired, SinceThen(x)',
         NEW d, NEW at, SinceThen(x) => Tells(d, at)
  PROVE  Tells(d, at)'
<1>1. overtaken' = overtaken /\ reports' = reports /\ retired' = retired
  BY ChangeCounts DEF SinceThen, Earlier
<1>5. version' = version
  BY <1>1, ChangeCounts DEF SinceThen, Earlier
<1>2. Tells(d, at)
  BY <1>1, <1>5 DEF SinceThen
<1>3. CASE Tick
  <2>1. UNCHANGED tables /\ now' = now + 1
    BY <1>3 DEF Tick
  <2> QED
    BY <1>2, <2>1, TickTells
<1>4. CASE Committing
  BY <1>1, <1>2, <1>4, <1>5, CommittingTells DEF VersionsInv
<1> QED
  BY <1>3, <1>4

LEMMA CarriedTells ==
  ASSUME TablesOK, NEW d, Input(d), Whole(d), Tells(d, "loaded")
  PROVE  Tells(FromClaims(ToClaims(d)), "loaded")
<1> DEFINE f == FromClaims(ToClaims(d))
<1>1. d.rules = RulesFor(RolesOf(d)) /\ d.grid = CellsFor(RolesOf(d))
  BY DEF Tells, GrantsUnread, RulesUnread, GridUnread
<1>2. d.rules = [e \in DOMAIN d.rules |-> d.rules[e]] /\ d.grid = [c \in DOMAIN d.grid |-> d.grid[c]]
  BY <1>1 DEF RulesFor, CellsFor
<1>3. f.rules = d.rules
  BY <1>2, RulesCarried DEF Input, Rows
<1>4. f.grid = d.grid
  BY <1>2, GridCarried DEF Input, Rows
<1>5. /\ f.app = d.app /\ f.org = d.org /\ f.entitled = d.entitled /\ f.until = d.until
      /\ f.grants = d.grants /\ f.registered = d.registered
      /\ f.inactive = d.inactive /\ f.configuring = d.configuring
  BY DEF FromClaims, ToClaims
<1> HIDE DEF f
<1>6. Tells(f, "loaded")
  BY <1>3, <1>4, <1>5, TellsOf
<1> QED
  BY <1>6 DEF f

TokenTells(t) ==
  /\ Earlier(t) /\ t.reports \in Nat /\ t.reports <= reports /\ t.retired \subseteq retired
  /\ SinceThen(t) => Tells(FromClaims(t.claims), "loaded")

LoadTells(r) ==
  r.at \notin {"idle", "entitled"} /\ r.data.entitled /\ SinceThen(r) => Tells(r.data, r.at)

LEMMA VersionsAre ==
  VersionsInv <=> /\ \A key \in registered : key.module \notin retired
                  /\ \A w \in Reader : LoadTells(reader[w])
                  /\ \A t \in tokens : TokenTells(t)
BY DEF VersionsInv, LoadTells, TokenTells

LEMMA VersionsNext ==
  (VersionsInv <=> /\ \A key \in registered : key.module \notin retired
                   /\ \A w \in Reader : LoadTells(reader[w])
                   /\ \A t \in tokens : TokenTells(t))'
BY VersionsAre, PTL

LEMMA SameTells ==
  ASSUME UNCHANGED <<tables, now, history>>
  PROVE  /\ \A d, at : Tells(d, at) => Tells(d, at)'
         /\ \A r : LoadTells(r) => LoadTells(r)'
         /\ \A t : TokenTells(t) => TokenTells(t)'
<1>1. UNCHANGED <<seat, grants, rules, grid, registered, inactive, retired, version,
                  reports, overtaken>>
  BY DEF tables, history
<1>2. \A d, at : Tells(d, at) => Tells(d, at)'
  BY <1>1 DEF Tells, Bearing, RulesFor, CellsFor, RolesOf
<1>3. \A x : SinceThen(x)' <=> SinceThen(x)
  BY <1>1 DEF SinceThen
<1>4. \A r : LoadTells(r) => LoadTells(r)'
  BY <1>2, <1>3 DEF LoadTells
<1>5. \A t : TokenTells(t) => TokenTells(t)'
  BY <1>1, <1>2, <1>3 DEF TokenTells, Earlier
<1> QED
  BY <1>2, <1>4, <1>5

LEMMA VersionsStep ==
  ASSUME TypeInv, LoadsInv, VersionsInv, [Next]_vars
  PROVE  VersionsInv'
<1>0. TablesOK /\ AdminsOK /\ ReaderOK /\ TokensOK
  BY DEF TypeInv
<1>1. \A key \in registered' : key.module \notin retired'
  BY <1>0, RegisteredStay
<1>2. /\ \A w \in Reader : LoadTells(reader[w]) /\ Reading(reader[w]) /\ LoadOK(reader[w])
      /\ \A t \in tokens : TokenTells(t) /\ TokenOK(t)
  BY <1>0, VersionsAre DEF LoadsInv, ReaderOK, TokensOK
<1>3. ASSUME Tick \/ Committing PROVE VersionsInv'
  <2>1. ASSUME NEW w \in Reader PROVE LoadTells(reader[w])'
    <3>1. PICK r, s : r = reader[w] /\ s = reader'[w]
      OBVIOUS
    <3>2. /\ s.at = r.at /\ s.data = r.data /\ s.pv = r.pv /\ s.reports = r.reports
          /\ s.retired = r.retired /\ s.overtaken = r.overtaken
      BY <1>0, <1>3, <3>1, ChangeCounts, WatchMoves
    <3>3. LoadTells(r) /\ Reading(r) /\ r.pv \in Nat
      BY <1>2, <3>1 DEF LoadOK
    <3>4. Earlier(r) /\ r.reports \in Nat /\ r.reports <= reports /\ r.retired \subseteq retired
      BY <3>3 DEF Reading
    <3>5. ASSUME s.at \notin {"idle", "entitled"}, s.data.entitled, SinceThen(s)'
          PROVE  Tells(s.data, s.at)'
      <4>1. SinceThen(r)'
        BY <3>2, <3>5 DEF SinceThen
      <4>2. PICK d, at : d = r.data /\ at = r.at
        OBVIOUS
      <4>3. SinceThen(r) => Tells(d, at)
        BY <3>2, <3>3, <3>5, <4>2 DEF LoadTells
      <4>4. Tells(d, at)'
        BY <1>0, <1>3, <3>3, <3>4, <4>1, <4>3, ChangeTells
      <4> QED
        BY <3>2, <4>2, <4>4
    <3>6. LoadTells(s)'
      BY <3>5 DEF LoadTells
    <3> QED
      BY <3>1, <3>6
  <2>2. UNCHANGED tokens
    BY <1>3, CommittingCommits, CommitLeaves DEF Tick
  <2>3. ASSUME NEW t \in tokens PROVE TokenTells(t)'
    <3>1. /\ t.pv \in Nat /\ Earlier(t) /\ t.reports \in Nat /\ t.reports <= reports
          /\ t.retired \subseteq retired
          /\ SinceThen(t) => Tells(FromClaims(t.claims), "loaded")
      BY <1>2 DEF TokenOK, TokenTells
    <3>2. Earlier(t)' /\ t.reports <= reports' /\ t.retired \subseteq retired'
      BY <1>0, <1>3, <3>1, ChangeCounts
    <3>3. ASSUME SinceThen(t)' PROVE Tells(FromClaims(t.claims), "loaded")'
      <4>1. PICK d : d = FromClaims(t.claims)
        OBVIOUS
      <4>2. Tells(d, "loaded")'
        BY <1>0, <1>3, <3>1, <3>3, <4>1, ChangeTells
      <4> QED
        BY <4>1, <4>2
    <3> QED
      BY <3>1, <3>2, <3>3 DEF TokenTells
  <2>4. \A t \in tokens' : TokenTells(t)'
    BY <2>2, <2>3
  <2> QED
    BY <1>1, <2>1, <2>4, VersionsNext
<1>4. ASSUME UNCHANGED <<tables, now, history>>, NEW w \in Reader, NEW s,
             reader' = [reader EXCEPT ![w] = s], LoadTells(s),
             \A t \in tokens' : t \in tokens \/ TokenTells(t)
      PROVE  VersionsInv'
  <2>1. ASSUME NEW v \in Reader PROVE LoadTells(reader[v])'
    <3>1. PICK x : x = reader'[v]
      OBVIOUS
    <3>2. x = IF v = w THEN s ELSE reader[v]
      BY <1>0, <1>4, <3>1 DEF ReaderOK
    <3>3. LoadTells(x)
      BY <1>2, <1>4, <3>2
    <3>4. LoadTells(x)'
      BY <1>4, <3>3, SameTells
    <3> QED
      BY <3>1, <3>4
  <2>2. \A t \in tokens' : TokenTells(t)'
    BY <1>2, <1>4, SameTells
  <2> QED
    BY <1>1, <2>1, <2>2, VersionsNext
<1>5. LoadTells(Idle)
  BY DEF LoadTells, Idle
<1>6. ASSUME NEW w \in Reader, Ask(w) PROVE VersionsInv'
  <2> DEFINE s == [Idle EXCEPT !.at = "entitled", !.pv = version, !.since = Changes,
                               !.reports = reports, !.overtaken = overtaken,
                               !.retired = retired, !.off = inactive, !.right = AllowedNow]
  <2>1. reader' = [reader EXCEPT ![w] = s] /\ UNCHANGED <<tables, now, tokens, history>>
    BY <1>6 DEF Ask
  <2>2. s.at = "entitled"
    BY DEF Idle
  <2> HIDE DEF s
  <2>3. LoadTells(s)
    BY <2>2 DEF LoadTells
  <2>4. \A t \in tokens' : t \in tokens \/ TokenTells(t)
    BY <2>1
  <2> QED
    BY <1>4, <2>1, <2>3, <2>4
<1>7. ASSUME NEW w \in Reader, Load(w) PROVE VersionsInv'
  <2>1. PICK r : r = reader[w]
    OBVIOUS
  <2>2. PICK s : s = IF r.at = "entitled" /\ ~Entitled THEN [r EXCEPT !.at = "loaded"]
                     ELSE [r EXCEPT !.at = After[r.at], !.data = Fetched(r.data, r.at)]
    OBVIOUS
  <2>3. /\ r.at \in DOMAIN After /\ reader' = [reader EXCEPT ![w] = s]
        /\ UNCHANGED <<tables, now, tokens, history>>
    BY <1>7, <2>1, <2>2 DEF Load
  <2>4. Reading(r) /\ LoadOK(r) /\ LoadTells(r)
    BY <1>2, <2>1
  <2>5. s.pv = r.pv /\ s.retired = r.retired /\ s.reports = r.reports
        /\ s.overtaken = r.overtaken
    BY <1>0, <2>2, <2>3, <2>4, LoadMoves
  <2>6. DOMAIN r = {"at", "data", "pv", "since", "reports", "overtaken", "retired", "off", "right"}
    BY <2>4 DEF Reading, Idle
  <2>7. ASSUME r.at = "entitled", ~Entitled PROVE LoadTells(s)
    <3>1. s.data = Blank
      BY <2>2, <2>4, <2>6, <2>7 DEF Reading
    <3> QED
      BY <3>1 DEF LoadTells, Blank
  <2>8. ASSUME r.at = "entitled", Entitled PROVE LoadTells(s)
    <3>1. s.at = After["entitled"] /\ s.data = Fetched(Blank, "entitled")
      BY <2>2, <2>4, <2>6, <2>8 DEF Reading
    <3>2. s.at = "grants" /\ s.data = [Blank EXCEPT !.entitled = TRUE, !.until = UNTIL]
      BY <3>1 DEF After, Fetched
    <3>3. s.data.app = APP /\ s.data.org = ORG /\ s.data.entitled = TRUE /\ s.data.until = UNTIL
      BY <3>2 DEF Blank
    <3>4. seat
      BY <2>8 DEF Entitled
    <3> QED
      BY <3>2, <3>3, <3>4 DEF LoadTells, Tells, GrantsUnread, RulesUnread, GridUnread,
                              RegistryUnread, StatusUnread
  <2>9. ASSUME r.at # "entitled" PROVE LoadTells(s)
    <3>1. PICK d : d = r.data
      OBVIOUS
    <3>2. s.at = After[r.at] /\ s.data = Fetched(d, r.at)
      BY <2>2, <2>6, <2>9, <3>1
    <3>3. d.entitled /\ r.at # "idle"
      BY <2>3, <2>4, <2>9, <3>1 DEF Reading, After
    <3>4. ASSUME SinceThen(s) PROVE Tells(s.data, s.at)
      <4>1. Tells(d, r.at)
        BY <2>4, <2>5, <2>9, <3>1, <3>3, <3>4 DEF LoadTells, SinceThen
      <4>2. Whole(d)
        BY <2>4, <3>1 DEF LoadOK
      <4> QED
        BY <2>3, <2>9, <3>2, <4>1, <4>2, TellsMore
    <3> QED
      BY <3>4 DEF LoadTells
  <2>10. LoadTells(s)
    BY <2>7, <2>8, <2>9
  <2>11. \A t \in tokens' : t \in tokens \/ TokenTells(t)
    BY <2>3
  <2> QED
    BY <1>4, <2>3, <2>10, <2>11
<1>8. ASSUME NEW w \in Reader, Answer(w) PROVE VersionsInv'
  <2>1. /\ reader' = [reader EXCEPT ![w] = Idle] /\ UNCHANGED <<tables, now, history>>
        /\ \A t \in tokens' : t \in tokens \/ TokenTells(t)
    BY <1>8 DEF Answer
  <2> QED
    BY <1>4, <1>5, <2>1
<1>9. ASSUME NEW w \in Reader, Mint(w) PROVE VersionsInv'
  <2>1. PICK r : r = reader[w]
    OBVIOUS
  <2>2. PICK t : t = [claims |-> ToClaims(r.data), pv |-> r.pv, exp |-> Expiry(r.data),
                      reports |-> r.reports, retired |-> r.retired, overtaken |-> r.overtaken]
    OBVIOUS
  <2>3. /\ r.at = "loaded" /\ r.data.entitled
        /\ tokens' = tokens \cup {t} /\ reader' = [reader EXCEPT ![w] = Idle]
        /\ UNCHANGED <<tables, now, history>>
    BY <1>9, <2>1, <2>2 DEF Mint
  <2>4. Reading(r) /\ LoadOK(r) /\ LoadTells(r)
    BY <1>2, <2>1
  <2>5. t.pv = r.pv /\ t.reports = r.reports /\ t.retired = r.retired /\ t.claims = ToClaims(r.data)
        /\ t.overtaken = r.overtaken
    BY <2>2
  <2>6. ASSUME SinceThen(t) PROVE Tells(FromClaims(t.claims), "loaded")
    <3>1. Tells(r.data, "loaded")
      BY <2>3, <2>4, <2>5, <2>6 DEF LoadTells, SinceThen
    <3>2. Input(r.data) /\ Whole(r.data)
      BY <2>4 DEF LoadOK
    <3> QED
      BY <1>0, <2>5, <3>1, <3>2, CarriedTells
  <2>7. TokenTells(t)
    BY <2>4, <2>5, <2>6 DEF Reading, TokenTells, Earlier
  <2>8. \A x \in tokens' : x \in tokens \/ TokenTells(x)
    BY <2>3, <2>7
  <2> QED
    BY <1>4, <1>5, <2>3, <2>8
<1>10. CASE UNCHANGED <<tables, now, reader, tokens, history>>
  <2>1. UNCHANGED <<tables, now, history, reader, tokens>>
    BY <1>10
  <2>2. ASSUME NEW v \in Reader PROVE LoadTells(reader[v])'
    <3>1. PICK x : x = reader'[v]
      OBVIOUS
    <3>2. LoadTells(x)'
      BY <1>2, <2>1, <3>1, SameTells
    <3> QED
      BY <3>1, <3>2
  <2>3. \A t \in tokens' : TokenTells(t)'
    BY <1>2, <2>1, SameTells
  <2> QED
    BY <1>1, <2>2, <2>3, VersionsNext
<1> QED
  BY <1>3, <1>6, <1>7, <1>8, <1>9, <1>10, NextIs

\* tokens.py:55: whatever administrators do, in however many requests at once, a
\* token of the current version answers as Core does, for any roles, features and
\* lifetimes of tokens: until a request commits that read the person's grants or
\* version before another's commit changed them (permissions.py:323-326), and what
\* reports add and removals take away aside.
THEOREM VersionTells == Spec => []VersionTellsAdminChanges
<1>1. Init => TypeInv /\ LoadsInv /\ VersionsInv
  BY InitTypes, LoadsInit, VersionsInit
<1>2. TypeInv /\ LoadsInv /\ VersionsInv /\ [Next]_vars => TypeInv' /\ LoadsInv' /\ VersionsInv'
  BY TablesStep, AdminsStep, ReaderStep, TokensStep, LoadsStep, VersionsStep DEF TypeInv
<1>3. TypeInv /\ VersionsInv => VersionTellsAdminChanges
  <2> SUFFICES ASSUME TypeInv, VersionsInv, NEW t \in tokens,
                      t.pv = version, t.reports = reports, t.retired = retired,
                      t.overtaken = overtaken
               PROVE  Accepted(t) = AllowedNow
    BY DEF VersionTellsAdminChanges
  <2>1. TablesOK /\ Tells(FromClaims(t.claims), "loaded")
    BY DEF TypeInv, VersionsInv, SinceThen
  <2> QED
    BY <2>1, TellsAllowed DEF Accepted
<1> QED
  BY <1>1, <1>2, <1>3, PTL DEF Spec
=============================================================================
