-------------------------------- MODULE Gate --------------------------------
(***************************************************************************)
(* The gate (router_gate.py).  An application's server forwards a cookie    *)
(* and asks who that is and whether they may come in (`check'), or asks who *)
(* may use one of its features (`holders').  Core answers from a dozen      *)
(* readings, and others commit between any two of them.                     *)
(*                                                                         *)
(* One organisation, and one application with one feature.  A person has    *)
(* at most one grant that reaches it, and a role either opens the feature   *)
(* or does not; what several roles and scopes make of it is Decisions'.     *)
(***************************************************************************)
EXTENDS Integers, Sequences, FiniteSets

CONSTANTS
  Person,
  Session,       \* session ids, each drawn for one person
  Owner,         \* ... this one
  Role,
  BadCall,       \* why a caller is refused: a wrong secret, a wrong origin
  Worker,
  Null,
  Initially,     \* the contents of the tables to begin with
  BAD_CALL_AUDIT_EVERY, NO_ACCESS_AUDIT_EVERY,
  MaxTime, MaxChanges, MaxRows   \* bounds: the clock, changes, audit rows

ASSUME GateAssumption ==
  /\ Owner \in [Session -> Person]
  /\ BAD_CALL_AUDIT_EVERY \in Nat /\ NO_ACCESS_AUDIT_EVERY \in Nat
  /\ MaxTime \in Nat /\ MaxChanges \in Nat /\ MaxRows \in Nat
  /\ IsFiniteSet(Worker)
  /\ BadCall \cap Person = {}

ASSUME NullAssumption == Null \notin Role \cup Session

VARIABLES
  core,          \* the tables the gate reads
  audit,         \* `audit_logs': the moments of the rows, by what is repeated
  now,
  req,           \* the calls in flight
  changes,       \* how many changes so far (bounded)
  peak           \* the most calls there have been in flight at once (history)

vars == <<core, audit, now, req, changes, peak>>

Account == [status : {"active", "suspended", "deleted"}, must_change_password : BOOLEAN]

Core == [live       : BOOLEAN,                   \* the application
         accounts   : [Person -> Account],
         sessions   : SUBSET Session,            \* those `check' accepts
         active     : BOOLEAN,                   \* the organisation
         subscribed : BOOLEAN,                   \* and in date
         seats      : SUBSET Person,
         grants     : [Person -> Role \cup {Null}],
         opening    : SUBSET Role,               \* roles that allow the feature
         inactive   : BOOLEAN]                   \* the feature, for everyone

\* What referred to an account that is gone went with it.
NothingOutlives(c) ==
  \A p \in Person : c.accounts[p].status = "deleted" =>
    /\ p \notin c.seats /\ c.grants[p] = Null
    /\ \A s \in c.sessions : Owner[s] # p

ASSUME InitiallyAssumption == Initially \subseteq {c \in Core : NothingOutlives(c)}

\* What a refusal is audited as, at most once in a while.
Refusal == BadCall \cup Person

Every(k) == IF k \in Person THEN NO_ACCESS_AUDIT_EVERY ELSE BAD_CALL_AUDIT_EVERY

Free == [op |-> "none"]

\* The readings of a call, in the order of the code.  `entitled' is three, and
\* `load' begins with the same three.
Reading == {"session", "account", "suspended", "organization", "subscription", "seat",
            "load organization", "load subscription", "load seat",
            "grants", "rules", "statuses"}

\* A call knows whose it is, what the load has found, whom `holders' has still
\* to ask about and has found.  `seen' and `fit' are history: how many changes
\* there have been since the call began (two stand for more), and who deserved the
\* answer at some moment since.
Call == [op : Reading \cup {"allow", "lapsed"}, session : Session \cup {Null},
         person : Person, grant : Role \cup {Null}, opens : BOOLEAN,
         todo : SUBSET Person, ids : SUBSET Person, seen : 0..2,
         fit : SUBSET Person]

Request == {Free} \cup Call \cup [op : {"record"}, about : Refusal]

-----------------------------------------------------------------------------
Trusted(account) == account.status = "active" /\ ~account.must_change_password

EntitledTo(c, p) == c.active /\ c.subscribed /\ p \in c.seats

\* The feature is allowed to a holder of this grant.
Opened(c, grant) == grant \in c.opening /\ ~c.inactive

\* An empty list is a refusal: the feature is off, or a role reaches it and
\* leaves nothing.
ShutOut(grant, opens, off) == off \/ (grant # Null /\ ~opens)

\* Who deserves the answer there is now: to `check' with this session, to
\* `holders' without one.
Deserving(c, s) ==
  IF s # Null
  THEN {p \in Person :
          /\ c.live /\ s \in c.sessions /\ Owner[s] = p
          /\ Trusted(c.accounts[p])
          /\ EntitledTo(c, p)
          /\ ~ShutOut(c.grants[p], c.grants[p] \in c.opening, c.inactive)}
  ELSE {p \in Person :
          c.accounts[p].status = "active" /\ EntitledTo(c, p) /\ Opened(c, c.grants[p])}

InFlight(requests) == Cardinality({w \in Worker : requests[w] # Free})

Put(w, r) ==
  /\ req' = [req EXCEPT ![w] = r]
  /\ peak' = IF InFlight(req') > peak THEN InFlight(req') ELSE peak

Step(w, r) == Put(w, r) /\ UNCHANGED <<core, audit, now, changes>>

-----------------------------------------------------------------------------
Init ==
  /\ core \in Initially
  /\ audit = [k \in Refusal |-> <<>>]
  /\ now = 0
  /\ req = [w \in Worker |-> Free]
  /\ changes = 0
  /\ peak = 0

Tick ==
  /\ now < MaxTime
  /\ now' = now + 1
  /\ UNCHANGED <<core, audit, req, changes, peak>>

-----------------------------------------------------------------------------
(* The audit of a refusal: look for a recent row, then write one.           *)

\* Mutant: a row exactly as old as the window does not count.
RecentWithin(k) == \E n \in DOMAIN audit[k] : audit[k][n] > now - Every(k)

Recent(k) == \E n \in DOMAIN audit[k] : audit[k][n] >= now - Every(k)

\* The call is refused: there is a row, or it is about to write one.
RefuseAs(w, k) == Step(w, IF Recent(k) THEN Free ELSE [op |-> "record", about |-> k])

Record(w) ==
  LET k == req[w].about IN
  /\ req[w].op = "record"
  /\ \A l \in Refusal : Len(audit[l]) < MaxRows
  /\ audit' = [audit EXCEPT ![k] = Append(@, now)]
  /\ Put(w, Free)
  /\ UNCHANGED <<core, now, changes>>

\* Any call may end: over the rate of its address (429), or cut off.
Abort(w) ==
  /\ req[w] # Free
  /\ Step(w, Free)

\* A caller that cannot prove it is the application, or a request that could
\* change something and does not come from the application's own pages.
RefuseCaller(w, k) == req[w] = Free /\ RefuseAs(w, k)

-----------------------------------------------------------------------------
(* check.                                                                   *)

\* Steps 1 and 2: the application, live, and a request from its own pages.
Check(w, s) ==
  /\ req[w] = Free
  /\ core.live
  /\ Step(w, [op |-> "session", session |-> s, person |-> Owner[s], grant |-> Null,
              opens |-> FALSE, todo |-> {}, ids |-> {}, seen |-> 0,
              fit |-> Deserving(core, s)])

GoOn(w, op) == Step(w, [req[w] EXCEPT !.op = op])

\* Step 3.  A session that is over is refused without a row.
CheckSession(w) ==
  /\ req[w].op = "session"
  /\ IF req[w].session \in core.sessions THEN GoOn(w, "account") ELSE Step(w, Free)

\* Mutant: a password change may be due.
CheckAccountStatus(w) ==
  /\ req[w].op = "account"
  /\ IF core.accounts[req[w].person].status = "active"
     THEN GoOn(w, "suspended") ELSE Step(w, Free)

\* Steps 4 and 5, one reading of the account.
CheckAccount(w) ==
  /\ req[w].op = "account"
  /\ IF Trusted(core.accounts[req[w].person]) THEN GoOn(w, "suspended") ELSE Step(w, Free)

\* Step 6.
CheckOrganization(w) ==
  /\ req[w].op = "suspended"
  /\ IF core.active THEN GoOn(w, "organization") ELSE Step(w, Free)

\* What a statement of `entitled' finds, and the one after it.
Finds(r) ==
  CASE r.op \in {"organization", "load organization"} -> core.active
    [] r.op \in {"subscription", "load subscription"} -> core.subscribed
    [] r.op \in {"seat", "load seat"}                 -> r.person \in core.seats

Then(op) ==
  CASE op = "organization"      -> "subscription"
    [] op = "subscription"      -> "seat"
    [] op = "seat"              -> "load organization"
    [] op = "load organization" -> "load subscription"
    [] op = "load subscription" -> "load seat"
    [] op = "load seat"         -> "grants"

\* Step 7.
CheckSeat(w) ==
  /\ req[w].op \in {"organization", "subscription", "seat"}
  /\ IF Finds(req[w]) THEN GoOn(w, Then(req[w].op)) ELSE RefuseAs(w, req[w].person)

-----------------------------------------------------------------------------
(* load, for `check' and for each person of `holders'.                      *)

\* holders: those who are seated and active are asked about one by one.
NextOf(r, todo, ids) ==
  IF todo = {} THEN [r EXCEPT !.op = "allow", !.todo = {}, !.ids = ids]
  ELSE LET p == CHOOSE q \in todo : TRUE IN
       [r EXCEPT !.op = "load organization", !.person = p, !.todo = todo \ {p}, !.ids = ids,
                 !.grant = Null, !.opens = FALSE]

Holders(w) ==
  LET seated == {p \in core.seats : core.accounts[p].status = "active"} IN
  /\ req[w] = Free
  /\ core.live
  /\ seated # {}
  /\ Step(w, NextOf([op |-> "seat", session |-> Null, person |-> CHOOSE p \in seated : TRUE,
                     grant |-> Null, opens |-> FALSE, todo |-> {}, ids |-> {},
                     seen |-> 0, fit |-> Deserving(core, Null)], seated, {}))

\* `entitled' once more.  What it refuses, `load' takes for an empty input,
\* and `check' for a person whom no role reaches.
LoadEntitled(w) ==
  LET r == req[w] IN
  /\ r.op \in {"load organization", "load subscription", "load seat"}
  /\ IF Finds(r) THEN GoOn(w, Then(r.op))
     ELSE IF r.session # Null THEN GoOn(w, "lapsed")
     ELSE Step(w, NextOf(r, r.todo, r.ids))

LoadGrants(w) ==
  /\ req[w].op = "grants"
  /\ Step(w, [req[w] EXCEPT !.op = "rules", !.grant = core.grants[req[w].person]])

\* Of the roles it has read the grants for.
LoadRules(w) ==
  /\ req[w].op = "rules"
  /\ Step(w, [req[w] EXCEPT !.op = "statuses", !.opens = req[w].grant \in core.opening])

\* The last reading, and the decision: step 8 of `check', and `resolve' for
\* each of `holders'.
Decide(w) ==
  LET r == req[w]
      allowed == r.opens /\ ~core.inactive IN
  /\ r.op = "statuses"
  /\ IF r.session = Null
     THEN Step(w, NextOf(r, r.todo, IF allowed THEN r.ids \cup {r.person} ELSE r.ids))
     ELSE IF ShutOut(r.grant, r.opens, core.inactive) THEN RefuseAs(w, r.person)
     ELSE GoOn(w, "allow")

\* 200.
Answer(w) ==
  /\ req[w].op \in {"allow", "lapsed"}
  /\ Step(w, Free)

-----------------------------------------------------------------------------
(* What others commit meanwhile.                                            *)

\* A change that counts for n of `seen': one that gives and takes at once is two.
ChangeOf(n, c) ==
  /\ c # core
  /\ changes < MaxChanges
  /\ core' = c
  /\ changes' = changes + 1
  /\ req' = [w \in Worker |->
       IF req[w].op \in Reading
       THEN [req[w] EXCEPT !.seen = IF @ + n > 2 THEN 2 ELSE @ + n,
                           !.fit  = @ \cup Deserving(c, req[w].session)]
       ELSE req[w]]
  /\ UNCHANGED <<audit, now, peak>>

Change(c) == ChangeOf(1, c)

Ended(p) == core.sessions \ {s \in Session : Owner[s] = p}

\* admin_apps.edit_application.
SetApplicationStatus(live) == Change([core EXCEPT !.live = live])

\* A suspension revokes every session.
SetUserStatus(p, status) ==
  /\ core.accounts[p].status # "deleted"
  /\ Change([core EXCEPT !.accounts[p].status = status,
                         !.sessions = IF status = "active" THEN @ ELSE Ended(p)])

\* An administrator's password is due for a change.
ResetPassword(p) ==
  /\ core.accounts[p].status # "deleted"
  /\ Change([core EXCEPT !.accounts[p].must_change_password = TRUE, !.sessions = Ended(p)])

\* The person's own ends the sessions and lets them in with the next one.
ChangePassword(p) ==
  /\ core.accounts[p].status = "active"
  /\ ChangeOf(2, [core EXCEPT !.accounts[p].must_change_password = FALSE,
                              !.sessions = Ended(p)])

\* Signed out, expired or revoked.
EndSession(s) == Change([core EXCEPT !.sessions = @ \ {s}])

SetOrganization(active) == Change([core EXCEPT !.active = active])

\* Bought or run out.
SetSubscribed(subscribed) == Change([core EXCEPT !.subscribed = subscribed])

SetSeats(p, seats) ==
  /\ core.accounts[p].status # "deleted"
  /\ Change([core EXCEPT !.seats = seats])

SetGrant(p, grant) ==
  /\ core.accounts[p].status # "deleted"
  /\ Change([core EXCEPT !.grants[p] = grant])

PutToolRules(opening) == Change([core EXCEPT !.opening = opening])

PutToolStatus(inactive) == Change([core EXCEPT !.inactive = inactive])

\* Mutant: the seat is kept.
DeleteUserKeepingSeat(p) ==
  ChangeOf(2, [core EXCEPT !.accounts[p] = [status |-> "deleted", must_change_password |-> FALSE],
                           !.sessions = Ended(p), !.grants[p] = Null])

\* With everything that refers to the account.  That a role is gone may let in
\* whom it shut out.
DeleteUser(p) ==
  ChangeOf(2, [core EXCEPT !.accounts[p] = [status |-> "deleted", must_change_password |-> FALSE],
                           !.sessions = Ended(p), !.seats = @ \ {p}, !.grants[p] = Null])

-----------------------------------------------------------------------------
Next ==
  \/ Tick
  \/ \E w \in Worker :
       \/ \E k \in BadCall : RefuseCaller(w, k)
       \/ \E s \in Session : Check(w, s)
       \/ CheckSession(w)
       \/ CheckAccount(w)
       \/ CheckOrganization(w)
       \/ CheckSeat(w)
       \/ Holders(w)
       \/ LoadEntitled(w)
       \/ LoadGrants(w)
       \/ LoadRules(w)
       \/ Decide(w)
       \/ Answer(w)
       \/ Record(w)
       \/ Abort(w)
  \/ \E live \in BOOLEAN : SetApplicationStatus(live)
  \/ \E p \in Person :
       \/ \E status \in {"active", "suspended"} : SetUserStatus(p, status)
       \/ ResetPassword(p)
       \/ ChangePassword(p)
       \/ \E seats \in {core.seats \cup {p}, core.seats \ {p}} : SetSeats(p, seats)
       \/ \E grant \in Role \cup {Null} : SetGrant(p, grant)
       \/ DeleteUser(p)
  \/ \E s \in Session : EndSession(s)
  \/ \E active \in BOOLEAN : SetOrganization(active)
  \/ \E subscribed \in BOOLEAN : SetSubscribed(subscribed)
  \/ \E opening \in SUBSET Role : PutToolRules(opening)
  \/ \E inactive \in BOOLEAN : PutToolStatus(inactive)

Spec == Init /\ [][Next]_vars

-----------------------------------------------------------------------------
\* Types; and an account that is gone holds nothing.
TypeOK ==
  /\ core \in Core
  /\ NothingOutlives(core)
  /\ audit \in [Refusal -> Seq(0..MaxTime)]
  /\ now \in 0..MaxTime
  /\ req \in [Worker -> Request]
  /\ changes \in 0..MaxChanges
  /\ peak \in 0..Cardinality(Worker)

\* Whom an answer says may come in, or may use the feature.
Allowed(r) == IF r.session = Null THEN r.ids ELSE {r.person}

\* router_gate.py:10-22: 200 is for those who pass all eight steps.  With at most
\* one change committed in between the readings, whoever is let in passed all of
\* them at one moment of the call, and whoever `holders' names could use the
\* feature at one; calls whose entitlement ended after step 7 aside.
AllowedWasDeserved ==
  \A w \in Worker :
    req[w].op = "allow" /\ req[w].seen <= 1 => Allowed(req[w]) \subseteq req[w].fit

\* router_gate.py:63-66, 77-81: a refusal is audited at most once an hour per
\* person, once in ten minutes per caller; an endless log is what that is to
\* prevent.  Calls that overlap may each write a row.  Whatever overlaps, no
\* window holds more rows than there have been calls in flight at once; one call
\* at a time, the rows lie further apart than the window.
AuditBounded ==
  \A k \in Refusal : \A i \in DOMAIN audit[k] :
    Cardinality({j \in DOMAIN audit[k] : audit[k][j] \in audit[k][i]..(audit[k][i] + Every(k))})
      <= peak
=============================================================================
