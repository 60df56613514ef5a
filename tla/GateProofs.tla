----------------------------- MODULE GateProofs -----------------------------
(***************************************************************************)
(* What Gate promises, for any people, sessions, roles, calls and any       *)
(* number of changes: whom a call lets in with at most one change in        *)
(* between deserved it, and refusals are audited no more often than there   *)
(* were calls at once.                                                      *)
(***************************************************************************)
EXTENDS Gate, FiniteSetTheorems, TLAPS

-----------------------------------------------------------------------------
(* What a call has still to read.  Each of these is the readings up to the  *)
(* last one that asks the question.                                         *)

BeforeSession    == {"session"}
BeforeAccount    == BeforeSession \cup {"account"}
BeforeActive     == BeforeAccount \cup {"suspended", "organization", "subscription", "seat",
                                        "load organization"}
BeforeSubscribed == BeforeActive \cup {"load subscription"}
BeforeSeat       == BeforeSubscribed \cup {"load seat"}
BeforeGrant      == BeforeSeat \cup {"grants"}
BeforeRules      == BeforeGrant \cup {"rules"}

\* Whom the call asks about, and what it asks about each of them next.
Asked(r) == {r.person} \cup r.todo

OpFor(r, q) == IF q = r.person THEN r.op ELSE "load organization"

\* What it has read, and will not read again, is so.
Passed(r, q, op, c) ==
  /\ r.session # Null =>
       /\ c.live
       /\ op \notin BeforeSession => r.session \in c.sessions
       /\ op \notin BeforeAccount => Trusted(c.accounts[q])
  /\ r.session = Null => c.accounts[q].status = "active"
  /\ op \notin BeforeActive => c.active
  /\ op \notin BeforeSubscribed => c.subscribed
  /\ op \notin BeforeSeat => q \in c.seats
  /\ op \notin BeforeGrant => r.grant = c.grants[q]
  /\ op \notin BeforeRules => (r.opens <=> r.grant \in c.opening)

\* The grant and the rules the decision will go by, if nothing changes any more.
GrantFor(r, q, op, c) == IF op \in BeforeGrant THEN c.grants[q] ELSE r.grant
OpensFor(r, q, op, c) == IF op \in BeforeRules THEN GrantFor(r, q, op, c) \in c.opening
                         ELSE r.opens

\* Something it has still to read will refuse it.
Blocked(r, q, op, c) ==
  \/ r.session # Null /\ op \in BeforeSession /\ r.session \notin c.sessions
  \/ r.session # Null /\ op \in BeforeAccount /\ ~Trusted(c.accounts[q])
  \/ op \in BeforeActive /\ ~c.active
  \/ op \in BeforeSubscribed /\ ~c.subscribed
  \/ op \in BeforeSeat /\ q \notin c.seats
  \/ r.session # Null /\ ShutOut(GrantFor(r, q, op, c), OpensFor(r, q, op, c), c.inactive)
  \/ r.session = Null /\ (~OpensFor(r, q, op, c) \/ c.inactive)

\* A call that still reads, with no change since it began, and with one.
Fair(r, c) ==
  /\ r.session # Null => Owner[r.session] = r.person /\ r.todo = {}
  /\ r.person \notin r.todo
  /\ r.seen <= 1 => r.ids \subseteq r.fit
  /\ r.seen = 0 =>
       /\ r.fit = Deserving(c, r.session)
       /\ \A q \in Asked(r) : Passed(r, q, OpFor(r, q), c)
  /\ r.seen = 1 => \A q \in Asked(r) : q \in r.fit \/ Blocked(r, q, OpFor(r, q), c)

Good(r, c) ==
  /\ r.op \in Reading => Fair(r, c)
  /\ r.op = "allow" /\ r.seen <= 1 => Allowed(r) \subseteq r.fit

AllGood == \A w \in Worker : Good(req[w], core)

-----------------------------------------------------------------------------
(* The rows of the audit.                                                   *)

Window(k, i) ==
  {j \in DOMAIN audit[k] : audit[k][j] \in audit[k][i]..(audit[k][i] + Every(k))}

\* Calls that have found no row, and are about to write one.
Recorders(k) == {w \in Worker : req[w] = [op |-> "record", about |-> k]}

\* While a row is recent nobody looks and finds none: who writes one then had
\* looked before.
RowsBounded ==
  /\ InFlight(req) <= peak
  /\ \A k \in Refusal : \A i \in DOMAIN audit[k] :
       /\ audit[k][i] <= now
       /\ Cardinality(Window(k, i)) <= peak
       /\ now <= audit[k][i] + Every(k) =>
            Cardinality(Window(k, i)) + Cardinality(Recorders(k)) <= peak

-----------------------------------------------------------------------------
(* Types.                                                                   *)

LEMMA InFlightType ==
  ASSUME NEW requests PROVE InFlight(requests) \in 0..Cardinality(Worker)
<1> DEFINE Flying == {w \in Worker : requests[w] # Free}
<1>1. IsFiniteSet(Worker) /\ Flying \in SUBSET Worker
  BY GateAssumption
<1>2. Cardinality(Flying) \in Nat /\ Cardinality(Worker) \in Nat
      /\ Cardinality(Flying) <= Cardinality(Worker)
  BY <1>1, FS_Subset, FS_CardinalityType, Zenon
<1> QED
  BY <1>2 DEF InFlight

\* The request of a call that still reads, or has its answer, is a call.
LEMMA IsCall ==
  ASSUME NEW r \in Request, r.op \in Reading \cup {"allow", "lapsed"}
  PROVE  r \in Call
<1>1. r # Free
  <2>1. Free.op = "none"
    BY DEF Free
  <2>2. r.op # "none"
    BY DEF Reading
  <2> QED
    BY <2>1, <2>2
<1>2. r \notin [op : {"record"}, about : Refusal]
  BY DEF Reading
<1> QED
  BY <1>1, <1>2 DEF Request

LEMMA CallIsRequest == Call \subseteq Request
BY DEF Request

LEMMA FreeType == Free \in Request
BY DEF Request

LEMMA OpType ==
  ASSUME NEW r \in Call, NEW op \in Reading \cup {"allow", "lapsed"}
  PROVE  [r EXCEPT !.op = op] \in Call
BY DEF Call

LEMMA NextOfType ==
  ASSUME NEW r \in Call, NEW todo \in SUBSET Person, NEW ids \in SUBSET Person
  PROVE  NextOf(r, todo, ids) \in Call
<1>1. CASE todo = {}
  <2>1. NextOf(r, todo, ids) = [r EXCEPT !.op = "allow", !.todo = {}, !.ids = ids]
    BY <1>1 DEF NextOf
  <2> QED
    BY <2>1 DEF Call
<1>2. CASE todo # {}
  <2> DEFINE p == CHOOSE q \in todo : TRUE
  <2>1. p \in todo
    BY <1>2
  <2>2. NextOf(r, todo, ids) =
          [r EXCEPT !.op = "load organization", !.person = p, !.todo = todo \ {p},
                    !.ids = ids, !.grant = Null, !.opens = FALSE]
    BY <1>2 DEF NextOf
  <2> HIDE DEF p
  <2> QED
    BY <2>1, <2>2 DEF Call, Reading
<1> QED
  BY <1>1, <1>2

LEMMA DeservingType ==
  ASSUME NEW c, NEW s PROVE Deserving(c, s) \in SUBSET Person
BY DEF Deserving

LEMMA PutType ==
  ASSUME TypeOK, NEW w \in Worker, NEW r \in Request, Put(w, r)
  PROVE  req' \in [Worker -> Request] /\ peak' \in 0..Cardinality(Worker)
<1>1. req' \in [Worker -> Request]
  BY DEF TypeOK, Put
<1>2. peak' \in {InFlight(req'), peak}
  BY DEF Put
<1> QED
  BY <1>1, <1>2, InFlightType DEF TypeOK

LEMMA StepType ==
  ASSUME TypeOK, NEW w \in Worker, NEW r \in Request, Step(w, r)
  PROVE  TypeOK'
BY PutType DEF Step, TypeOK, NothingOutlives

LEMMA RefuseType ==
  ASSUME TypeOK, NEW w \in Worker, NEW k \in Refusal, RefuseAs(w, k)
  PROVE  TypeOK'
<1>1. (IF Recent(k) THEN Free ELSE [op |-> "record", about |-> k]) \in Request
  BY FreeType DEF Request
<1> QED
  BY <1>1, StepType DEF RefuseAs

\* What a call makes of itself: nothing, a call that goes on, or a refusal.
Moves(w) ==
  \/ \E r \in {Free} \cup Call : Step(w, r)
  \/ \E k \in Refusal : RefuseAs(w, k)

LEMMA GoOnMoves ==
  ASSUME TypeOK, NEW w \in Worker, req[w].op \in Reading,
         NEW op \in Reading \cup {"allow", "lapsed"}, GoOn(w, op)
  PROVE  Moves(w)
<1>1. req[w] \in Call
  BY IsCall DEF TypeOK
<1>2. [req[w] EXCEPT !.op = op] \in Call
  BY <1>1, OpType
<1> QED
  BY <1>2 DEF GoOn, Moves

LEMMA MovesType ==
  ASSUME TypeOK, NEW w \in Worker, Moves(w) PROVE TypeOK'
BY RefuseType, StepType, FreeType, CallIsRequest DEF Moves

\* The rest of what a call does.
CallStep(w) ==
  \/ \E k \in BadCall : RefuseCaller(w, k)
  \/ \E s \in Session : Check(w, s)
  \/ CheckSession(w) \/ CheckAccount(w) \/ CheckOrganization(w) \/ CheckSeat(w)
  \/ Holders(w)
  \/ LoadEntitled(w) \/ LoadGrants(w) \/ LoadRules(w)
  \/ Decide(w) \/ Answer(w) \/ Abort(w)

LEMMA CallStepMoves ==
  ASSUME TypeOK, NEW w \in Worker, CallStep(w) PROVE Moves(w)
<1> DEFINE r == req[w]
<1>0. r \in Request /\ core \in Core
  BY DEF TypeOK
<1>1. ASSUME NEW k \in BadCall, RefuseCaller(w, k) PROVE Moves(w)
  BY <1>1 DEF Moves, RefuseCaller, Refusal
<1>2. ASSUME NEW s \in Session, Check(w, s) PROVE Moves(w)
  <2>1. [op |-> "session", session |-> s, person |-> Owner[s], grant |-> Null,
         opens |-> FALSE, todo |-> {}, ids |-> {}, seen |-> 0,
         fit |-> Deserving(core, s)] \in Call
    BY GateAssumption, DeservingType DEF Call, Reading
  <2> QED
    BY <1>2, <2>1 DEF Moves, Check
<1>3. CASE CheckSession(w)
  BY <1>3, GoOnMoves DEF Moves, CheckSession, Reading
<1>4. CASE CheckAccount(w)
  BY <1>4, GoOnMoves DEF Moves, CheckAccount, Reading
<1>5. CASE CheckOrganization(w)
  BY <1>5, GoOnMoves DEF Moves, CheckOrganization, Reading
<1>6. CASE CheckSeat(w)
  <2>1. r.op \in Reading /\ Then(r.op) \in Reading
    BY <1>6 DEF CheckSeat, Reading, Then
  <2>2. r.person \in Refusal
    BY <1>0, <2>1, IsCall DEF Call, Refusal
  <2> QED
    BY <1>6, <2>1, <2>2, GoOnMoves DEF Moves, CheckSeat
<1>7. CASE Holders(w)
  <2> DEFINE seated == {p \in core.seats : core.accounts[p].status = "active"}
             first  == CHOOSE p \in seated : TRUE
             start  == [op |-> "seat", session |-> Null, person |-> first,
                        grant |-> Null, opens |-> FALSE, todo |-> {}, ids |-> {},
                        seen |-> 0, fit |-> Deserving(core, Null)]
  <2>1. seated # {} /\ Step(w, NextOf(start, seated, {}))
    BY <1>7 DEF Holders
  <2>2. seated \in SUBSET Person
    BY <1>0 DEF Core
  <2>3. first \in seated
    BY <2>1
  <2> HIDE DEF first
  <2>4. start \in Call
    BY <2>2, <2>3, DeservingType DEF Call, Reading
  <2> HIDE DEF start, seated
  <2> QED
    BY <2>1, <2>2, <2>4, NextOfType DEF Moves
<1>8. CASE LoadEntitled(w)
  <2>1. r.op \in Reading /\ Then(r.op) \in Reading
    BY <1>8 DEF LoadEntitled, Reading, Then
  <2>2. r \in Call
    BY <1>0, <2>1, IsCall
  <2>3. NextOf(r, r.todo, r.ids) \in Call
    <3>1. r.todo \in SUBSET Person /\ r.ids \in SUBSET Person
      BY <2>2 DEF Call
    <3> QED
      BY <2>2, <3>1, NextOfType
  <2> QED
    BY <1>8, <2>1, <2>3, GoOnMoves DEF Moves, LoadEntitled
<1>9. CASE LoadGrants(w)
  <2>1. r \in Call
    BY <1>0, <1>9, IsCall DEF LoadGrants, Reading
  <2>2. [r EXCEPT !.op = "rules", !.grant = core.grants[r.person]] \in Call
    BY <1>0, <2>1 DEF Call, Core, Reading
  <2> QED
    BY <1>9, <2>2 DEF Moves, LoadGrants
<1>10. CASE LoadRules(w)
  <2>1. r \in Call
    BY <1>0, <1>10, IsCall DEF LoadRules, Reading
  <2>2. PICK opens \in BOOLEAN : opens = (r.grant \in core.opening)
    <3>1. (r.grant \in core.opening) \in BOOLEAN
      OBVIOUS
    <3> QED
      BY <3>1, Zenon
  <2>3. [r EXCEPT !.op = "statuses", !.opens = opens] \in Call
    BY <2>1 DEF Call, Reading
  <2> QED
    BY <1>10, <2>2, <2>3 DEF Moves, LoadRules
<1>11. CASE Decide(w)
  <2>1. r.op \in Reading /\ r \in Call
    BY <1>0, <1>11, IsCall DEF Decide, Reading
  <2>2. r.person \in Refusal /\ r.todo \in SUBSET Person /\ r.ids \in SUBSET Person
        /\ r.ids \cup {r.person} \in SUBSET Person
    BY <2>1 DEF Call, Refusal
  <2>3. NextOf(r, r.todo, r.ids) \in Call /\ NextOf(r, r.todo, r.ids \cup {r.person}) \in Call
    BY <2>1, <2>2, NextOfType
  <2> QED
    BY <1>11, <2>1, <2>2, <2>3, GoOnMoves DEF Moves, Decide
<1>12. CASE Answer(w)
  BY <1>12 DEF Moves, Answer
<1>13. CASE Abort(w)
  BY <1>13 DEF Moves, Abort
<1> QED
  BY <1>1, <1>2, <1>3, <1>4, <1>5, <1>6, <1>7, <1>8, <1>9, <1>10, <1>11, <1>12, <1>13
     DEF CallStep

LEMMA RecordType ==
  ASSUME TypeOK, NEW w \in Worker, Record(w) PROVE TypeOK'
<1>1. req[w].about \in Refusal
  <2>1. req[w] \in Request /\ req[w].op = "record"
    BY DEF TypeOK, Record
  <2>2. req[w] # Free
    BY <2>1 DEF Free
  <2>3. req[w] \notin Call
    BY <2>1 DEF Call, Reading
  <2> QED
    BY <2>1, <2>2, <2>3 DEF Request
<1>2. audit' \in [Refusal -> Seq(0..MaxTime)]
  <2>1. Append(audit[req[w].about], now) \in Seq(0..MaxTime)
    BY <1>1 DEF TypeOK
  <2> QED
    BY <1>1, <2>1 DEF Record, TypeOK
<1>3. req' \in [Worker -> Request] /\ peak' \in 0..Cardinality(Worker)
  BY FreeType, PutType DEF Record
<1> QED
  BY <1>2, <1>3 DEF Record, TypeOK, NothingOutlives

\* A change of the tables to a content they may have.
LEMMA ChangeType ==
  ASSUME TypeOK, NEW n \in 1..2, NEW c \in Core, NothingOutlives(c), ChangeOf(n, c)
  PROVE  TypeOK'
<1>1. ASSUME NEW w \in Worker PROVE req'[w] \in Request
  <2>1. CASE req[w].op \in Reading
    <3> DEFINE seen == IF req[w].seen + n > 2 THEN 2 ELSE req[w].seen + n
               fit  == req[w].fit \cup Deserving(c, req[w].session)
    <3>1. req[w] \in Call
      BY <2>1, IsCall DEF TypeOK
    <3>2. seen \in 0..2 /\ fit \in SUBSET Person
      BY <3>1, DeservingType DEF Call
    <3>3. req'[w] = [req[w] EXCEPT !.seen = seen, !.fit = fit]
      BY <2>1 DEF ChangeOf
    <3> HIDE DEF seen, fit
    <3> QED
      BY <3>1, <3>2, <3>3, CallIsRequest DEF Call
  <2>2. CASE req[w].op \notin Reading
    BY <2>2 DEF ChangeOf, TypeOK
  <2> QED
    BY <2>1, <2>2
<1>2. req' \in [Worker -> Request]
  <2>1. req' = [w \in Worker |-> req'[w]]
    BY DEF ChangeOf
  <2> QED
    BY <1>1, <2>1
<1>3. changes' \in 0..MaxChanges
  <2>1. changes \in 0..MaxChanges /\ changes < MaxChanges /\ changes' = changes + 1
    BY DEF TypeOK, ChangeOf
  <2> QED
    BY <2>1, GateAssumption
<1> QED
  BY <1>2, <1>3 DEF TypeOK, ChangeOf, NothingOutlives

-----------------------------------------------------------------------------
(* What the changes make of the tables.                                     *)

\* Somebody commits a change that gives or takes, to or from whoever it is about.
OneChange ==
  \/ \E live \in BOOLEAN : SetApplicationStatus(live)
  \/ \E p \in Person :
       \/ \E status \in {"active", "suspended"} : SetUserStatus(p, status)
       \/ ResetPassword(p)
       \/ \E seats \in {core.seats \cup {p}, core.seats \ {p}} : SetSeats(p, seats)
       \/ \E grant \in Role \cup {Null} : SetGrant(p, grant)
  \/ \E s \in Session : EndSession(s)
  \/ \E active \in BOOLEAN : SetOrganization(active)
  \/ \E subscribed \in BOOLEAN : SetSubscribed(subscribed)
  \/ \E opening \in SUBSET Role : PutToolRules(opening)
  \/ \E inactive \in BOOLEAN : PutToolStatus(inactive)

\* One that does both.
DoubleChange == \E p \in Person : ChangePassword(p) \/ DeleteUser(p)

\* Everything but what is named is as it was.
Alike(c, d, but) ==
  /\ "live" \notin but => d.live = c.live
  /\ "accounts" \notin but => d.accounts = c.accounts
  /\ "sessions" \notin but => d.sessions = c.sessions
  /\ "active" \notin but => d.active = c.active
  /\ "subscribed" \notin but => d.subscribed = c.subscribed
  /\ "seats" \notin but => d.seats = c.seats
  /\ "grants" \notin but => d.grants = c.grants
  /\ "opening" \notin but => d.opening = c.opening
  /\ "inactive" \notin but => d.inactive = c.inactive

\* A change gives and takes nothing at once: it is of one thing, or an account
\* and its sessions lose by it.
Takes(c, d) ==
  /\ Alike(c, d, {"accounts", "sessions"})
  /\ d.sessions \subseteq c.sessions
  /\ \A q \in Person : /\ Trusted(d.accounts[q]) => Trusted(c.accounts[q])
                       /\ d.accounts[q].status = "active" => c.accounts[q].status = "active"

Single(c, d) ==
  \/ Alike(c, d, {"live"})
  \/ Takes(c, d)
  \/ /\ Alike(c, d, {"accounts"})
     /\ \A q \in Person : c.accounts[q].status = "active" => d.accounts[q] = c.accounts[q]
  \/ Alike(c, d, {"active"})
  \/ Alike(c, d, {"subscribed"})
  \/ Alike(c, d, {"seats"})
  \/ Alike(c, d, {"grants"})
  \/ Alike(c, d, {"opening"})
  \/ Alike(c, d, {"inactive"})

LEMMA OneChangeIs ==
  ASSUME TypeOK, OneChange
  PROVE  \E c \in Core : NothingOutlives(c) /\ ChangeOf(1, c) /\ Single(core, c)
<1>0. core \in Core /\ NothingOutlives(core)
  BY DEF TypeOK
<1> DEFINE Is(c) == c \in Core /\ NothingOutlives(c) /\ ChangeOf(1, c) /\ Single(core, c)
<1>1. ASSUME NEW live \in BOOLEAN, SetApplicationStatus(live) PROVE \E c : Is(c)
  <2> DEFINE c == [core EXCEPT !.live = live]
  <2>1. c \in Core /\ NothingOutlives(c) /\ Alike(core, c, {"live"})
    BY <1>0 DEF Core, NothingOutlives, Alike
  <2>2. ChangeOf(1, c)
    BY <1>1 DEF SetApplicationStatus, Change
  <2> QED
    BY <2>1, <2>2 DEF Single
<1>2. ASSUME NEW p \in Person, NEW status \in {"active", "suspended"}, SetUserStatus(p, status)
      PROVE  \E c : Is(c)
  <2> DEFINE c == [core EXCEPT !.accounts[p].status = status,
                               !.sessions = IF status = "active" THEN @ ELSE Ended(p)]
  <2>0. /\ c \in Core
        /\ c.seats = core.seats /\ c.grants = core.grants /\ c.sessions \subseteq core.sessions
    BY <1>0 DEF Core, Account, Ended
  <2>1. NothingOutlives(c)
    <3>1. \A q \in Person : c.accounts[q].status = "deleted" => core.accounts[q].status = "deleted"
      BY <1>0 DEF Core, Account
    <3> QED
      BY <1>0, <2>0, <3>1 DEF NothingOutlives
  <2>2. Single(core, c)
    <3>1. CASE status = "active"
      <4>1. Alike(core, c, {"accounts"})
        BY <1>0, <3>1 DEF Core, Alike
      <4>2. \A q \in Person : core.accounts[q].status = "active" => c.accounts[q] = core.accounts[q]
        BY <1>0, <3>1 DEF Core, Account
      <4> QED
        BY <4>1, <4>2 DEF Single
    <3>2. CASE status = "suspended"
      <4>1. Alike(core, c, {"accounts", "sessions"})
        BY <1>0, <3>2 DEF Core, Alike
      <4>2. c.sessions \subseteq core.sessions
        BY <1>0, <3>2 DEF Core, Ended
      <4>3. \A q \in Person : c.accounts[q].status = "active" => c.accounts[q] = core.accounts[q]
        BY <1>0, <3>2 DEF Core, Account
      <4> QED
        BY <4>1, <4>2, <4>3 DEF Single, Takes, Trusted
    <3> QED
      BY <3>1, <3>2
  <2>3. ChangeOf(1, c)
    BY <1>2 DEF SetUserStatus, Change
  <2> QED
    BY <2>0, <2>1, <2>2, <2>3
<1>3. ASSUME NEW p \in Person, ResetPassword(p) PROVE \E c : Is(c)
  <2> DEFINE c == [core EXCEPT !.accounts[p].must_change_password = TRUE, !.sessions = Ended(p)]
  <2>0. /\ c \in Core
        /\ c.seats = core.seats /\ c.grants = core.grants /\ c.sessions \subseteq core.sessions
    BY <1>0 DEF Core, Account, Ended
  <2>1. NothingOutlives(c)
    <3>1. \A q \in Person : c.accounts[q].status = core.accounts[q].status
      BY <1>0 DEF Core, Account
    <3> QED
      BY <1>0, <2>0, <3>1 DEF NothingOutlives
  <2>2. Alike(core, c, {"accounts", "sessions"}) /\ c.sessions \subseteq core.sessions
    BY <1>0 DEF Core, Alike, Ended
  <2>3. \A q \in Person : /\ c.accounts[q].status = core.accounts[q].status
                          /\ Trusted(c.accounts[q]) => Trusted(core.accounts[q])
    BY <1>0 DEF Core, Account, Trusted
  <2>4. ChangeOf(1, c)
    BY <1>3 DEF ResetPassword, Change
  <2> QED
    BY <2>0, <2>1, <2>2, <2>3, <2>4 DEF Single, Takes
<1>4. ASSUME NEW p \in Person, NEW seats \in {core.seats \cup {p}, core.seats \ {p}}, SetSeats(p, seats)
      PROVE  \E c : Is(c)
  <2> DEFINE c == [core EXCEPT !.seats = seats]
  <2>1. c \in Core /\ NothingOutlives(c) /\ Alike(core, c, {"seats"})
    BY <1>0, <1>4 DEF SetSeats, Core, NothingOutlives, Alike
  <2>2. ChangeOf(1, c)
    BY <1>4 DEF SetSeats, Change
  <2> QED
    BY <2>1, <2>2 DEF Single
<1>5. ASSUME NEW p \in Person, NEW grant \in Role \cup {Null}, SetGrant(p, grant)
      PROVE  \E c : Is(c)
  <2> DEFINE c == [core EXCEPT !.grants[p] = grant]
  <2>1. c \in Core /\ NothingOutlives(c) /\ Alike(core, c, {"grants"})
    BY <1>0, <1>5 DEF SetGrant, Core, NothingOutlives, Alike
  <2>2. ChangeOf(1, c)
    BY <1>5 DEF SetGrant, Change
  <2> QED
    BY <2>1, <2>2 DEF Single
<1>6. ASSUME NEW s \in Session, EndSession(s) PROVE \E c : Is(c)
  <2> DEFINE c == [core EXCEPT !.sessions = core.sessions \ {s}]
  <2>1. c \in Core /\ NothingOutlives(c) /\ Alike(core, c, {"accounts", "sessions"})
        /\ c.sessions \subseteq core.sessions /\ c.accounts = core.accounts
    BY <1>0 DEF Core, NothingOutlives, Alike
  <2>2. ChangeOf(1, c)
    BY <1>6 DEF EndSession, Change
  <2> QED
    BY <2>1, <2>2 DEF Single, Takes
<1>7. ASSUME NEW active \in BOOLEAN, SetOrganization(active) PROVE \E c : Is(c)
  <2> DEFINE c == [core EXCEPT !.active = active]
  <2>1. c \in Core /\ NothingOutlives(c) /\ Alike(core, c, {"active"})
    BY <1>0 DEF Core, NothingOutlives, Alike
  <2>2. ChangeOf(1, c)
    BY <1>7 DEF SetOrganization, Change
  <2> QED
    BY <2>1, <2>2 DEF Single
<1>8. ASSUME NEW subscribed \in BOOLEAN, SetSubscribed(subscribed) PROVE \E c : Is(c)
  <2> DEFINE c == [core EXCEPT !.subscribed = subscribed]
  <2>1. c \in Core /\ NothingOutlives(c) /\ Alike(core, c, {"subscribed"})
    BY <1>0 DEF Core, NothingOutlives, Alike
  <2>2. ChangeOf(1, c)
    BY <1>8 DEF SetSubscribed, Change
  <2> QED
    BY <2>1, <2>2 DEF Single
<1>9. ASSUME NEW opening \in SUBSET Role, PutToolRules(opening) PROVE \E c : Is(c)
  <2> DEFINE c == [core EXCEPT !.opening = opening]
  <2>1. c \in Core /\ NothingOutlives(c) /\ Alike(core, c, {"opening"})
    BY <1>0 DEF Core, NothingOutlives, Alike
  <2>2. ChangeOf(1, c)
    BY <1>9 DEF PutToolRules, Change
  <2> QED
    BY <2>1, <2>2 DEF Single
<1>10. ASSUME NEW inactive \in BOOLEAN, PutToolStatus(inactive) PROVE \E c : Is(c)
  <2> DEFINE c == [core EXCEPT !.inactive = inactive]
  <2>1. c \in Core /\ NothingOutlives(c) /\ Alike(core, c, {"inactive"})
    BY <1>0 DEF Core, NothingOutlives, Alike
  <2>2. ChangeOf(1, c)
    BY <1>10 DEF PutToolStatus, Change
  <2> QED
    BY <2>1, <2>2 DEF Single
<1> QED
  BY <1>1, <1>2, <1>3, <1>4, <1>5, <1>6, <1>7, <1>8, <1>9, <1>10 DEF OneChange

LEMMA DoubleChangeIs ==
  ASSUME TypeOK, DoubleChange
  PROVE  \E c \in Core : NothingOutlives(c) /\ ChangeOf(2, c)
<1>0. core \in Core /\ NothingOutlives(core)
  BY DEF TypeOK
<1> DEFINE Is(c) == c \in Core /\ NothingOutlives(c) /\ ChangeOf(2, c)
<1>1. ASSUME NEW p \in Person, ChangePassword(p) PROVE \E c : Is(c)
  <2> DEFINE c == [core EXCEPT !.accounts[p].must_change_password = FALSE, !.sessions = Ended(p)]
  <2>0. /\ c \in Core
        /\ c.seats = core.seats /\ c.grants = core.grants /\ c.sessions \subseteq core.sessions
    BY <1>0 DEF Core, Account, Ended
  <2>1. NothingOutlives(c)
    <3>1. \A q \in Person : c.accounts[q].status = core.accounts[q].status
      BY <1>0 DEF Core, Account
    <3> QED
      BY <1>0, <2>0, <3>1 DEF NothingOutlives
  <2>2. ChangeOf(2, c)
    BY <1>1 DEF ChangePassword
  <2> QED
    BY <2>0, <2>1, <2>2
<1>2. ASSUME NEW p \in Person, DeleteUser(p) PROVE \E c : Is(c)
  <2> DEFINE c == [core EXCEPT !.accounts[p] = [status |-> "deleted", must_change_password |-> FALSE],
                               !.sessions = Ended(p), !.seats = @ \ {p}, !.grants[p] = Null]
  <2>0. c \in Core
    BY <1>0 DEF Core, Account, Ended
  <2>1. NothingOutlives(c)
    <3>1. p \notin c.seats /\ c.grants[p] = Null /\ \A t \in c.sessions : Owner[t] # p
      BY <1>0 DEF Core, Ended
    <3>2. c.seats \subseteq core.seats /\ c.sessions \subseteq core.sessions
      BY <1>0 DEF Core, Ended
    <3>3. \A q \in Person \ {p} : c.accounts[q] = core.accounts[q] /\ c.grants[q] = core.grants[q]
      BY <1>0 DEF Core
    <3> QED
      BY <1>0, <3>1, <3>2, <3>3 DEF NothingOutlives
  <2>2. ChangeOf(2, c)
    BY <1>2 DEF DeleteUser
  <2> QED
    BY <2>0, <2>1, <2>2
<1> QED
  BY <1>1, <1>2 DEF DoubleChange

\* What can happen, in short.
LEMMA NextCases ==
  ASSUME [Next]_vars
  PROVE  \/ UNCHANGED vars
         \/ Tick
         \/ \E w \in Worker : CallStep(w) \/ Record(w)
         \/ OneChange
         \/ DoubleChange
BY DEF Next, CallStep, OneChange, DoubleChange

-----------------------------------------------------------------------------
(* Who is let in deserved it.                                               *)

USE DEF Asked

LEMMA Nested ==
  /\ BeforeSession \subseteq BeforeAccount /\ BeforeAccount \subseteq BeforeActive
  /\ BeforeActive \subseteq BeforeSubscribed /\ BeforeSubscribed \subseteq BeforeSeat
  /\ BeforeSeat \subseteq BeforeGrant /\ BeforeGrant \subseteq BeforeRules
BY DEF BeforeSession, BeforeAccount, BeforeActive, BeforeSubscribed, BeforeSeat,
       BeforeGrant, BeforeRules

\* Who has passed so far and does not deserve it will be refused.
LEMMA PassedOrBlocked ==
  ASSUME NEW c \in Core, NEW r, NEW q \in Person, NEW op,
         r.session # Null => Owner[r.session] = q,
         Passed(r, q, op, c), q \notin Deserving(c, r.session)
  PROVE  Blocked(r, q, op, c)
BY Nested DEF Passed, Blocked, Deserving, EntitledTo, Opened, ShutOut, GrantFor, OpensFor

\* ... and whom one change leaves undeserving still will.
LEMMA StaysBlocked ==
  ASSUME NEW c \in Core, NEW d \in Core, Single(c, d), NEW r, NEW q \in Person, NEW op,
         r.session # Null => Owner[r.session] = q,
         Passed(r, q, op, c), q \notin Deserving(c, r.session), q \notin Deserving(d, r.session)
  PROVE  Blocked(r, q, op, d)
<1>1. CASE Passed(r, q, op, d)
  BY <1>1, PassedOrBlocked
<1>2. Blocked(r, q, op, c)
  BY PassedOrBlocked
<1> USE <1>2, Nested DEF Passed, Blocked, GrantFor, OpensFor, Alike
<1>3. CASE Alike(c, d, {"live"})
  BY <1>3
<1>4. CASE Takes(c, d)
  BY <1>4 DEF Takes
<1>5. CASE /\ Alike(c, d, {"accounts"})
           /\ \A p \in Person : c.accounts[p].status = "active" => d.accounts[p] = c.accounts[p]
  BY <1>1, <1>5 DEF Trusted
<1>6. CASE Alike(c, d, {"active"})
  BY <1>1, <1>6
<1>7. CASE Alike(c, d, {"subscribed"})
  BY <1>1, <1>7
<1>8. CASE Alike(c, d, {"seats"})
  BY <1>1, <1>8
<1>9. CASE Alike(c, d, {"grants"})
  BY <1>1, <1>9
<1>10. CASE Alike(c, d, {"opening"})
  BY <1>1, <1>10
<1>11. CASE Alike(c, d, {"inactive"})
  BY <1>1, <1>11
<1> QED
  BY <1>3, <1>4, <1>5, <1>6, <1>7, <1>8, <1>9, <1>10, <1>11 DEF Single

\* A call that reads on about the person it is at.
LEMMA ReadsOn ==
  ASSUME NEW c, NEW r, NEW s, r.op \in Reading, Fair(r, c),
         s.session = r.session, s.person = r.person, s.todo = r.todo, s.ids = r.ids,
         s.seen = r.seen, s.fit = r.fit,
         Passed(r, r.person, r.op, c) => Passed(s, r.person, s.op, c),
         Blocked(r, r.person, r.op, c) => Blocked(s, r.person, s.op, c)
  PROVE  Fair(s, c)
<1>1. ASSUME NEW q \in r.todo
      PROVE  /\ Passed(r, q, OpFor(r, q), c) => Passed(s, q, OpFor(s, q), c)
             /\ Blocked(r, q, OpFor(r, q), c) => Blocked(s, q, OpFor(s, q), c)
  <2>1. OpFor(r, q) = "load organization" /\ OpFor(s, q) = "load organization"
    BY DEF Fair, OpFor
  <2>2. /\ "load organization" \in BeforeActive /\ "load organization" \in BeforeSubscribed
        /\ "load organization" \in BeforeSeat /\ "load organization" \in BeforeGrant
        /\ "load organization" \in BeforeRules
    BY Nested DEF BeforeActive
  <2> QED
    BY <2>1, <2>2 DEF Passed, Blocked, GrantFor, OpensFor
<1>2. OpFor(r, r.person) = r.op /\ OpFor(s, r.person) = s.op
  BY DEF OpFor
<1> QED
  BY <1>1, <1>2 DEF Fair

\* `holders' goes on to the next person.
LEMMA NextOfGood ==
  ASSUME NEW c, NEW r \in Call, r.op \in Reading, r.session = Null, Fair(r, c),
         NEW ids \in SUBSET Person, r.seen <= 1 => ids \subseteq r.fit
  PROVE  Good(NextOf(r, r.todo, ids), c)
<1> DEFINE n == NextOf(r, r.todo, ids)
<1>1. CASE r.todo = {}
  <2>1. n = [r EXCEPT !.op = "allow", !.todo = {}, !.ids = ids]
    BY <1>1 DEF NextOf
  <2>2. n.op = "allow" /\ n.session = Null /\ n.ids = ids /\ n.seen = r.seen /\ n.fit = r.fit
    BY <2>1 DEF Call
  <2> QED
    BY <2>2 DEF Good, Allowed, Reading
<1>2. CASE r.todo # {}
  <2> DEFINE p == CHOOSE q \in r.todo : TRUE
  <2>1. p \in r.todo
    BY <1>2
  <2>2. n = [r EXCEPT !.op = "load organization", !.person = p, !.todo = r.todo \ {p},
                      !.ids = ids, !.grant = Null, !.opens = FALSE]
    BY <1>2 DEF NextOf
  <2> HIDE DEF p
  <2>3. /\ n.op = "load organization" /\ n.person = p /\ n.todo = r.todo \ {p}
        /\ n.ids = ids /\ n.session = Null /\ n.seen = r.seen /\ n.fit = r.fit
    BY <2>2 DEF Call
  <2> HIDE DEF n
  <2>4. \A q \in Asked(n) : q \in Asked(r) /\ OpFor(r, q) = "load organization"
                            /\ OpFor(n, q) = "load organization"
    BY <2>1, <2>3 DEF Fair, OpFor
  <2>5. /\ "load organization" \in BeforeActive /\ "load organization" \in BeforeSubscribed
        /\ "load organization" \in BeforeSeat /\ "load organization" \in BeforeGrant
        /\ "load organization" \in BeforeRules
    BY Nested DEF BeforeActive
  <2>6. \A q \in Asked(n) :
          /\ Passed(r, q, "load organization", c) => Passed(n, q, "load organization", c)
          /\ Blocked(r, q, "load organization", c) => Blocked(n, q, "load organization", c)
    BY <2>3, <2>5 DEF Passed, Blocked, GrantFor, OpensFor
  <2>7. Fair(n, c)
    BY <2>3, <2>4, <2>6 DEF Fair
  <2>8. n.op # "allow"
    BY <2>3
  <2> QED
    BY <2>7, <2>8 DEF Good, n
<1> QED
  BY <1>1, <1>2

LEMMA StepGood ==
  ASSUME TypeOK, AllGood, NEW w \in Worker, NEW r, Step(w, r), Good(r, core)
  PROVE  AllGood'
<1>1. ASSUME NEW v \in Worker PROVE Good(req'[v], core)
  BY DEF Step, Put, AllGood, TypeOK
<1>2. core' = core
  BY DEF Step
<1> QED
  BY <1>1, <1>2 DEF AllGood

LEMMA IdleGood ==
  ASSUME NEW r, NEW c, r.op \notin Reading, r.op # "allow" PROVE Good(r, c)
BY DEF Good

LEMMA FreeGood == ASSUME NEW c PROVE Good(Free, c)
<1>1. Free.op = "none"
  BY DEF Free
<1>2. "none" \notin Reading
  BY DEF Reading
<1>3. Free.op \notin Reading /\ Free.op # "allow"
  BY <1>1, <1>2
<1> QED
  BY <1>3, IdleGood

LEMMA RefuseGood ==
  ASSUME TypeOK, AllGood, NEW w \in Worker, NEW k, RefuseAs(w, k) PROVE AllGood'
<1> DEFINE n == [op |-> "record", about |-> k]
<1>1. n.op = "record"
  OBVIOUS
<1>2. "record" \notin Reading
  BY DEF Reading
<1> HIDE DEF n
<1>3. n.op \notin Reading /\ n.op # "allow"
  BY <1>1, <1>2
<1>4. Good(n, core)
  BY <1>3, IdleGood
<1>5. Step(w, IF Recent(k) THEN Free ELSE n)
  BY DEF RefuseAs, n
<1> QED
  BY <1>4, <1>5, FreeGood, StepGood

\* A call that goes on to another reading, having found what this one asks for.
LEMMA GoOnGood ==
  ASSUME TypeOK, AllGood, NEW w \in Worker, req[w].op \in Reading,
         NEW op \in Reading \cup {"lapsed"}, GoOn(w, op),
         LET r == req[w] IN
           op \in Reading =>
             /\ Passed(r, r.person, r.op, core) => Passed(r, r.person, op, core)
             /\ Blocked(r, r.person, r.op, core) => Blocked(r, r.person, op, core)
  PROVE  AllGood'
<1> DEFINE r == req[w]
           n == [r EXCEPT !.op = op]
<1>1. r \in Call /\ Fair(r, core)
  BY IsCall DEF TypeOK, AllGood, Good
<1>2. /\ n.op = op /\ n.session = r.session /\ n.person = r.person /\ n.todo = r.todo
      /\ n.ids = r.ids /\ n.seen = r.seen /\ n.fit = r.fit /\ n.grant = r.grant
      /\ n.opens = r.opens
  BY <1>1 DEF Call
<1>3. Step(w, n)
  BY DEF GoOn
<1> HIDE DEF n
<1>4. CASE op \in Reading
  <2>1. /\ Passed(r, r.person, op, core) => Passed(n, r.person, op, core)
        /\ Blocked(r, r.person, op, core) => Blocked(n, r.person, op, core)
    BY <1>2 DEF Passed, Blocked, GrantFor, OpensFor
  <2>2. Fair(n, core)
    BY <1>1, <1>2, <1>4, <2>1, ReadsOn
  <2>3. Good(n, core)
    BY <1>2, <1>4, <2>2 DEF Good, Reading
  <2> QED
    BY <1>3, <2>3, StepGood
<1>5. CASE op = "lapsed"
  <2>1. Good(n, core)
    BY <1>2, <1>5, IdleGood DEF Reading
  <2> QED
    BY <1>3, <2>1, StepGood
<1> QED
  BY <1>4, <1>5

LEMMA CheckGood ==
  ASSUME TypeOK, AllGood, NEW w \in Worker, NEW s \in Session, Check(w, s)
  PROVE  AllGood'
<1> DEFINE n == [op |-> "session", session |-> s, person |-> Owner[s], grant |-> Null,
                 opens |-> FALSE, todo |-> {}, ids |-> {}, seen |-> 0,
                 fit |-> Deserving(core, s)]
<1>1. /\ n.op = "session" /\ n.session = s /\ n.person = Owner[s] /\ n.todo = {}
      /\ n.ids = {} /\ n.seen = 0 /\ n.fit = Deserving(core, s)
  OBVIOUS
<1>2. core.live /\ Step(w, n)
  BY DEF Check
<1> HIDE DEF n
<1>3. "session" \in BeforeSession
  BY DEF BeforeSession
<1>4. s # Null
  BY NullAssumption
<1>5. Passed(n, n.person, n.op, core)
  BY <1>1, <1>2, <1>3, <1>4, Nested DEF Passed
<1>6. \A q \in Asked(n) : q = n.person /\ OpFor(n, q) = n.op
  BY <1>1 DEF OpFor
<1>7. Fair(n, core)
  BY <1>1, <1>4, <1>5, <1>6 DEF Fair
<1>8. n.op # "allow"
  BY <1>1
<1>9. Good(n, core)
  BY <1>7, <1>8 DEF Good
<1> QED
  BY <1>2, <1>9, StepGood

LEMMA CheckSessionGood ==
  ASSUME TypeOK, AllGood, NEW w \in Worker, CheckSession(w) PROVE AllGood'
<1>1. req[w].op = "session" /\ "session" \in Reading /\ "account" \in Reading
  BY DEF CheckSession, Reading
<1>2. "session" \in BeforeSession /\ "account" \notin BeforeSession /\ "account" \in BeforeAccount
  BY DEF BeforeSession, BeforeAccount
<1>3. CASE req[w].session \in core.sessions
  <2>1. GoOn(w, "account")
    BY <1>3 DEF CheckSession
  <2>2. /\ Passed(req[w], req[w].person, "session", core) => Passed(req[w], req[w].person, "account", core)
        /\ Blocked(req[w], req[w].person, "session", core) => Blocked(req[w], req[w].person, "account", core)
    BY <1>2, <1>3, Nested DEF Passed, Blocked, GrantFor, OpensFor
  <2> QED
    BY <1>1, <2>1, <2>2, GoOnGood
<1>4. CASE req[w].session \notin core.sessions
  BY <1>4, FreeGood, StepGood DEF CheckSession
<1> QED
  BY <1>3, <1>4

LEMMA CheckAccountGood ==
  ASSUME TypeOK, AllGood, NEW w \in Worker, CheckAccount(w) PROVE AllGood'
<1> DEFINE trusted == Trusted(core.accounts[req[w].person])
<1>1. req[w].op = "account" /\ "account" \in Reading /\ "suspended" \in Reading
  BY DEF CheckAccount, Reading
<1>2. /\ "account" \notin BeforeSession /\ "suspended" \notin BeforeSession
      /\ "account" \in BeforeAccount /\ "suspended" \notin BeforeAccount
      /\ "suspended" \in BeforeActive
  BY DEF BeforeSession, BeforeAccount, BeforeActive
<1>3. CASE trusted
  <2>1. GoOn(w, "suspended")
    BY <1>3 DEF CheckAccount
  <2>2. /\ Passed(req[w], req[w].person, "account", core) => Passed(req[w], req[w].person, "suspended", core)
        /\ Blocked(req[w], req[w].person, "account", core) => Blocked(req[w], req[w].person, "suspended", core)
    BY <1>2, <1>3, Nested DEF Passed, Blocked, GrantFor, OpensFor
  <2> QED
    BY <1>1, <2>1, <2>2, GoOnGood
<1>4. CASE ~trusted
  BY <1>4, FreeGood, StepGood DEF CheckAccount
<1> QED
  BY <1>3, <1>4

LEMMA CheckOrganizationGood ==
  ASSUME TypeOK, AllGood, NEW w \in Worker, CheckOrganization(w) PROVE AllGood'
<1>1. req[w].op = "suspended" /\ "suspended" \in Reading /\ "organization" \in Reading
  BY DEF CheckOrganization, Reading
<1>2. /\ "suspended" \notin BeforeAccount /\ "organization" \notin BeforeAccount
      /\ "suspended" \in BeforeActive /\ "organization" \in BeforeActive
  BY DEF BeforeSession, BeforeAccount, BeforeActive
<1>3. CASE core.active
  <2>1. GoOn(w, "organization")
    BY <1>3 DEF CheckOrganization
  <2>2. /\ Passed(req[w], req[w].person, "suspended", core) => Passed(req[w], req[w].person, "organization", core)
        /\ Blocked(req[w], req[w].person, "suspended", core) => Blocked(req[w], req[w].person, "organization", core)
    BY <1>2, <1>3, Nested DEF Passed, Blocked, GrantFor, OpensFor
  <2> QED
    BY <1>1, <2>1, <2>2, GoOnGood
<1>4. CASE ~core.active
  BY <1>4, FreeGood, StepGood DEF CheckOrganization
<1> QED
  BY <1>3, <1>4

\* `entitled', of step 7 and of the load: what it finds is so, whichever of the
\* statements it is.
LEMMA FindsGood ==
  ASSUME NEW r, NEW c, NEW q, r.person = q,
         r.op \in {"organization", "subscription", "seat",
                   "load organization", "load subscription", "load seat"},
         CASE r.op \in {"organization", "load organization"} -> c.active
           [] r.op \in {"subscription", "load subscription"} -> c.subscribed
           [] r.op \in {"seat", "load seat"}                 -> q \in c.seats
  PROVE  /\ Passed(r, q, r.op, c) => Passed(r, q, Then(r.op), c)
         /\ Blocked(r, q, r.op, c) => Blocked(r, q, Then(r.op), c)
<1> USE Nested DEF Passed, Blocked, GrantFor, OpensFor
<1>1. CASE r.op \in {"organization", "subscription", "seat"}
  <2>1. Then(r.op) \in {"subscription", "seat", "load organization"}
    BY <1>1 DEF Then
  <2>2. /\ r.op \notin BeforeAccount /\ r.op \in BeforeActive
        /\ Then(r.op) \notin BeforeAccount /\ Then(r.op) \in BeforeActive
    BY <1>1, <2>1 DEF BeforeSession, BeforeAccount, BeforeActive
  <2> QED
    BY <2>2
<1>2. CASE r.op = "load organization"
  <2>1. Then(r.op) = "load subscription" /\ c.active
    BY <1>2 DEF Then
  <2>2. /\ "load organization" \notin BeforeAccount /\ "load organization" \in BeforeActive
        /\ "load subscription" \notin BeforeActive /\ "load subscription" \in BeforeSubscribed
    BY DEF BeforeSession, BeforeAccount, BeforeActive, BeforeSubscribed
  <2> QED
    BY <1>2, <2>1, <2>2
<1>3. CASE r.op = "load subscription"
  <2>1. Then(r.op) = "load seat" /\ c.subscribed
    BY <1>3 DEF Then
  <2>2. /\ "load subscription" \notin BeforeActive /\ "load subscription" \in BeforeSubscribed
        /\ "load seat" \notin BeforeSubscribed /\ "load seat" \in BeforeSeat
    BY DEF BeforeSession, BeforeAccount, BeforeActive, BeforeSubscribed, BeforeSeat
  <2> QED
    BY <1>3, <2>1, <2>2
<1>4. CASE r.op = "load seat"
  <2>1. Then(r.op) = "grants" /\ q \in c.seats
    BY <1>4 DEF Then
  <2>2. /\ "load seat" \notin BeforeSubscribed /\ "load seat" \in BeforeSeat
        /\ "grants" \notin BeforeSeat /\ "grants" \in BeforeGrant
    BY DEF BeforeSession, BeforeAccount, BeforeActive, BeforeSubscribed, BeforeSeat, BeforeGrant
  <2> QED
    BY <1>4, <2>1, <2>2
<1> QED
  BY <1>1, <1>2, <1>3, <1>4

LEMMA CheckSeatGood ==
  ASSUME TypeOK, AllGood, NEW w \in Worker, CheckSeat(w) PROVE AllGood'
<1> DEFINE r == req[w]
<1>1. r.op \in {"organization", "subscription", "seat"}
  BY DEF CheckSeat
<1>2. r.op \in Reading /\ Then(r.op) \in Reading
  BY <1>1 DEF Reading, Then
<1>3. CASE Finds(r)
  <2>1. GoOn(w, Then(r.op))
    BY <1>3 DEF CheckSeat
  <2>2. /\ Passed(r, r.person, r.op, core) => Passed(r, r.person, Then(r.op), core)
        /\ Blocked(r, r.person, r.op, core) => Blocked(r, r.person, Then(r.op), core)
    BY <1>1, <1>3, FindsGood DEF Finds
  <2> QED
    BY <1>2, <2>1, <2>2, GoOnGood
<1>4. CASE ~Finds(r)
  BY <1>4, RefuseGood DEF CheckSeat
<1> QED
  BY <1>3, <1>4

LEMMA HoldersGood ==
  ASSUME TypeOK, AllGood, NEW w \in Worker, Holders(w) PROVE AllGood'
<1> DEFINE seated == {p \in core.seats : core.accounts[p].status = "active"}
           first  == CHOOSE p \in seated : TRUE
           start  == [op |-> "seat", session |-> Null, person |-> first,
                      grant |-> Null, opens |-> FALSE, todo |-> {}, ids |-> {},
                      seen |-> 0, fit |-> Deserving(core, Null)]
           n      == NextOf(start, seated, {})
<1>0. core \in Core
  BY DEF TypeOK
<1>1. seated # {} /\ core.live /\ Step(w, n)
  BY DEF Holders
<1>2. /\ seated \in SUBSET Person
      /\ \A q \in seated : q \in core.seats /\ core.accounts[q].status = "active"
  BY <1>0 DEF Core
<1> HIDE DEF seated
<1>3. PICK p \in seated : n = [start EXCEPT !.op = "load organization", !.person = p,
                                          !.todo = seated \ {p}, !.ids = {},
                                          !.grant = Null, !.opens = FALSE]
  BY <1>1 DEF NextOf
<1>4. /\ n.op = "load organization" /\ n.person = p /\ n.todo = seated \ {p}
      /\ n.ids = {} /\ n.session = Null /\ n.seen = 0 /\ n.fit = Deserving(core, Null)
  BY <1>3
<1> HIDE DEF n
<1>5. \A q \in Asked(n) : q \in seated /\ OpFor(n, q) = "load organization"
  BY <1>3, <1>4 DEF OpFor
<1>6. "load organization" \in BeforeActive
  BY DEF BeforeActive
<1>7. \A q \in Asked(n) : Passed(n, q, OpFor(n, q), core)
  BY <1>2, <1>4, <1>5, <1>6, Nested DEF Passed
<1>8. Fair(n, core)
  <2>1. p \notin seated \ {p} /\ 0 # 1
    OBVIOUS
  <2>2. n.person \notin n.todo /\ n.seen # 1 /\ n.ids \subseteq n.fit
    BY <1>4, <2>1
  <2>3. n.fit = Deserving(core, n.session)
    BY <1>4
  <2> QED
    BY <1>4, <1>7, <2>2, <2>3 DEF Fair
<1>9. n.op # "allow"
  BY <1>4
<1>10. Good(n, core)
  BY <1>8, <1>9 DEF Good
<1> QED
  BY <1>1, <1>10, StepGood

LEMMA LoadEntitledGood ==
  ASSUME TypeOK, AllGood, NEW w \in Worker, LoadEntitled(w) PROVE AllGood'
<1> DEFINE r == req[w]
<1>1. r.op \in {"load organization", "load subscription", "load seat"}
  BY DEF LoadEntitled
<1>2. r.op \in Reading /\ Then(r.op) \in Reading
  BY <1>1 DEF Reading, Then
<1>3. CASE Finds(r)
  <2>1. GoOn(w, Then(r.op))
    BY <1>3 DEF LoadEntitled
  <2>2. /\ Passed(r, r.person, r.op, core) => Passed(r, r.person, Then(r.op), core)
        /\ Blocked(r, r.person, r.op, core) => Blocked(r, r.person, Then(r.op), core)
    BY <1>1, <1>3, FindsGood DEF Finds
  <2> QED
    BY <1>2, <2>1, <2>2, GoOnGood
<1>4. CASE ~Finds(r) /\ r.session # Null
  <2>1. GoOn(w, "lapsed")
    BY <1>4 DEF LoadEntitled
  <2>2. "lapsed" \notin Reading
    BY DEF Reading
  <2> QED
    BY <1>2, <2>1, <2>2, GoOnGood
<1>5. CASE ~Finds(r) /\ r.session = Null
  <2>1. r \in Call /\ Fair(r, core)
    BY <1>2, IsCall DEF TypeOK, AllGood, Good
  <2>2. r.ids \in SUBSET Person /\ (r.seen <= 1 => r.ids \subseteq r.fit)
    BY <2>1 DEF Call, Fair
  <2>3. Step(w, NextOf(r, r.todo, r.ids))
    BY <1>5 DEF LoadEntitled
  <2> QED
    BY <1>2, <1>5, <2>1, <2>2, <2>3, NextOfGood, StepGood
<1> QED
  BY <1>3, <1>4, <1>5

LEMMA LoadGrantsGood ==
  ASSUME TypeOK, AllGood, NEW w \in Worker, LoadGrants(w) PROVE AllGood'
<1> DEFINE r == req[w]
           n == [r EXCEPT !.op = "rules", !.grant = core.grants[r.person]]
<1>1. r.op = "grants" /\ Step(w, n)
  BY DEF LoadGrants
<1>2. r.op \in Reading /\ "rules" \in Reading /\ "rules" # "allow"
  BY <1>1 DEF Reading
<1>3. r \in Call /\ Fair(r, core)
  BY <1>2, IsCall DEF TypeOK, AllGood, Good
<1>4. /\ n.op = "rules" /\ n.session = r.session /\ n.person = r.person /\ n.todo = r.todo
      /\ n.ids = r.ids /\ n.seen = r.seen /\ n.fit = r.fit
      /\ n.grant = core.grants[r.person] /\ n.opens = r.opens
  BY <1>3 DEF Call
<1> HIDE DEF n
<1>5. /\ "grants" \notin BeforeSeat /\ "grants" \in BeforeGrant
      /\ "rules" \notin BeforeGrant /\ "rules" \in BeforeRules
  BY DEF BeforeSession, BeforeAccount, BeforeActive, BeforeSubscribed, BeforeSeat, BeforeGrant,
         BeforeRules
<1>6. /\ Passed(r, r.person, "grants", core) => Passed(n, r.person, "rules", core)
      /\ Blocked(r, r.person, "grants", core) => Blocked(n, r.person, "rules", core)
  BY <1>4, <1>5, Nested DEF Passed, Blocked, GrantFor, OpensFor
<1>7. Fair(n, core)
  BY <1>1, <1>2, <1>3, <1>4, <1>6, ReadsOn
<1>8. Good(n, core)
  BY <1>2, <1>4, <1>7 DEF Good
<1> QED
  BY <1>1, <1>8, StepGood

LEMMA LoadRulesGood ==
  ASSUME TypeOK, AllGood, NEW w \in Worker, LoadRules(w) PROVE AllGood'
<1> DEFINE r == req[w]
           n == [r EXCEPT !.op = "statuses", !.opens = r.grant \in core.opening]
<1>1. r.op = "rules" /\ Step(w, n)
  BY DEF LoadRules
<1>2. r.op \in Reading /\ "statuses" \in Reading /\ "statuses" # "allow"
  BY <1>1 DEF Reading
<1>3. r \in Call /\ Fair(r, core)
  BY <1>2, IsCall DEF TypeOK, AllGood, Good
<1>4. /\ n.op = "statuses" /\ n.session = r.session /\ n.person = r.person /\ n.todo = r.todo
      /\ n.ids = r.ids /\ n.seen = r.seen /\ n.fit = r.fit /\ n.grant = r.grant
      /\ n.opens <=> r.grant \in core.opening
  BY <1>3 DEF Call
<1> HIDE DEF n
<1>5. /\ "rules" \notin BeforeGrant /\ "rules" \in BeforeRules
      /\ "statuses" \notin BeforeRules
  BY DEF BeforeSession, BeforeAccount, BeforeActive, BeforeSubscribed, BeforeSeat, BeforeGrant,
         BeforeRules
<1>6. /\ Passed(r, r.person, "rules", core) => Passed(n, r.person, "statuses", core)
      /\ Blocked(r, r.person, "rules", core) => Blocked(n, r.person, "statuses", core)
  BY <1>4, <1>5, Nested DEF Passed, Blocked, GrantFor, OpensFor, ShutOut
<1>7. Fair(n, core)
  BY <1>1, <1>2, <1>3, <1>4, <1>6, ReadsOn
<1>8. Good(n, core)
  BY <1>2, <1>4, <1>7 DEF Good
<1> QED
  BY <1>1, <1>8, StepGood

\* At the last reading, whoever has passed everything and is let in by it, is
\* among those who deserve it.
LEMMA LastReading ==
  ASSUME NEW r, NEW c, NEW q \in Person, Passed(r, q, "statuses", c),
         r.session # Null => Owner[r.session] = q,
         ~Blocked(r, q, "statuses", c)
  PROVE  q \in Deserving(c, r.session)
<1>1. "statuses" \notin BeforeRules
  BY DEF BeforeSession, BeforeAccount, BeforeActive, BeforeSubscribed, BeforeSeat, BeforeGrant,
         BeforeRules
<1> QED
  BY <1>1, Nested
     DEF Passed, Blocked, GrantFor, OpensFor, Deserving, EntitledTo, ShutOut, Opened

LEMMA DecideGood ==
  ASSUME TypeOK, AllGood, NEW w \in Worker, Decide(w) PROVE AllGood'
<1> DEFINE r == req[w]
           allowed == r.opens /\ ~core.inactive
           ids     == IF allowed THEN r.ids \cup {r.person} ELSE r.ids
<1>1. r.op = "statuses" /\ r.op \in Reading
  BY DEF Decide, Reading
<1>2. r \in Call /\ Fair(r, core)
  BY <1>1, IsCall DEF TypeOK, AllGood, Good
<1>3. r.person \in Person /\ r.ids \in SUBSET Person /\ r.seen \in 0..2
  BY <1>2 DEF Call
<1>4. r.person \in Asked(r) /\ OpFor(r, r.person) = "statuses"
  BY <1>1 DEF OpFor
<1>5. "statuses" \notin BeforeRules
  BY DEF BeforeSession, BeforeAccount, BeforeActive, BeforeSubscribed, BeforeSeat, BeforeGrant,
         BeforeRules
<1>6. ASSUME r.seen <= 1, ~Blocked(r, r.person, "statuses", core) PROVE r.person \in r.fit
  <2>1. CASE r.seen = 0
    <3>1. /\ r.fit = Deserving(core, r.session) /\ Passed(r, r.person, "statuses", core)
          /\ r.session # Null => Owner[r.session] = r.person
      BY <1>2, <1>4, <2>1 DEF Fair
    <3> QED
      BY <1>3, <1>6, <3>1, LastReading
  <2>2. CASE r.seen = 1
    BY <1>2, <1>4, <1>6, <2>2 DEF Fair
  <2> QED
    BY <1>3, <1>6, <2>1, <2>2
<1>7. CASE r.session = Null
  <2>1. Step(w, NextOf(r, r.todo, ids))
    BY <1>7 DEF Decide
  <2>2. allowed => ~Blocked(r, r.person, "statuses", core)
    BY <1>5, <1>7, Nested DEF Blocked, OpensFor
  <2>3. ids \in SUBSET Person /\ (r.seen <= 1 => ids \subseteq r.fit)
    BY <1>2, <1>3, <1>6, <2>2 DEF Fair
  <2> HIDE DEF ids
  <2> QED
    BY <1>1, <1>2, <1>7, <2>1, <2>3, NextOfGood, StepGood
<1>8. CASE r.session # Null /\ ShutOut(r.grant, r.opens, core.inactive)
  BY <1>8, RefuseGood DEF Decide
<1>9. CASE r.session # Null /\ ~ShutOut(r.grant, r.opens, core.inactive)
  <2> DEFINE n == [r EXCEPT !.op = "allow"]
  <2>1. Step(w, n)
    BY <1>9 DEF Decide, GoOn
  <2>2. ~Blocked(r, r.person, "statuses", core)
    BY <1>5, <1>9, Nested DEF Blocked, OpensFor, GrantFor
  <2>3. /\ n.op = "allow" /\ n.session = r.session /\ n.person = r.person
        /\ n.seen = r.seen /\ n.fit = r.fit
    BY <1>2 DEF Call
  <2>4. n.op \notin Reading
    BY <2>3 DEF Reading
  <2> HIDE DEF n
  <2>5. Good(n, core)
    BY <1>6, <1>9, <2>2, <2>3, <2>4 DEF Good, Allowed
  <2> QED
    BY <2>1, <2>5, StepGood
<1> QED
  BY <1>7, <1>8, <1>9

LEMMA CallStepGood ==
  ASSUME TypeOK, AllGood, NEW w \in Worker, CallStep(w) PROVE AllGood'
<1>1. ASSUME NEW k \in BadCall, RefuseCaller(w, k) PROVE AllGood'
  BY <1>1, RefuseGood DEF RefuseCaller
<1>2. CASE Answer(w) \/ Abort(w)
  BY <1>2, FreeGood, StepGood DEF Answer, Abort
<1> QED
  BY <1>1, <1>2, CheckGood, CheckSessionGood, CheckAccountGood, CheckOrganizationGood,
     CheckSeatGood, HoldersGood, LoadEntitledGood, LoadGrantsGood, LoadRulesGood, DecideGood
     DEF CallStep

LEMMA RecordGood ==
  ASSUME TypeOK, AllGood, NEW w \in Worker, Record(w) PROVE AllGood'
<1>1. ASSUME NEW v \in Worker PROVE Good(req'[v], core)
  BY FreeGood DEF Record, Put, AllGood, TypeOK
<1> QED
  BY <1>1 DEF Record, AllGood

\* A change of the tables, for a call that reads.
LEMMA ChangeReads ==
  ASSUME NEW c \in Core, NEW d \in Core, NEW r \in Call, r.op \in Reading, Fair(r, c),
         NEW n \in 1..2, n = 1 => Single(c, d),
         NEW s \in Call, s.session = r.session, s.person = r.person, s.todo = r.todo,
         s.ids = r.ids, s.op = r.op, s.grant = r.grant, s.opens = r.opens,
         s.seen = (IF r.seen + n > 2 THEN 2 ELSE r.seen + n),
         s.fit = r.fit \cup Deserving(d, r.session)
  PROVE  Good(s, d)
<1>1. r.seen \in 0..2
  BY DEF Call
<1>2. s.seen # 0 /\ (s.seen = 1 => r.seen = 0 /\ n = 1) /\ (s.seen <= 1 => r.seen <= 1)
  BY <1>1
<1>3. s.seen <= 1 => s.ids \subseteq s.fit
  BY <1>2 DEF Fair
<1>4. ASSUME s.seen = 1, NEW q \in Asked(s), q \notin s.fit
      PROVE  Blocked(s, q, OpFor(s, q), d)
  <2>1. /\ r.fit = Deserving(c, r.session) /\ q \in Asked(r)
        /\ Passed(r, q, OpFor(r, q), c)
        /\ r.session # Null => Owner[r.session] = q
    BY <1>2, <1>4 DEF Fair
  <2>2. q \in Person
    BY <1>4 DEF Call
  <2>3. q \notin Deserving(c, r.session) /\ q \notin Deserving(d, r.session)
    BY <1>4, <2>1
  <2>4. Blocked(r, q, OpFor(r, q), d)
    BY <1>2, <1>4, <2>1, <2>2, <2>3, StaysBlocked
  <2>5. OpFor(s, q) = OpFor(r, q)
    BY DEF OpFor
  <2> QED
    BY <2>4, <2>5 DEF Blocked, GrantFor, OpensFor
<1>5. Fair(s, d)
  BY <1>2, <1>3, <1>4 DEF Fair
<1>6. s.op # "allow"
  BY DEF Reading
<1> QED
  BY <1>5, <1>6 DEF Good

LEMMA ChangeGood ==
  ASSUME TypeOK, AllGood, NEW n \in 1..2, NEW c \in Core, ChangeOf(n, c),
         n = 1 => Single(core, c)
  PROVE  AllGood'
<1>1. core \in Core /\ core' = c
  BY DEF TypeOK, ChangeOf
<1>2. ASSUME NEW w \in Worker PROVE Good(req'[w], c)
  <2> DEFINE r == req[w]
  <2>1. CASE r.op \in Reading
    <3> DEFINE seen == IF r.seen + n > 2 THEN 2 ELSE r.seen + n
               fit  == r.fit \cup Deserving(c, r.session)
               s    == [r EXCEPT !.seen = seen, !.fit = fit]
    <3>1. r \in Call /\ Fair(r, core)
      BY <2>1, IsCall DEF TypeOK, AllGood, Good
    <3>2. seen \in 0..2 /\ fit \in SUBSET Person
      BY <3>1, DeservingType DEF Call
    <3>3. req'[w] = s
      BY <2>1 DEF ChangeOf
    <3>4. /\ s \in Call /\ s.session = r.session /\ s.person = r.person /\ s.todo = r.todo
          /\ s.ids = r.ids /\ s.op = r.op /\ s.grant = r.grant /\ s.opens = r.opens
          /\ s.seen = seen /\ s.fit = fit
      <4> HIDE DEF seen, fit
      <4> QED
        BY <3>1, <3>2 DEF Call
    <3> HIDE DEF s
    <3>5. Good(s, c)
      BY <1>1, <2>1, <3>1, <3>4, ChangeReads
    <3> QED
      BY <3>3, <3>5
  <2>2. CASE r.op \notin Reading
    BY <2>2 DEF ChangeOf, AllGood, Good
  <2> QED
    BY <2>1, <2>2
<1> QED
  BY <1>1, <1>2 DEF AllGood

-----------------------------------------------------------------------------
(* The audit is bounded.                                                    *)

LEMMA Sizes ==
  ASSUME NEW S \in SUBSET Worker PROVE IsFiniteSet(S) /\ Cardinality(S) \in Nat
BY GateAssumption, FS_Subset, FS_CardinalityType

LEMMA Fewer ==
  ASSUME NEW T, IsFiniteSet(T), NEW S \in SUBSET T PROVE Cardinality(S) <= Cardinality(T)
BY FS_Subset

LEMMA WindowSize ==
  ASSUME TypeOK, NEW k \in Refusal, NEW i
  PROVE  IsFiniteSet(Window(k, i)) /\ Cardinality(Window(k, i)) \in Nat
<1>1. Len(audit[k]) \in Nat /\ DOMAIN audit[k] = 1..Len(audit[k])
  BY DEF TypeOK
<1>2. IsFiniteSet(DOMAIN audit[k])
  BY <1>1, FS_Interval
<1> QED
  BY <1>2, FS_Subset, FS_CardinalityType DEF Window

\* The numbers the bound is about are numbers.
LEMMA Numbers ==
  ASSUME TypeOK, NEW k \in Refusal
  PROVE  /\ now \in Nat /\ peak \in Nat /\ Every(k) \in Nat
         /\ Cardinality(Recorders(k)) \in Nat
         /\ \A i \in DOMAIN audit[k] : audit[k][i] \in Nat
<1>1. now \in Nat /\ Every(k) \in Nat /\ \A i \in DOMAIN audit[k] : audit[k][i] \in Nat
  BY GateAssumption DEF TypeOK, Every
<1>2. Cardinality(Worker) \in Nat
  BY GateAssumption, FS_CardinalityType
<1>3. peak \in Nat
  BY <1>2 DEF TypeOK
<1>4. Cardinality(Recorders(k)) \in Nat
  BY Sizes DEF Recorders
<1> QED
  BY <1>1, <1>3, <1>4

LEMMA PutPeak ==
  ASSUME TypeOK, NEW w \in Worker, NEW r, Put(w, r), InFlight(req) <= peak
  PROVE  /\ InFlight(req') <= peak' /\ peak <= peak' /\ peak' \in Nat
         /\ \A v \in Worker : req'[v] = IF v = w THEN r ELSE req[v]
<1>1. InFlight(req') \in Nat /\ peak \in Nat
  <2>1. Cardinality(Worker) \in Nat
    BY GateAssumption, FS_CardinalityType
  <2> QED
    BY <2>1, InFlightType DEF TypeOK
<1> QED
  BY <1>1 DEF Put, TypeOK

\* Where the rows stay, and nobody new is about to write one while one is recent.
LEMMA RowsStay ==
  ASSUME TypeOK, RowsBounded, TypeOK', UNCHANGED audit, now <= now', peak <= peak',
         InFlight(req)' <= peak',
         \A k \in Refusal : Recent(k) => Recorders(k)' \subseteq Recorders(k)
  PROVE  RowsBounded'
<1>1. ASSUME NEW k \in Refusal, NEW i \in DOMAIN audit[k]
      PROVE  /\ audit[k][i] <= now' /\ Cardinality(Window(k, i)) <= peak'
             /\ now' <= audit[k][i] + Every(k) =>
                  Cardinality(Window(k, i)) + Cardinality(Recorders(k)') <= peak'
  <2>1. /\ now \in Nat /\ peak \in Nat /\ Every(k) \in Nat /\ audit[k][i] \in Nat
        /\ Cardinality(Recorders(k)) \in Nat /\ Cardinality(Window(k, i)) \in Nat
    BY Numbers, WindowSize
  <2>2. now' \in Nat /\ peak' \in Nat
    <3>1. Cardinality(Worker) \in Nat
      BY GateAssumption, FS_CardinalityType
    <3> QED
      BY <3>1, GateAssumption DEF TypeOK
  <2>3. /\ audit[k][i] <= now /\ Cardinality(Window(k, i)) <= peak
        /\ now <= audit[k][i] + Every(k) =>
             Cardinality(Window(k, i)) + Cardinality(Recorders(k)) <= peak
    BY DEF RowsBounded
  <2>4. ASSUME now' <= audit[k][i] + Every(k)
        PROVE  Cardinality(Recorders(k)') <= Cardinality(Recorders(k)) /\ Cardinality(Recorders(k)') \in Nat
    <3>1. Recent(k)
      BY <2>1, <2>2, <2>4 DEF Recent
    <3>2. Recorders(k)' \subseteq Recorders(k) /\ Recorders(k) \in SUBSET Worker
      BY <3>1 DEF Recorders
    <3> QED
      BY <3>2, Sizes, Fewer
  <2> QED
    BY <2>1, <2>2, <2>3, <2>4
<1>2. ASSUME NEW k \in Refusal PROVE \A i : Window(k, i)' = Window(k, i)
  BY DEF Window
<1> QED
  BY <1>1, <1>2 DEF RowsBounded

LEMMA NoRecord ==
  ASSUME NEW r \in {Free} \cup Call, NEW k PROVE r # [op |-> "record", about |-> k]
<1>1. Free.op # "record"
  BY DEF Free
<1>2. r \in Call => r.op # "record"
  BY DEF Call, Reading
<1> QED
  BY <1>1, <1>2

LEMMA MovesRows ==
  ASSUME TypeOK, RowsBounded, NEW w \in Worker, Moves(w) PROVE RowsBounded'
<1>1. ASSUME NEW r, Step(w, r), \A k \in Refusal : Recent(k) => r # [op |-> "record", about |-> k]
      PROVE  RowsBounded'
  <2>1. TypeOK' /\ now \in Nat
    BY MovesType DEF TypeOK
  <2>2. /\ InFlight(req') <= peak' /\ peak <= peak'
        /\ \A v \in Worker : req'[v] = IF v = w THEN r ELSE req[v]
    BY <1>1, PutPeak DEF Step, RowsBounded
  <2>3. \A k \in Refusal : Recent(k) => Recorders(k)' \subseteq Recorders(k)
    BY <1>1, <2>2 DEF Recorders
  <2>4. InFlight(req)' <= peak'
    BY <2>2 DEF InFlight
  <2>5. UNCHANGED audit /\ now <= now'
    BY <1>1, <2>1 DEF Step
  <2> QED
    BY <2>1, <2>2, <2>3, <2>4, <2>5, RowsStay
<1>2. ASSUME NEW r \in {Free} \cup Call, Step(w, r) PROVE RowsBounded'
  BY <1>1, <1>2, NoRecord
<1>3. ASSUME NEW k \in Refusal, RefuseAs(w, k) PROVE RowsBounded'
  <2>1. CASE Recent(k)
    <3>1. Step(w, Free)
      BY <1>3, <2>1 DEF RefuseAs
    <3> QED
      BY <1>2, <3>1
  <2>2. CASE ~Recent(k)
    <3>1. Step(w, [op |-> "record", about |-> k])
      BY <1>3, <2>2 DEF RefuseAs
    <3>2. \A l \in Refusal : Recent(l) => l # k
      BY <2>2
    <3>3. \A l \in Refusal : Recent(l) => [op |-> "record", about |-> k] # [op |-> "record", about |-> l]
      BY <3>2
    <3> QED
      BY <1>1, <3>1, <3>3
  <2> QED
    BY <2>1, <2>2
<1> QED
  BY <1>2, <1>3 DEF Moves

LEMMA ChangeRows ==
  ASSUME TypeOK, TypeOK', RowsBounded, NEW n \in 1..2, NEW c, ChangeOf(n, c)
  PROVE  RowsBounded'
<1>1. ASSUME NEW w \in Worker
      PROVE  /\ req'[w] # Free <=> req[w] # Free
             /\ \A k : req'[w] = [op |-> "record", about |-> k] => req[w] = req'[w]
  <2>1. CASE req[w].op \in Reading
    <3>1. req[w] \in Call
      BY <2>1, IsCall DEF TypeOK
    <3>2. req'[w].op = req[w].op
      BY <2>1, <3>1 DEF ChangeOf, Call
    <3>3. Free.op \notin Reading /\ \A k : [op |-> "record", about |-> k].op \notin Reading
      <4>1. Free.op = "none" /\ \A k : [op |-> "record", about |-> k].op = "record"
        BY DEF Free
      <4>2. "none" \notin Reading /\ "record" \notin Reading
        BY DEF Reading
      <4> QED
        BY <4>1, <4>2
    <3>4. req[w] # Free /\ req'[w] # Free
      BY <2>1, <3>2, <3>3
    <3>5. \A k : req'[w] # [op |-> "record", about |-> k]
      BY <2>1, <3>2, <3>3
    <3> QED
      BY <3>4, <3>5
  <2>2. CASE req[w].op \notin Reading
    BY <2>2 DEF ChangeOf
  <2> QED
    BY <2>1, <2>2
<1>2. {w \in Worker : req'[w] # Free} = {w \in Worker : req[w] # Free}
  BY <1>1
<1>3. InFlight(req)' = InFlight(req)
  BY <1>2 DEF InFlight
<1>4. \A k \in Refusal : Recorders(k)' \subseteq Recorders(k)
  BY <1>1 DEF Recorders
<1>5. now \in Nat /\ peak \in Nat
  <2>1. Cardinality(Worker) \in Nat
    BY GateAssumption, FS_CardinalityType
  <2> QED
    BY <2>1, GateAssumption DEF TypeOK
<1>6. UNCHANGED <<audit, now, peak>>
  BY DEF ChangeOf
<1>7. now <= now' /\ peak <= peak' /\ InFlight(req)' <= peak'
  BY <1>3, <1>5, <1>6 DEF RowsBounded
<1> QED
  BY <1>4, <1>6, <1>7, RowsStay

LEMMA TickRows ==
  ASSUME TypeOK, RowsBounded, Tick PROVE TypeOK' /\ RowsBounded'
<1>1. now \in Nat /\ MaxTime \in Nat /\ peak \in Nat
  <2>1. Cardinality(Worker) \in Nat
    BY GateAssumption, FS_CardinalityType
  <2> QED
    BY <2>1, GateAssumption DEF TypeOK
<1>2. TypeOK'
  BY <1>1 DEF Tick, TypeOK, NothingOutlives
<1>3. InFlight(req)' = InFlight(req) /\ \A k \in Refusal : Recorders(k)' = Recorders(k)
  BY DEF Tick, InFlight, Recorders
<1>4. UNCHANGED audit /\ now <= now' /\ peak <= peak' /\ InFlight(req)' <= peak'
  BY <1>1, <1>3 DEF Tick, RowsBounded
<1> QED
  BY <1>2, <1>3, <1>4, RowsStay

\* A row is written: by a call that had found none.
LEMMA RecordRows ==
  ASSUME TypeOK, TypeOK', RowsBounded, NEW w \in Worker, Record(w) PROVE RowsBounded'
<1>1. PICK k \in Refusal : req[w] = [op |-> "record", about |-> k]
  <2>1. req[w] \in Request /\ req[w].op = "record"
    BY DEF TypeOK, Record
  <2>2. req[w] # Free
    BY <2>1 DEF Free
  <2>3. req[w] \notin Call
    BY <2>1 DEF Call, Reading
  <2> QED
    BY <2>1, <2>2, <2>3 DEF Request
<1>2. /\ InFlight(req') <= peak' /\ peak <= peak' /\ peak' \in Nat
      /\ \A v \in Worker : req'[v] = IF v = w THEN Free ELSE req[v]
  BY PutPeak DEF Record, RowsBounded
<1>3. /\ now \in Nat /\ now' = now
      /\ audit' = [audit EXCEPT ![k] = Append(@, now)]
  BY <1>1 DEF Record, TypeOK
<1>4. \A l \in Refusal \ {k} : audit'[l] = audit[l] /\ \A i : Window(l, i)' = Window(l, i)
  BY <1>3 DEF TypeOK, Window
<1>0. PICK n \in Nat \ {0} : n = Len(audit[k]) + 1
  BY <1>1 DEF TypeOK
<1>5. /\ n \in Nat \ {0} /\ DOMAIN audit[k] = 1..(n - 1) /\ DOMAIN audit'[k] = 1..n
      /\ audit'[k][n] = now /\ \A i \in 1..(n - 1) : audit'[k][i] = audit[k][i]
  BY <1>0, <1>1, <1>3 DEF TypeOK
<1>6. \A l \in Refusal : Recorders(l)' \subseteq Recorders(l) /\ Recorders(l) \in SUBSET Worker
  <2>1. \A l : Free # [op |-> "record", about |-> l]
    BY NoRecord
  <2> QED
    BY <1>2, <2>1 DEF Recorders
<1>7. w \in Recorders(k) /\ Recorders(k)' \subseteq Recorders(k) \ {w}
  <2>1. Free # [op |-> "record", about |-> k]
    BY NoRecord
  <2> QED
    BY <1>1, <1>2, <2>1 DEF Recorders
<1>8. \A l \in Refusal : Cardinality(Recorders(l)') <= Cardinality(Recorders(l))
  BY <1>6, Sizes, Fewer
<1>9. Cardinality(Recorders(k)') + 1 <= Cardinality(Recorders(k))
  <2>1. /\ IsFiniteSet(Recorders(k)) /\ Cardinality(Recorders(k)) \in Nat
        /\ IsFiniteSet(Recorders(k) \ {w}) /\ Cardinality(Recorders(k) \ {w}) \in Nat
        /\ Cardinality(Recorders(k)') \in Nat
    BY <1>1, <1>6, Sizes
  <2>2. Cardinality(Recorders(k) \ {w}) = Cardinality(Recorders(k)) - 1
    BY <1>7, <2>1, FS_RemoveElement
  <2>3. Cardinality(Recorders(k)') <= Cardinality(Recorders(k) \ {w})
    BY <1>7, <2>1, Fewer
  <2> QED
    BY <2>1, <2>2, <2>3
<1>10. Cardinality(Recorders(k)) <= InFlight(req)
  <2>1. Recorders(k) \subseteq {v \in Worker : req[v] # Free}
    <3>1. Free # [op |-> "record", about |-> k]
      BY NoRecord
    <3> QED
      BY <3>1 DEF Recorders
  <2>2. IsFiniteSet({v \in Worker : req[v] # Free})
    BY Sizes
  <2> QED
    BY <2>1, <2>2, Fewer DEF InFlight
<1> DEFINE Fits(l, i) ==
             /\ audit'[l][i] <= now'
             /\ Cardinality(Window(l, i)') <= peak'
             /\ now' <= audit'[l][i] + Every(l) =>
                  Cardinality(Window(l, i)') + Cardinality(Recorders(l)') <= peak'
<1>11. ASSUME NEW l \in Refusal \ {k}, NEW i \in DOMAIN audit'[l] PROVE Fits(l, i)
  <2>1. /\ now \in Nat /\ peak \in Nat /\ Every(l) \in Nat /\ audit[l][i] \in Nat
        /\ Cardinality(Recorders(l)) \in Nat /\ Cardinality(Window(l, i)) \in Nat
        /\ Cardinality(Recorders(l)') \in Nat
    BY <1>4, <1>6, <1>11, Numbers, WindowSize, Sizes
  <2>2. /\ audit[l][i] <= now /\ Cardinality(Window(l, i)) <= peak
        /\ now <= audit[l][i] + Every(l) =>
             Cardinality(Window(l, i)) + Cardinality(Recorders(l)) <= peak
    BY <1>4, <1>11 DEF RowsBounded
  <2>3. audit'[l][i] = audit[l][i] /\ Window(l, i)' = Window(l, i)
    BY <1>4, <1>11
  <2>4. Cardinality(Recorders(l)') <= Cardinality(Recorders(l))
    BY <1>8
  <2> QED
    BY <1>2, <1>3, <2>1, <2>2, <2>3, <2>4
\* The rows there were: the new one is in their window if the window is open.
<1>12. ASSUME NEW i \in 1..(n - 1) PROVE Fits(k, i)
  <2>1. /\ peak \in Nat /\ Every(k) \in Nat /\ audit[k][i] \in Nat
        /\ Cardinality(Recorders(k)) \in Nat /\ Cardinality(Window(k, i)) \in Nat
        /\ IsFiniteSet(Window(k, i)) /\ Cardinality(Recorders(k)') \in Nat
    BY <1>1, <1>5, <1>6, Numbers, WindowSize, Sizes
  <2>2. /\ audit[k][i] <= now /\ Cardinality(Window(k, i)) <= peak
        /\ now <= audit[k][i] + Every(k) =>
             Cardinality(Window(k, i)) + Cardinality(Recorders(k)) <= peak
    BY <1>1, <1>5 DEF RowsBounded
  <2>3. audit'[k][i] = audit[k][i]
    BY <1>5
  <2>4. CASE now <= audit[k][i] + Every(k)
    <3>1. Window(k, i)' = Window(k, i) \cup {n} /\ n \notin Window(k, i)
      <4>1. 1..n = 1..(n - 1) \cup {n} /\ n \notin 1..(n - 1)
        BY <1>5
      <4>2. now \in audit[k][i]..(audit[k][i] + Every(k))
        BY <1>3, <2>1, <2>2, <2>4
      <4> QED
        BY <1>5, <2>3, <4>1, <4>2 DEF Window
    <3>2. Cardinality(Window(k, i)') = Cardinality(Window(k, i)) + 1
      BY <2>1, <3>1, FS_AddElement
    <3>3. Cardinality(Window(k, i)) + Cardinality(Recorders(k)) <= peak /\ peak <= peak'
      BY <1>2, <2>2, <2>4
    <3>4. Cardinality(Window(k, i)') + Cardinality(Recorders(k)') <= peak'
      BY <1>2, <1>9, <2>1, <3>2, <3>3
    <3>5. Cardinality(Window(k, i)') <= peak'
      BY <1>2, <2>1, <3>2, <3>4
    <3>6. audit'[k][i] <= now'
      BY <1>3, <2>2, <2>3
    <3> QED
      BY <3>4, <3>5, <3>6
  <2>5. CASE ~(now <= audit[k][i] + Every(k))
    <3>1. Window(k, i)' = Window(k, i)
      <4>1. 1..n = 1..(n - 1) \cup {n}
        BY <1>5
      <4>2. now \notin audit[k][i]..(audit[k][i] + Every(k))
        BY <1>3, <2>1, <2>5
      <4> QED
        BY <1>5, <2>3, <4>1, <4>2 DEF Window
    <3>2. Cardinality(Window(k, i)') <= peak'
      BY <1>2, <2>1, <2>2, <3>1
    <3>3. audit'[k][i] <= now' /\ ~(now' <= audit'[k][i] + Every(k))
      BY <1>3, <2>2, <2>3, <2>5
    <3> QED
      BY <3>2, <3>3
  <2> QED
    BY <2>4, <2>5
\* The new row's window holds what another's of the same moment holds, or nothing
\* besides.
<1>13. Fits(k, n)
  <2>1. CASE \E i \in 1..(n - 1) : audit[k][i] = now
    <3>1. PICK i \in 1..(n - 1) : audit[k][i] = now
      BY <2>1
    <3>2. audit'[k][i] = audit'[k][n] /\ Window(k, i)' = Window(k, n)'
      BY <1>5, <3>1 DEF Window
    <3> QED
      BY <1>12, <3>2
  <2>2. CASE ~\E i \in 1..(n - 1) : audit[k][i] = now
    <3>1. \A i \in 1..(n - 1) : audit[k][i] \in Nat /\ audit[k][i] < now
      BY <1>1, <1>3, <1>5, <2>2, Numbers DEF RowsBounded
    <3>2. Every(k) \in Nat /\ peak \in Nat
      BY <1>1, Numbers
    <3>3. Window(k, n)' = {n}
      <4>1. 1..n = 1..(n - 1) \cup {n}
        BY <1>5
      <4>2. now \in now..(now + Every(k)) /\ \A i \in 1..(n - 1) : audit[k][i] \notin now..(now + Every(k))
        BY <1>3, <3>1, <3>2
      <4> QED
        BY <1>5, <4>1, <4>2 DEF Window
    <3>4. Cardinality(Window(k, n)') = 1
      BY <3>3, FS_Singleton
    <3>5. /\ Cardinality(Recorders(k)') + 1 <= peak
      <4>1. Cardinality(Recorders(k)) \in Nat /\ Cardinality(Recorders(k)') \in Nat
            /\ InFlight(req) \in Nat
        <5>1. Cardinality(Worker) \in Nat
          BY GateAssumption, FS_CardinalityType
        <5> QED
          BY <1>1, <1>6, <5>1, Sizes, InFlightType
      <4> QED
        BY <1>9, <1>10, <3>2, <4>1 DEF RowsBounded
    <3>6. Cardinality(Recorders(k)') \in Nat
      BY <1>1, <1>6, Sizes
    <3> QED
      BY <1>2, <1>3, <1>5, <3>2, <3>4, <3>5, <3>6
  <2> QED
    BY <2>1, <2>2
<1>14. \A l \in Refusal : \A i \in DOMAIN audit'[l] : Fits(l, i)
  <2>1. \A i \in DOMAIN audit'[k] : i \in 1..(n - 1) \/ i = n
    BY <1>5
  <2> QED
    BY <1>11, <1>12, <1>13, <2>1
<1>15. InFlight(req)' <= peak'
  BY <1>2 DEF InFlight
<1> QED
  BY <1>14, <1>15 DEF RowsBounded

-----------------------------------------------------------------------------
(* The theorems.                                                            *)

Inv == TypeOK /\ AllGood /\ RowsBounded

LEMMA InvInit == ASSUME Init PROVE Inv
<1>1. \A w \in Worker : req[w] = Free
  BY DEF Init
<1>2. {w \in Worker : req[w] # Free} = {}
  BY <1>1
<1>3. InFlight(req) = 0
  BY <1>2, FS_EmptySet DEF InFlight
<1>4. Cardinality(Worker) \in Nat
  BY GateAssumption, FS_CardinalityType
<1>5. TypeOK
  <2>1. core \in Core /\ NothingOutlives(core)
    BY InitiallyAssumption DEF Init
  <2>2. audit \in [Refusal -> Seq(0..MaxTime)] /\ req \in [Worker -> Request]
    BY FreeType DEF Init
  <2> QED
    BY <1>4, <2>1, <2>2, GateAssumption DEF Init, TypeOK
<1>6. AllGood
  BY <1>1, FreeGood DEF AllGood
<1>7. RowsBounded
  <2>1. \A k \in Refusal : DOMAIN audit[k] = {}
    BY DEF Init
  <2>2. InFlight(req) <= peak
    BY <1>3 DEF Init
  <2> QED
    BY <2>1, <2>2 DEF RowsBounded
<1> QED
  BY <1>5, <1>6, <1>7 DEF Inv

LEMMA InvNext == ASSUME Inv, [Next]_vars PROVE Inv'
<1> USE DEF Inv
<1>1. CASE UNCHANGED vars
  BY <1>1 DEF vars, TypeOK, NothingOutlives, AllGood, RowsBounded, Window, Recorders, InFlight
<1>2. CASE Tick
  <2>1. AllGood'
    BY <1>2 DEF Tick, AllGood
  <2> QED
    BY <1>2, <2>1, TickRows
<1>3. ASSUME NEW w \in Worker, CallStep(w) PROVE Inv'
  <2>1. Moves(w)
    BY <1>3, CallStepMoves
  <2> QED
    BY <1>3, <2>1, MovesType, MovesRows, CallStepGood
<1>4. ASSUME NEW w \in Worker, Record(w) PROVE Inv'
  BY <1>4, RecordType, RecordGood, RecordRows
<1>5. CASE OneChange
  <2>1. PICK c \in Core : NothingOutlives(c) /\ ChangeOf(1, c) /\ Single(core, c)
    BY <1>5, OneChangeIs
  <2>2. 1 \in 1..2
    OBVIOUS
  <2>3. TypeOK'
    BY <2>1, <2>2, ChangeType
  <2> QED
    BY <2>1, <2>2, <2>3, ChangeGood, ChangeRows
<1>6. CASE DoubleChange
  <2>1. PICK c \in Core : NothingOutlives(c) /\ ChangeOf(2, c)
    BY <1>6, DoubleChangeIs
  <2>2. 2 \in 1..2 /\ 2 # 1
    OBVIOUS
  <2>3. TypeOK'
    BY <2>1, <2>2, ChangeType
  <2> QED
    BY <2>1, <2>2, <2>3, ChangeGood, ChangeRows
<1> QED
  BY <1>1, <1>2, <1>3, <1>4, <1>5, <1>6, NextCases

LEMMA InvAlways == Spec => []Inv
BY InvInit, InvNext, PTL DEF Spec

\* router_gate.py: the tables, the calls and the audit keep their types; and what
\* was an account's is gone with it, so that no seat, grant or session is read
\* that belongs to nobody (admin_users.py:305-352).
THEOREM TypeCorrect == Spec => []TypeOK
BY InvAlways, PTL DEF Inv

\* router_gate.py:10-22, 216-303, 306-377: a call that gets 200 with at most one
\* change between its readings deserved it at one moment: whatever the people, the
\* grants, the other calls and how often things change.
THEOREM AllowedDeserved == Spec => []AllowedWasDeserved
<1>1. Inv => AllowedWasDeserved
  BY DEF Inv, AllGood, Good, AllowedWasDeserved
<1> QED
  BY <1>1, InvAlways, PTL

\* router_gate.py:63-66, 74-78, 134-160: the audit never holds more rows of one refusal within one
\* window than there have been calls at once, however long the program runs.
THEOREM AuditsBounded == Spec => []AuditBounded
<1>1. Inv => AuditBounded
  BY DEF Inv, RowsBounded, AuditBounded, Window
<1> QED
  BY <1>1, InvAlways, PTL
=============================================================================
