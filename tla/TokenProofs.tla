---------------------------- MODULE TokenProofs -----------------------------
(***************************************************************************)
(* For any people, clients, addresses, codes and requests in flight: the   *)
(* types, that codes keep the promise of CodeLife, that a token is         *)
(* deserved, and that a refusal is explained by what is true.  For any     *)
(* keys and processes: the types, and that tokens verify.                  *)
(***************************************************************************)
EXTENDS Codes, Keys, TLAPS

-----------------------------------------------------------------------------
(* Types.                                                                  *)

LEMMA FreeType == Free \in Request
BY DEF Free, Request

LEMMA PutType ==
  ASSUME NEW w \in Worker, NEW r \in Request, req \in [Worker -> Request], Put(w, r)
  PROVE  req' \in [Worker -> Request]
BY DEF Put

\* What a request of each kind carries.
LEMMA Carries ==
  ASSUME NEW r \in Request
  PROVE  /\ r.op = "authorize" => r.grant \in Grant
         /\ r.op \in {"token", "refused"} => r.code \in Code /\ r.client \in Client /\ r.uri \in Uri
         /\ r.op = "token" => r.moment \in Moment
         /\ Exchanging(r) => r.code \in Code /\ r.since \in Nat /\ r.fit \in BOOLEAN
         /\ Paid(r) => r.grant \in Grant
BY DEF Request, Free, Exchanging, Paid

\* A request that goes on is what it was, at its next step.
LEMMA NextStepType ==
  ASSUME NEW r \in Request, Paid(r), NEW op \in {"person", "claims"}
  PROVE  [r EXCEPT !.op = op] \in Request
BY DEF Request, Free, Paid

LEMMA FitterType ==
  ASSUME NEW r \in Request, Exchanging(r), NEW fit \in BOOLEAN
  PROVE  [r EXCEPT !.fit = fit] \in Request
BY DEF Request, Free, Exchanging

LEMMA InitType == Init => TypeOK
<1> SUFFICES ASSUME Init PROVE TypeOK
  OBVIOUS
<1> USE DEF Init
<1>1. users \in [User -> Account]
  BY DEF Account
<1>2. req \in [Worker -> Request]
  BY FreeType
<1>3. DOMAIN codes = {}
  OBVIOUS
<1>4. tokens \in Seq(Paper)
  OBVIOUS
<1>5. now \in 0..MaxTime /\ changes \in 0..MaxChanges
  BY CodesAssumption
<1> QED
  BY <1>1, <1>2, <1>3, <1>4, <1>5 DEF TypeOK

\* A table of codes that gains one row, loses some, or has one redeemed.
TableOK(table, given) ==
  /\ DOMAIN table \subseteq given
  /\ \A c \in DOMAIN table :
       /\ table[c] \in Row
       /\ table[c].consumed # Null => table[c].consumed < table[c].expires

LEMMA MintType ==
  ASSUME TypeOK, NEW w \in Worker, NEW code \in Code, MintCode(w, code)
  PROVE  TypeOK'
<1> DEFINE g == req[w].grant
<1>1. g \in Grant
  BY Carries DEF TypeOK, MintCode
<1>2. now + CODE_TTL \in Moment
  BY CodesAssumption DEF TypeOK, Moment
<1>3. bound' \in [Code -> Binding \cup {Null}] /\ bound'[code] \in Binding
  BY <1>1, <1>2 DEF TypeOK, MintCode, Binding
<1>4. \A c \in Code : c # code => bound'[c] = bound[c]
  BY DEF TypeOK, MintCode
<1>5. DOMAIN codes' = Kept(codes) \cup {code}
  BY DEF MintCode
<1>6. DOMAIN codes' \subseteq Issued'
  <2>1. code \in Issued'
    BY <1>3, NullAssumption DEF Issued
  <2>2. \A c \in Issued : c \in Issued'
    BY <1>4, <2>1 DEF Issued
  <2> QED
    BY <1>5, <2>1, <2>2 DEF Kept, TypeOK
<1>7. codes'[code] = [grant |-> g, expires |-> now + CODE_TTL, consumed |-> Null]
  BY DEF MintCode
<1>8. \A c \in DOMAIN codes' : c # code => c \in DOMAIN codes /\ codes'[c] = codes[c]
  BY <1>5 DEF MintCode, Kept
<1>9. TableOK(codes, Issued)'
  BY <1>1, <1>2, <1>6, <1>7, <1>8 DEF TypeOK, TableOK, Row
<1>10. req' \in [Worker -> Request]
  BY FreeType, PutType DEF TypeOK, MintCode
<1> QED
  BY <1>3, <1>9, <1>10 DEF TypeOK, TableOK, MintCode, people

\* Who redeems a code presents what it was issued for (oauth.py:181-186).
LEMMA PresentedIsIssued ==
  ASSUME NEW row \in Row, NEW r, Redeemable(row, r)
  PROVE  Presented(row, r) = row.grant
<1>1. row.grant \in Grant
  BY DEF Row
<1>2. row.grant = [client |-> row.grant.client, user |-> row.grant.user, uri |-> row.grant.uri]
  BY <1>1 DEF Grant
<1> QED
  BY <1>2 DEF Presented, Redeemable

LEMMA ConsumeType ==
  ASSUME TypeOK, NEW w \in Worker, Consume(w)
  PROVE  TypeOK'
<1> DEFINE r == req[w]
<1>1. r \in Request /\ r.op = "token" /\ Exchanging(r)
  BY DEF TypeOK, Consume, Exchanging
<1>2. /\ r.code \in Code /\ r.client \in Client /\ r.uri \in Uri
      /\ r.moment \in Moment /\ r.since \in Nat /\ r.fit \in BOOLEAN
  BY <1>1, Carries
<1>3. CASE r.code \in DOMAIN codes /\ Redeemable(codes[r.code], r)
  <2>1. codes[r.code] \in Row
    BY <1>3 DEF TypeOK
  <2> DEFINE s == [op |-> "spent", code |-> r.code, grant |-> Presented(codes[r.code], r),
                   since |-> r.since, fit |-> r.fit]
  <2>2. s \in Request
    <3>1. Presented(codes[r.code], r) \in Grant
      BY <1>3, <2>1, PresentedIsIssued DEF Row
    <3> QED
      BY <1>2, <3>1 DEF Request
  <2>3. codes' = [codes EXCEPT ![r.code].consumed = r.moment] /\ Put(w, s)
    BY <1>3 DEF Consume
  <2>4. DOMAIN codes' = DOMAIN codes
    BY <2>3
  <2>5. \A c \in DOMAIN codes : c # r.code => codes'[c] = codes[c]
    BY <2>3
  <2>6. codes'[r.code] = [codes[r.code] EXCEPT !.consumed = r.moment]
    BY <1>3, <2>3
  <2>7. codes'[r.code] \in Row /\ codes'[r.code].consumed < codes'[r.code].expires
    BY <1>2, <1>3, <2>1, <2>6 DEF Row, Redeemable, Moment
  <2>8. req' \in [Worker -> Request]
    BY <2>2, <2>3, PutType DEF TypeOK
  <2>9. Issued' = Issued
    BY DEF Consume, Issued
  <2>10. TableOK(codes, Issued)'
    BY <2>4, <2>5, <2>7, <2>9 DEF TypeOK, TableOK
  <2> QED
    BY <2>8, <2>10 DEF TypeOK, TableOK, Consume, people
<1>4. CASE ~(r.code \in DOMAIN codes /\ Redeemable(codes[r.code], r))
  <2> DEFINE s == [op |-> "refused", code |-> r.code, client |-> r.client, uri |-> r.uri]
  <2>1. s \in Request
    BY <1>2 DEF Request
  <2>2. Put(w, s) /\ UNCHANGED codes
    BY <1>4 DEF Consume
  <2>3. req' \in [Worker -> Request]
    BY <2>1, <2>2, PutType DEF TypeOK
  <2> QED
    BY <2>2, <2>3 DEF TypeOK, Consume, people, Issued
<1> QED
  BY <1>3, <1>4

\* The requests in flight after a change to an account: those that exchange a
\* code may have become fit.
LEMMA ChangeRequests ==
  ASSUME TypeOK, NEW u \in User, NEW account, Change(u, account), NEW w \in Worker
  PROVE  /\ ~Exchanging(req[w]) => req'[w] = req[w]
         /\ Exchanging(req[w]) =>
              req'[w] = [req[w] EXCEPT !.fit = @ \/ Fit(users', bound[req[w].code].grant)]
BY DEF Change

LEMMA ChangeType ==
  ASSUME TypeOK, NEW u \in User, NEW account \in Account, Change(u, account)
  PROVE  /\ users' \in [User -> Account]
         /\ req' \in [Worker -> Request]
         /\ changes' \in 0..MaxChanges
         /\ UNCHANGED <<clients, now, bound, tokens>>
<1>1. users' \in [User -> Account] /\ UNCHANGED <<clients, now, bound, tokens>>
  BY DEF Change, TypeOK
<1>2. changes' \in 0..MaxChanges
  BY CodesAssumption DEF Change, TypeOK
<1>3. ASSUME NEW w \in Worker PROVE req'[w] \in Request
  <2>1. req[w] \in Request
    BY DEF TypeOK
  <2>2. CASE Exchanging(req[w])
    <3>1. (req[w].fit \/ Fit(users', bound[req[w].code].grant)) \in BOOLEAN
      OBVIOUS
    <3> QED
      BY <2>1, <2>2, <3>1, ChangeRequests, FitterType
  <2> QED
    BY <2>1, <2>2, ChangeRequests
<1>4. req' = [w \in Worker |-> req'[w]]
  BY DEF Change
<1> QED
  BY <1>1, <1>2, <1>3, <1>4

\* What an administrator may make of an account is one.
LEMMA AccountType ==
  ASSUME NEW a \in Account
  PROVE  /\ \A status \in {"active", "suspended"} : [a EXCEPT !.status = status] \in Account
         /\ \A due \in BOOLEAN : [a EXCEPT !.must_change_password = due] \in Account
         /\ \A apps \in SUBSET Client : [a EXCEPT !.entitled = apps] \in Account
         /\ [status |-> "deleted", must_change_password |-> FALSE, entitled |-> {}] \in Account
BY DEF Account

\* Only the account and the requests change.
LEMMA SoberChangeType ==
  ASSUME TypeOK, NEW u \in User, NEW account \in Account, Change(u, account), UNCHANGED codes
  PROVE  TypeOK'
<1>1. Issued' = Issued
  BY ChangeType DEF Issued
<1> QED
  BY <1>1, ChangeType DEF TypeOK

LEMMA DeleteType ==
  ASSUME TypeOK, NEW u \in User, DeleteUser(u)
  PROVE  TypeOK'
<1> DEFINE gone == [status |-> "deleted", must_change_password |-> FALSE, entitled |-> {}]
<1>1. gone \in Account /\ Change(u, gone)
  BY DEF DeleteUser, Account
<1>2. /\ DOMAIN codes' \subseteq DOMAIN codes
      /\ \A c \in DOMAIN codes' : codes'[c] = codes[c]
  BY DEF DeleteUser
<1> HIDE DEF gone
<1>3. Issued' = Issued
  BY <1>1, ChangeType DEF Issued
<1>4. TableOK(codes, Issued)'
  BY <1>2, <1>3 DEF TypeOK, TableOK
<1> QED
  BY <1>1, <1>4, ChangeType DEF TypeOK, TableOK

LEMMA PersonStepType ==
  ASSUME TypeOK, NEW w \in Worker, CheckPerson(w) \/ BuildClaims(w) \/ Answer(w)
  PROVE  TypeOK'
<1>1. req[w] \in Request /\ Paid(req[w])
  BY DEF TypeOK, CheckPerson, BuildClaims, Answer, Paid
<1>2. CASE CheckPerson(w) \/ BuildClaims(w)
  <2>1. \E op \in {"person", "claims"} : Put(w, [req[w] EXCEPT !.op = op])
    BY <1>2 DEF CheckPerson, BuildClaims
  <2>2. req' \in [Worker -> Request]
    BY <1>1, <2>1, NextStepType, PutType DEF TypeOK
  <2> QED
    BY <1>2, <2>2 DEF TypeOK, CheckPerson, BuildClaims, people, Issued
<1>3. CASE Answer(w)
  <2>1. req' \in [Worker -> Request]
    BY <1>3, FreeType, PutType DEF TypeOK, Answer
  <2>2. [code |-> req[w].code, grant |-> req[w].grant] \in Paper
    BY <1>1, Carries DEF Paid, Exchanging, Paper
  <2>3. tokens' \in Seq(Paper)
    BY <1>3, <2>2 DEF TypeOK, Answer
  <2> QED
    BY <1>3, <2>1, <2>3 DEF TypeOK, Answer, people, Issued
<1> QED
  BY <1>2, <1>3

LEMMA BeginType ==
  ASSUME TypeOK, NEW w \in Worker,
         \/ Refuse(w)
         \/ \E grant \in Grant : Authorize(w, grant)
         \/ \E code \in Code, client \in Client, uri \in Uri : Token(w, code, client, uri)
  PROVE  TypeOK'
<1>1. now \in Moment /\ changes \in Nat
  BY CodesAssumption DEF TypeOK, Moment
<1>2. \E r \in Request : Put(w, r)
  <2>1. CASE Refuse(w)
    BY <2>1, FreeType DEF Refuse
  <2>2. CASE \E grant \in Grant : Authorize(w, grant)
    BY <2>2 DEF Authorize, Request
  <2>3. ASSUME NEW code \in Code, NEW client \in Client, NEW uri \in Uri,
               Token(w, code, client, uri)
        PROVE  \E r \in Request : Put(w, r)
    <3> DEFINE r == [op |-> "token", code |-> code, client |-> client, uri |-> uri,
                     moment |-> now, since |-> changes,
                     fit |-> Fit(users, bound[code].grant)]
    <3>1. Fit(users, bound[code].grant) \in BOOLEAN
      BY DEF Fit, Trusted
    <3>2. r \in Request
      BY <1>1, <3>1 DEF Request
    <3>3. Put(w, r)
      BY <2>3 DEF Token
    <3> QED
      BY <3>2, <3>3
  <2> QED
    BY <2>1, <2>2, <2>3
<1>3. req' \in [Worker -> Request]
  BY <1>2, PutType DEF TypeOK
<1>4. UNCHANGED <<people, codes, now, bound, tokens, changes>>
  BY DEF Refuse, Authorize, Token
<1> QED
  BY <1>3, <1>4 DEF TypeOK, people, Issued

\* The actions of an administrator: an account, or a client.
Administers ==
  \/ \E u \in User :
       \/ \E status \in {"active", "suspended"} : SetUserStatus(u, status)
       \/ \E due \in BOOLEAN : SetPassword(u, due)
       \/ \E apps \in SUBSET Client : SetEntitled(u, apps)
       \/ DeleteUser(u)
  \/ \E c \in Client, status \in {"active", "disabled"} : SetClientStatus(c, status)

\* Setting anything of an account leaves its codes alone.
LEMMA SoberChange ==
  ASSUME TypeOK, NEW u \in User,
         \/ \E status \in {"active", "suspended"} : SetUserStatus(u, status)
         \/ \E due \in BOOLEAN : SetPassword(u, due)
         \/ \E apps \in SUBSET Client : SetEntitled(u, apps)
  PROVE  \E account \in Account : /\ Change(u, account)
                                  /\ UNCHANGED codes
                                  /\ account.status # "deleted"
<1>1. users[u] \in Account
  BY DEF TypeOK
<1>2. users[u].status # "deleted"
  BY DEF SetUserStatus, SetPassword, SetEntitled, Change
<1>3. CASE \E status \in {"active", "suspended"} : SetUserStatus(u, status)
  <2>1. PICK status \in {"active", "suspended"} : SetUserStatus(u, status)
    BY <1>3
  <2>2. [users[u] EXCEPT !.status = status].status # "deleted"
    BY <1>1 DEF Account
  <2> QED
    BY <1>1, <2>1, <2>2, AccountType DEF SetUserStatus
<1>4. CASE \E due \in BOOLEAN : SetPassword(u, due)
  <2>1. PICK due \in BOOLEAN : SetPassword(u, due)
    BY <1>4
  <2>2. [users[u] EXCEPT !.must_change_password = due].status # "deleted"
    BY <1>1, <1>2 DEF Account
  <2> QED
    BY <1>1, <2>1, <2>2, AccountType DEF SetPassword
<1>5. CASE \E apps \in SUBSET Client : SetEntitled(u, apps)
  <2>1. PICK apps \in SUBSET Client : SetEntitled(u, apps)
    BY <1>5
  <2>2. [users[u] EXCEPT !.entitled = apps].status # "deleted"
    BY <1>1, <1>2 DEF Account
  <2> QED
    BY <1>1, <2>1, <2>2, AccountType DEF SetEntitled
<1> QED
  BY <1>3, <1>4, <1>5

LEMMA AdministersType == TypeOK /\ Administers => TypeOK'
<1> SUFFICES ASSUME TypeOK, Administers PROVE TypeOK'
  OBVIOUS
<1>1. ASSUME NEW c \in Client, NEW status \in {"active", "disabled"}, SetClientStatus(c, status)
      PROVE  TypeOK'
  <2>1. clients' \in [Client -> {"active", "disabled"}] /\ changes' \in 0..MaxChanges
    BY <1>1, CodesAssumption DEF TypeOK, SetClientStatus
  <2> QED
    BY <1>1, <2>1 DEF TypeOK, SetClientStatus, Issued
<1>2. ASSUME NEW u \in User,
             \/ \E status \in {"active", "suspended"} : SetUserStatus(u, status)
             \/ \E due \in BOOLEAN : SetPassword(u, due)
             \/ \E apps \in SUBSET Client : SetEntitled(u, apps)
      PROVE  TypeOK'
  BY <1>2, SoberChange, SoberChangeType
<1> QED
  BY <1>1, <1>2, DeleteType DEF Administers

LEMMA TickType == TypeOK /\ Tick => TypeOK'
<1> SUFFICES ASSUME TypeOK, Tick PROVE TypeOK'
  OBVIOUS
<1>1. now' \in 0..MaxTime
  BY CodesAssumption DEF TypeOK, Tick
<1> QED
  BY <1>1 DEF TypeOK, Tick, people, Issued

LEMMA TypeStep == TypeOK /\ [Next]_vars => TypeOK'
<1> SUFFICES ASSUME TypeOK, [Next]_vars PROVE TypeOK'
  OBVIOUS
<1>1. CASE UNCHANGED vars
  BY <1>1 DEF vars, people, TypeOK, Issued
<1>2. CASE Next
  BY <1>2, TickType, BeginType, MintType, ConsumeType, PersonStepType, AdministersType
     DEF Next, Administers
<1> QED
  BY <1>1, <1>2

\* For any instance, TypeOK: among the rest, no code was ever redeemed at or
\* after its expiry.
THEOREM TypeCorrect == Spec => []TypeOK
BY InitType, TypeStep, PTL DEF Spec

-----------------------------------------------------------------------------
(* One code, one redemption.                                               *)

\* Whatever is known of a code, is known of the code that was issued.
Traced ==
  /\ \A c \in DOMAIN codes :
       codes[c].grant = bound[c].grant /\ codes[c].expires = bound[c].expires
  /\ \A w \in Worker :
       /\ Exchanging(req[w]) \/ req[w].op = "refused" => req[w].code \in Issued
       /\ Paid(req[w]) => req[w].grant = bound[req[w].code].grant

\* No row of the table would let the code be redeemed.
UsedUp(table, c) == c \in DOMAIN table => table[c].consumed # Null

\* A code that some exchange has spent, or that gave a token, is used up; and
\* there is one such exchange or token.
Once ==
  /\ \A w \in Worker : Paid(req[w]) =>
       /\ UsedUp(codes, req[w].code)
       /\ \A v \in Worker : Paid(req[v]) /\ req[v].code = req[w].code => v = w
       /\ \A n \in DOMAIN tokens : tokens[n].code # req[w].code
  /\ \A n \in DOMAIN tokens : tokens[n].code \in Issued /\ UsedUp(codes, tokens[n].code)

LifeInv == TypeOK /\ Traced /\ Once

\* A step that issues nothing, redeems nothing and answers nothing.
Quiet ==
  /\ DOMAIN codes' \subseteq DOMAIN codes
  /\ \A c \in DOMAIN codes' : codes'[c] = codes[c]
  /\ UNCHANGED <<bound, tokens>>
  /\ \A w \in Worker :
       /\ Exchanging(req'[w]) \/ req'[w].op = "refused" => req'[w].code \in Issued
       /\ Paid(req'[w]) => /\ Paid(req[w])
                           /\ req'[w].code = req[w].code
                           /\ req'[w].grant = req[w].grant

\* An exchange redeems its code.
Hits(w) ==
  /\ Consume(w)
  /\ req[w].code \in DOMAIN codes
  /\ Redeemable(codes[req[w].code], req[w])

\* One request moves, to r, and the tables stay.
LEMMA QuietMove ==
  ASSUME TypeOK, Traced, NEW w \in Worker, NEW r, Put(w, r),
         UNCHANGED <<codes, bound, tokens>>,
         Exchanging(r) \/ r.op = "refused" => r.code \in Issued,
         Paid(r) => Paid(req[w]) /\ r.code = req[w].code /\ r.grant = req[w].grant
  PROVE  Quiet
<1>1. \A v \in Worker : v # w => req'[v] = req[v]
  BY DEF Put, TypeOK
<1>2. req'[w] = r
  BY DEF Put, TypeOK
<1> QED
  BY <1>1, <1>2 DEF Quiet, Traced

LEMMA QuietRequests ==
  ASSUME TypeOK, Traced, NEW w \in Worker,
         \/ Refuse(w)
         \/ \E grant \in Grant : Authorize(w, grant)
         \/ \E code \in Code, client \in Client, uri \in Uri : Token(w, code, client, uri)
         \/ Consume(w) /\ ~Hits(w)
         \/ CheckPerson(w)
         \/ BuildClaims(w)
  PROVE  Quiet
<1> USE DEF Exchanging, Paid
<1>1. CASE Refuse(w)
  BY <1>1, QuietMove DEF Refuse, Free
<1>2. ASSUME NEW grant \in Grant, Authorize(w, grant) PROVE Quiet
  <2> DEFINE r == [op |-> "authorize", grant |-> grant]
  <2>1. Put(w, r) /\ UNCHANGED <<codes, bound, tokens>>
    BY <1>2 DEF Authorize
  <2>2. r.op = "authorize"
    OBVIOUS
  <2> HIDE DEF r
  <2> QED
    BY <2>1, <2>2, QuietMove
<1>3. ASSUME NEW code \in Code, NEW client \in Client, NEW uri \in Uri,
             Token(w, code, client, uri)
      PROVE  Quiet
  <2> DEFINE r == [op |-> "token", code |-> code, client |-> client, uri |-> uri,
                   moment |-> now, since |-> changes, fit |-> Fit(users, bound[code].grant)]
  <2>1. Put(w, r) /\ UNCHANGED <<codes, bound, tokens>> /\ code \in Issued
    BY <1>3 DEF Token
  <2>2. r.op = "token" /\ r.code = code
    OBVIOUS
  <2> HIDE DEF r
  <2> QED
    BY <2>1, <2>2, QuietMove
<1>4. CASE Consume(w) /\ ~Hits(w)
  <2> DEFINE r == [op |-> "refused", code |-> req[w].code, client |-> req[w].client,
                   uri |-> req[w].uri]
  <2>1. Put(w, r) /\ UNCHANGED <<codes, bound, tokens>> /\ req[w].op = "token"
    BY <1>4 DEF Consume, Hits
  <2>2. r.op = "refused" /\ r.code = req[w].code
    OBVIOUS
  <2>3. req[w].code \in Issued
    BY <2>1 DEF Traced
  <2> HIDE DEF r
  <2> QED
    BY <2>1, <2>2, <2>3, QuietMove
<1>5. CASE CheckPerson(w) \/ BuildClaims(w)
  <2>1. PICK op \in {"person", "claims"} : Put(w, [req[w] EXCEPT !.op = op])
    BY <1>5 DEF CheckPerson, BuildClaims
  <2>2. req[w] \in Request /\ req[w].op \in {"spent", "person"}
    BY <1>5 DEF TypeOK, CheckPerson, BuildClaims
  <2>3. req[w].code \in Issued
    BY <2>2 DEF Traced
  <2>4. /\ [req[w] EXCEPT !.op = op].op = op
        /\ [req[w] EXCEPT !.op = op].code = req[w].code
        /\ [req[w] EXCEPT !.op = op].grant = req[w].grant
    BY <2>2 DEF Request, Free
  <2>5. UNCHANGED <<codes, bound, tokens>>
    BY <1>5 DEF CheckPerson, BuildClaims
  <2> QED
    BY <2>1, <2>2, <2>3, <2>4, <2>5, QuietMove
<1> QED
  BY <1>1, <1>2, <1>3, <1>4, <1>5

\* A change to an account leaves every request its code and its grant.
LEMMA ChangeKeeps ==
  ASSUME TypeOK, NEW u \in User, NEW account, Change(u, account), NEW w \in Worker
  PROVE  /\ req'[w].op = req[w].op
         /\ Exchanging(req[w]) => req'[w].code = req[w].code /\ req'[w].since = req[w].since
         /\ Paid(req[w]) => req'[w].grant = req[w].grant
         /\ req[w].op = "refused" => req'[w] = req[w]
         /\ Exchanging(req[w]) =>
              (req'[w].fit <=> req[w].fit \/ Fit(users', bound[req[w].code].grant))
<1>1. req[w] \in Request
  BY DEF TypeOK
<1>2. CASE ~Exchanging(req[w])
  BY <1>2, ChangeRequests DEF Exchanging, Paid
<1>3. CASE Exchanging(req[w])
  <2> DEFINE fit == req[w].fit \/ Fit(users', bound[req[w].code].grant)
  <2>1. req'[w] = [req[w] EXCEPT !.fit = fit]
    BY <1>3, ChangeRequests
  <2>2. {"op", "code", "since", "fit"} \subseteq DOMAIN req[w]
    BY <1>1, <1>3 DEF Request, Free, Exchanging
  <2>3. req'[w].fit = fit
    BY <2>1, <2>2
  <2> HIDE DEF fit
  <2>4. /\ req'[w].op = req[w].op
        /\ req'[w].code = req[w].code
        /\ req'[w].since = req[w].since
    BY <2>1, <2>2
  <2>5. Paid(req[w]) => req'[w].grant = req[w].grant
    BY <1>1, <2>1 DEF Request, Free, Paid
  <2> QED
    BY <1>3, <2>3, <2>4, <2>5 DEF fit, Exchanging
<1> QED
  BY <1>2, <1>3

LEMMA QuietAdministers == TypeOK /\ Traced /\ Administers => Quiet
<1> SUFFICES ASSUME TypeOK, Traced, Administers PROVE Quiet
  OBVIOUS
<1>1. ASSUME NEW c \in Client, NEW status \in {"active", "disabled"}, SetClientStatus(c, status)
      PROVE  Quiet
  BY <1>1 DEF SetClientStatus, Quiet, Traced
<1>2. ASSUME NEW u \in User, NEW account, Change(u, account),
             DOMAIN codes' \subseteq DOMAIN codes, \A c \in DOMAIN codes' : codes'[c] = codes[c]
      PROVE  Quiet
  <2>1. UNCHANGED <<bound, tokens>>
    BY <1>2 DEF Change
  <2>2. ASSUME NEW w \in Worker
        PROVE  /\ Exchanging(req'[w]) \/ req'[w].op = "refused" => req'[w].code \in Issued
               /\ Paid(req'[w]) => /\ Paid(req[w])
                                   /\ req'[w].code = req[w].code
                                   /\ req'[w].grant = req[w].grant
    BY <1>2, ChangeKeeps DEF Traced, Exchanging, Paid
  <2> QED
    BY <1>2, <2>1, <2>2 DEF Quiet
<1>3. ASSUME NEW u \in User,
             \/ \E status \in {"active", "suspended"} : SetUserStatus(u, status)
             \/ \E due \in BOOLEAN : SetPassword(u, due)
             \/ \E apps \in SUBSET Client : SetEntitled(u, apps)
      PROVE  Quiet
  BY <1>2, <1>3, SoberChange
<1>4. ASSUME NEW u \in User, DeleteUser(u) PROVE Quiet
  BY <1>2, <1>4 DEF DeleteUser
<1> QED
  BY <1>1, <1>3, <1>4 DEF Administers

LEMMA QuietSteps ==
  TypeOK /\ Traced /\ [Next]_vars =>
    \/ Quiet
    \/ \E w \in Worker : \/ \E code \in Code : MintCode(w, code)
                         \/ Hits(w)
                         \/ Answer(w)
<1> SUFFICES ASSUME TypeOK, Traced, [Next]_vars
             PROVE  \/ Quiet
                    \/ \E w \in Worker : \/ \E code \in Code : MintCode(w, code)
                                         \/ Hits(w)
                                         \/ Answer(w)
  OBVIOUS
<1>1. CASE UNCHANGED vars \/ Tick
  BY <1>1 DEF vars, Tick, Quiet, Traced
<1>2. CASE Administers
  BY <1>2, QuietAdministers
<1>3. ASSUME NEW w \in Worker,
             \/ Refuse(w)
             \/ \E grant \in Grant : Authorize(w, grant)
             \/ \E code \in Code, client \in Client, uri \in Uri : Token(w, code, client, uri)
             \/ Consume(w)
             \/ CheckPerson(w)
             \/ BuildClaims(w)
      PROVE  Quiet \/ Hits(w)
  BY <1>3, QuietRequests
<1> QED
  BY <1>1, <1>2, <1>3 DEF Next, Administers

\* What minting does: one code more, which nobody knew; others' rows stay or go.
Minted(w, code) ==
  /\ code \notin Issued /\ Issued' = Issued \cup {code}
  /\ bound'[code].grant = req[w].grant /\ req[w].grant \in Grant
  /\ \A c \in Code : c # code => bound'[c] = bound[c]
  /\ codes'[code] = [grant |-> bound'[code].grant, expires |-> bound'[code].expires,
                     consumed |-> Null]
  /\ DOMAIN codes' = Kept(codes) \cup {code} /\ Kept(codes) \subseteq DOMAIN codes
  /\ \A c \in DOMAIN codes' : c # code => codes'[c] = codes[c]
  /\ req'[w] = Free /\ \A v \in Worker : v # w => req'[v] = req[v]
  /\ UNCHANGED <<users, now, tokens>>

LEMMA MintEffect ==
  ASSUME TypeOK, NEW w \in Worker, NEW code \in Code, MintCode(w, code)
  PROVE  Minted(w, code)
<1> DEFINE b == [grant |-> req[w].grant, expires |-> now + CODE_TTL]
<1>1. code \notin Issued /\ UNCHANGED <<users, now, tokens>>
  BY DEF MintCode, people
<1>2. bound' = [bound EXCEPT ![code] = b]
  BY DEF MintCode
<1>3. bound'[code] = b /\ \A c \in Code : c # code => bound'[c] = bound[c]
  BY <1>2 DEF TypeOK
<1>4. req[w].grant \in Grant
  BY Carries DEF TypeOK, MintCode
<1>5. now + CODE_TTL \in Moment
  BY CodesAssumption DEF TypeOK, Moment
<1>6. b # Null
  BY <1>4, <1>5, NullAssumption DEF Binding
<1>7. Issued' = Issued \cup {code}
  BY <1>3, <1>6 DEF Issued
<1>8. DOMAIN codes' = Kept(codes) \cup {code} /\ Kept(codes) \subseteq DOMAIN codes
  BY DEF MintCode, Kept
<1>9. codes'[code] = [grant |-> b.grant, expires |-> b.expires, consumed |-> Null]
  BY <1>8 DEF MintCode
<1>10. \A c \in DOMAIN codes' : c # code => codes'[c] = codes[c]
  BY <1>8 DEF MintCode
<1>11. req'[w] = Free /\ \A v \in Worker : v # w => req'[v] = req[v]
  BY DEF MintCode, Put, TypeOK
<1> HIDE DEF b
<1>12. bound'[code].grant = req[w].grant
  BY <1>3 DEF b
<1> QED
  BY <1>1, <1>3, <1>4, <1>7, <1>8, <1>9, <1>10, <1>11, <1>12 DEF Minted, b

\* What a redemption does: the row of c is consumed, the exchange has its grant.
Redeemed(w, c) ==
  /\ req[w].op = "token" /\ c = req[w].code /\ c \in DOMAIN codes /\ c \in Issued
  /\ codes[c].consumed = Null
  /\ DOMAIN codes' = DOMAIN codes
  /\ \A d \in DOMAIN codes : d # c => codes'[d] = codes[d]
  /\ codes'[c].consumed # Null
  /\ codes'[c].grant = codes[c].grant /\ codes'[c].expires = codes[c].expires
  /\ req'[w].op = "spent" /\ req'[w].code = c /\ req'[w].grant = codes[c].grant
  /\ \A v \in Worker : v # w => req'[v] = req[v]
  /\ UNCHANGED <<users, now, bound, tokens, changes>>

LEMMA HitEffect ==
  ASSUME TypeOK, NEW w \in Worker, Hits(w)
  PROVE  Redeemed(w, req[w].code)
<1> DEFINE c == req[w].code
           r == [op |-> "spent", code |-> c, grant |-> Presented(codes[c], req[w]),
                 since |-> req[w].since, fit |-> req[w].fit]
<1>1. req[w].op = "token" /\ c \in DOMAIN codes /\ codes[c].consumed = Null
  BY DEF Hits, Consume, Redeemable
<1>2. c \in Issued
  BY <1>1 DEF TypeOK
<1>3. codes' = [codes EXCEPT ![c].consumed = req[w].moment] /\ Put(w, r)
  BY DEF Hits, Consume
<1>4. codes[c] \in Row /\ req[w].moment \in Moment
  BY <1>1, Carries DEF TypeOK
<1>5. DOMAIN codes' = DOMAIN codes /\ \A d \in DOMAIN codes : d # c => codes'[d] = codes[d]
  BY <1>3
<1>6. codes'[c] = [codes[c] EXCEPT !.consumed = req[w].moment]
  BY <1>1, <1>3
<1>7. /\ codes'[c].consumed # Null
      /\ codes'[c].grant = codes[c].grant
      /\ codes'[c].expires = codes[c].expires
  BY <1>4, <1>6, NullAssumption DEF Row
<1>8. req'[w] = r /\ \A v \in Worker : v # w => req'[v] = req[v]
  BY <1>3 DEF Put, TypeOK
<1>9. UNCHANGED <<users, now, bound, tokens, changes>>
  BY DEF Hits, Consume, people
<1>10. r.op = "spent" /\ r.code = c /\ r.grant = codes[c].grant
  BY <1>4, PresentedIsIssued DEF Hits
<1> HIDE DEF c, r
<1>11. req'[w].op = "spent" /\ req'[w].code = c /\ req'[w].grant = codes[c].grant
  BY <1>8, <1>10
<1>12. \A v \in Worker : v # w => req'[v] = req[v]
  BY <1>8
<1>13. c = req[w].code
  BY DEF c
<1> QED
  BY <1>1, <1>2, <1>5, <1>7, <1>9, <1>11, <1>12, <1>13 DEF Redeemed

\* What an answer does: one token more, of what the exchange holds.
Answered(w, t) ==
  /\ Paid(req[w]) /\ tokens' = Append(tokens, t)
  /\ t.code = req[w].code /\ t.grant = req[w].grant
  /\ \A n \in DOMAIN tokens' : \/ n \in DOMAIN tokens /\ tokens'[n] = tokens[n]
                               \/ tokens'[n] = t
  /\ req'[w] = Free /\ \A v \in Worker : v # w => req'[v] = req[v]
  /\ UNCHANGED <<users, codes, now, bound, changes>>

LEMMA AnswerEffect ==
  ASSUME TypeOK, NEW w \in Worker, Answer(w)
  PROVE  Answered(w, [code |-> req[w].code, grant |-> req[w].grant])
<1> DEFINE t == [code |-> req[w].code, grant |-> req[w].grant]
<1>1. Paid(req[w]) /\ tokens' = Append(tokens, t)
  BY DEF Answer, Paid
<1>2. t \in Paper
  BY <1>1, Carries DEF TypeOK, Paid, Exchanging, Paper
<1>6. t.code = req[w].code /\ t.grant = req[w].grant
  OBVIOUS
<1> HIDE DEF t
<1>3. \A n \in DOMAIN tokens' : \/ n \in DOMAIN tokens /\ tokens'[n] = tokens[n]
                                \/ tokens'[n] = t
  BY <1>1, <1>2 DEF TypeOK
<1>4. req'[w] = Free /\ \A v \in Worker : v # w => req'[v] = req[v]
  BY DEF Answer, Put, TypeOK
<1>5. UNCHANGED <<users, codes, now, bound, changes>>
  BY DEF Answer, people
<1> QED
  BY <1>1, <1>3, <1>4, <1>5, <1>6 DEF Answered, t

LEMMA TracedStep == TypeOK /\ Traced /\ [Next]_vars => Traced'
<1> SUFFICES ASSUME TypeOK, Traced, [Next]_vars PROVE Traced'
  OBVIOUS
<1>1. CASE Quiet
  <2>1. Issued' = Issued
    BY <1>1 DEF Quiet, Issued
  <2> QED
    BY <1>1, <2>1 DEF Quiet, Traced
<1>2. ASSUME NEW w \in Worker, NEW code \in Code, MintCode(w, code) PROVE Traced'
  <2>0. Minted(w, code)
    BY <1>2, MintEffect
  <2> USE DEF Free, Exchanging, Paid
  <2>1. \A c \in DOMAIN codes' : /\ codes'[c].grant = bound'[c].grant
                                 /\ codes'[c].expires = bound'[c].expires
    <3> SUFFICES ASSUME NEW c \in DOMAIN codes', c # code
                 PROVE  /\ codes'[c].grant = bound'[c].grant
                        /\ codes'[c].expires = bound'[c].expires
      BY <2>0 DEF Minted
    <3>1. c \in DOMAIN codes /\ c \in Code
      BY <2>0 DEF Minted, TypeOK, Issued
    <3> QED
      BY <2>0, <3>1 DEF Minted, Traced
  <2>2. ASSUME NEW v \in Worker
        PROVE  /\ Exchanging(req'[v]) \/ req'[v].op = "refused" => req'[v].code \in Issued'
               /\ Paid(req'[v]) => req'[v].grant = bound'[req'[v].code].grant
    <3>1. CASE v = w
      BY <2>0, <3>1 DEF Minted
    <3>2. CASE v # w
      <4>1. req'[v] = req[v]
        BY <2>0, <3>2 DEF Minted
      <4>2. \A c \in Issued : c \in Issued' /\ bound'[c] = bound[c]
        BY <2>0 DEF Minted, Issued
      <4> QED
        BY <4>1, <4>2 DEF Traced
    <3> QED
      BY <3>1, <3>2
  <2> QED
    BY <2>1, <2>2 DEF Traced
<1>3. ASSUME NEW w \in Worker, Hits(w) PROVE Traced'
  <2>0. Redeemed(w, req[w].code)
    BY <1>3, HitEffect
  <2>1. Issued' = Issued
    BY <2>0 DEF Redeemed, Issued
  <2> QED
    BY <2>0, <2>1 DEF Redeemed, Traced
<1>4. ASSUME NEW w \in Worker, Answer(w) PROVE Traced'
  <2>0. Answered(w, [code |-> req[w].code, grant |-> req[w].grant])
    BY <1>4, AnswerEffect
  <2>1. Issued' = Issued
    BY <2>0 DEF Answered, Issued
  <2> QED
    BY <2>0, <2>1 DEF Answered, Traced, Free, Exchanging, Paid
<1> QED
  BY <1>1, <1>2, <1>3, <1>4, QuietSteps

LEMMA OnceStep == LifeInv /\ [Next]_vars => Once'
<1> SUFFICES ASSUME TypeOK, Traced, Once, [Next]_vars PROVE Once'
  BY DEF LifeInv
<1>1. CASE Quiet
  <2>1. Issued' = Issued
    BY <1>1 DEF Quiet, Issued
  <2>2. \A c : UsedUp(codes, c) => UsedUp(codes', c)
    BY <1>1 DEF Quiet, UsedUp
  <2> QED
    BY <1>1, <2>1, <2>2 DEF Quiet, Once
<1>2. ASSUME NEW w \in Worker, NEW code \in Code, MintCode(w, code) PROVE Once'
  <2>0. Minted(w, code)
    BY <1>2, MintEffect
  <2>1. \A c \in Issued : c \in Issued' /\ (UsedUp(codes, c) => UsedUp(codes', c))
    BY <2>0 DEF Minted, UsedUp
  <2>2. \A v \in Worker : Paid(req'[v]) => v # w /\ req'[v] = req[v] /\ req[v].code \in Issued
    BY <2>0 DEF Minted, Paid, Free, Traced, Exchanging
  <2>3. UNCHANGED tokens
    BY <2>0 DEF Minted
  <2> QED
    BY <2>1, <2>2, <2>3 DEF Once
<1>3. ASSUME NEW w \in Worker, Hits(w) PROVE Once'
  <2>0. Redeemed(w, req[w].code)
    BY <1>3, HitEffect
  <2> DEFINE c == req[w].code
  <2>1. ~UsedUp(codes, c) /\ UsedUp(codes', c) /\ \A d : UsedUp(codes, d) => UsedUp(codes', d)
    BY <2>0 DEF Redeemed, UsedUp
  <2>2. Issued' = Issued /\ UNCHANGED tokens
    BY <2>0 DEF Redeemed, Issued
  <2>3. \A v \in Worker : Paid(req[v]) => req[v].code # c
    BY <2>1 DEF Once
  <2>4. \A n \in DOMAIN tokens : tokens[n].code # c
    BY <2>1 DEF Once
  <2>5. req'[w].code = c /\ \A v \in Worker : v # w => req'[v] = req[v]
    BY <2>0 DEF Redeemed
  <2> HIDE DEF c
  <2>7. ASSUME NEW v \in Worker, Paid(req'[v])
        PROVE  /\ UsedUp(codes', req'[v].code)
               /\ \A u \in Worker : Paid(req'[u]) /\ req'[u].code = req'[v].code => u = v
               /\ \A n \in DOMAIN tokens : tokens[n].code # req'[v].code
    <3>1. CASE v = w
      BY <2>1, <2>3, <2>4, <2>5, <3>1
    <3>2. CASE v # w
      BY <2>1, <2>3, <2>5, <2>7, <3>2 DEF Once
    <3> QED
      BY <3>1, <3>2
  <2>8. \A n \in DOMAIN tokens : tokens[n].code \in Issued /\ UsedUp(codes', tokens[n].code)
    BY <2>1 DEF Once
  <2> QED
    BY <2>2, <2>7, <2>8 DEF Once
<1>4. ASSUME NEW w \in Worker, Answer(w) PROVE Once'
  <2>0. Answered(w, [code |-> req[w].code, grant |-> req[w].grant])
    BY <1>4, AnswerEffect
  <2> DEFINE t == [code |-> req[w].code, grant |-> req[w].grant]
  <2>1. Issued' = Issued /\ \A c : UsedUp(codes', c) <=> UsedUp(codes, c)
    BY <2>0 DEF Answered, Issued, UsedUp
  <2>2. \A v \in Worker : Paid(req'[v]) => v # w /\ req'[v] = req[v]
    BY <2>0 DEF Answered, Paid, Free
  <2>3. Paid(req[w]) /\ req[w].code \in Issued /\ t.code = req[w].code
    BY <2>0 DEF Answered, Traced, Paid, Exchanging
  <2>4. \A n \in DOMAIN tokens' : (n \in DOMAIN tokens /\ tokens'[n] = tokens[n]) \/ tokens'[n] = t
    BY <2>0 DEF Answered
  <2> HIDE DEF t
  <2> QED
    BY <2>1, <2>2, <2>3, <2>4 DEF Once
<1> QED
  BY <1>1, <1>2, <1>3, <1>4, QuietSteps

LEMMA LifeInvAlways == Spec => []LifeInv
<1>1. Init => LifeInv
  <2> SUFFICES ASSUME Init PROVE Traced /\ Once
    BY InitType DEF LifeInv
  <2> QED
    BY DEF Init, Traced, Once, UsedUp, Free, Paid, Exchanging
<1>2. LifeInv /\ [Next]_vars => LifeInv'
  BY TypeStep, TracedStep, OnceStep DEF LifeInv
<1> QED
  BY <1>1, <1>2, PTL DEF Spec

-----------------------------------------------------------------------------
(* The promise of CodeLife is kept.                                        *)

LEMMA LifeInit == Init => Life!Init
BY DEF Init, Life!Init, phase, grants, Phase, Issued

\* A code that some exchange is redeeming is not open besides.
PhaseTold ==
  \A c \in Code :
    /\ phase[c] = "unissued" <=> c \notin Issued
    /\ phase[c] = "redeeming" <=> c \in Issued /\ Redeeming(c)
    /\ phase[c] = "open" <=> c \in Issued /\ c \in DOMAIN codes /\ codes[c].consumed = Null
    /\ phase[c] \in {"unissued", "redeeming", "open", "closed"}

LEMMA PhaseOf == LifeInv => PhaseTold
<1> SUFFICES ASSUME LifeInv, NEW c \in Code
             PROVE  /\ phase[c] = "unissued" <=> c \notin Issued
                    /\ phase[c] = "redeeming" <=> c \in Issued /\ Redeeming(c)
                    /\ phase[c] = "open" <=> /\ c \in Issued /\ c \in DOMAIN codes
                                             /\ codes[c].consumed = Null
                    /\ phase[c] \in {"unissued", "redeeming", "open", "closed"}
  BY DEF PhaseTold
<1>1. Redeeming(c) => UsedUp(codes, c)
  BY DEF LifeInv, Once, Redeeming
<1> QED
  BY <1>1 DEF phase, Phase, UsedUp

\* So it is before a step and after.
LEMMA PhaseBoth == LifeInv /\ LifeInv' => PhaseTold /\ PhaseTold'
BY PhaseOf, PTL

\* Codes whose exchange, or whose row, goes.
LEMMA QuietCloses ==
  ASSUME LifeInv, LifeInv', Quiet
  PROVE  \E C \in SUBSET (Life!In("open") \cup Life!In("redeeming")) : Life!Close(C)
<1> DEFINE C == {c \in Code : phase[c] \in {"open", "redeeming"} /\ phase'[c] = "closed"}
<1>1. Issued' = Issued /\ UNCHANGED <<bound, tokens>>
  BY DEF Quiet, Issued
<1>2. ASSUME NEW c \in Code
      PROVE  phase'[c] = IF c \in C THEN "closed" ELSE phase[c]
  <2>1. Redeeming(c)' => Redeeming(c)
    BY DEF Quiet, Redeeming
  <2>2. c \in DOMAIN codes' => c \in DOMAIN codes /\ codes'[c] = codes[c]
    BY DEF Quiet
  <2> QED
    BY <1>1, <2>1, <2>2, PhaseBoth DEF PhaseTold
<1>3. phase' = Life!Closed(C)
  BY <1>2 DEF phase, Life!Closed
<1>4. UNCHANGED <<grants, tokens>>
  BY <1>1 DEF grants
<1>5. C \in SUBSET (Life!In("open") \cup Life!In("redeeming"))
  BY DEF Life!In
<1> QED
  BY <1>3, <1>4, <1>5 DEF Life!Close

LEMMA MintIssues ==
  ASSUME LifeInv, LifeInv', NEW w \in Worker, NEW code \in Code, MintCode(w, code)
  PROVE  Life!Next
<1> DEFINE C == {c \in Code : phase[c] = "open" /\ phase'[c] = "closed"}
<1>0. Minted(w, code)
  BY MintEffect DEF LifeInv
<1>1. ASSUME NEW c \in Code
      PROVE  Redeeming(c)' <=> Redeeming(c)
  <2>1. ~Paid(req[w]) /\ ~Paid(req'[w])
    BY <1>0 DEF Minted, MintCode, Paid, Free
  <2>2. \A v \in Worker : v # w => req'[v] = req[v]
    BY <1>0 DEF Minted
  <2> QED
    BY <2>1, <2>2 DEF Redeeming
<1>2. code \notin Issued /\ Issued' = Issued \cup {code}
  BY <1>0 DEF Minted
<1>3. phase[code] = "unissued" /\ phase'[code] = "open"
  <2>1. code \in DOMAIN codes' /\ codes'[code].consumed = Null
    BY <1>0 DEF Minted
  <2> QED
    BY <1>2, <2>1, PhaseBoth DEF PhaseTold
<1>4. ASSUME NEW c \in Code, c # code
      PROVE  phase'[c] = IF c \in C THEN "closed" ELSE phase[c]
  <2>1. c \in DOMAIN codes' => c \in DOMAIN codes /\ codes'[c] = codes[c]
    BY <1>0, <1>4 DEF Minted
  <2>2. c \in Issued' <=> c \in Issued
    BY <1>2, <1>4
  <2> QED
    BY <1>1, <2>1, <2>2, PhaseBoth DEF PhaseTold
<1>5. phase' = [Life!Closed(C) EXCEPT ![code] = "open"]
  BY <1>3, <1>4 DEF phase, Life!Closed
<1>6. bound'[code] # Null /\ grants'[code] \in Grant
  BY <1>0, <1>2 DEF grants, Minted, Issued
<1>7. \A c \in Code : c # code => bound'[c] = bound[c]
  BY <1>0 DEF Minted
<1>8. grants' = [grants EXCEPT ![code] = grants'[code]]
  BY <1>7 DEF grants
<1>9. UNCHANGED tokens
  BY <1>0 DEF Minted
<1>10. code \in Life!In("unissued") /\ C \in SUBSET Life!In("open")
  BY <1>3 DEF Life!In
<1> HIDE DEF C
<1> QED
  BY <1>5, <1>6, <1>8, <1>9, <1>10 DEF Life!Next, Life!Issue

LEMMA HitRedeems ==
  ASSUME LifeInv, LifeInv', NEW w \in Worker, NEW c \in Code, Redeemed(w, c)
  PROVE  Life!Next
<1>0. Redeemed(w, c)
  OBVIOUS
<1>1. c \in Code /\ Issued' = Issued
  BY <1>0 DEF Redeemed, Issued
<1>2. req'[w].code = c /\ Paid(req'[w]) /\ ~Paid(req[w])
  BY <1>0 DEF Redeemed, Paid
<1>3. \A v \in Worker : v # w => req'[v] = req[v]
  BY <1>0 DEF Redeemed
<1>4. Redeeming(c)'
  BY <1>2 DEF Redeeming
<1>5. phase[c] = "open" /\ phase'[c] = "redeeming"
  BY <1>0, <1>1, <1>4, PhaseBoth DEF PhaseTold, Redeemed
<1>6. ASSUME NEW d \in Code, d # c PROVE phase'[d] = phase[d]
  <2>1. Redeeming(d)' <=> Redeeming(d)
    BY <1>2, <1>3, <1>6 DEF Redeeming
  <2>2. /\ d \in DOMAIN codes' <=> d \in DOMAIN codes
        /\ d \in DOMAIN codes => codes'[d] = codes[d]
    BY <1>0, <1>6 DEF Redeemed
  <2> QED
    BY <1>1, <2>1, <2>2, PhaseBoth DEF PhaseTold
<1>7. phase' = [phase EXCEPT ![c] = "redeeming"]
  BY <1>1, <1>5, <1>6 DEF phase
<1>8. UNCHANGED <<grants, tokens>>
  BY <1>0 DEF Redeemed, grants
<1>9. c \in Life!In("open")
  BY <1>1, <1>5 DEF Life!In
<1> QED
  BY <1>7, <1>8, <1>9 DEF Life!Next, Life!Redeem

LEMMA AnswerAnswers ==
  ASSUME LifeInv, LifeInv', NEW w \in Worker, NEW c \in Code, c = req[w].code,
         NEW t, t = [code |-> c, grant |-> req[w].grant], Answered(w, t)
  PROVE  Life!Next
<1>0. Answered(w, t)
  OBVIOUS
<1>1. Paid(req[w]) /\ ~Paid(req'[w]) /\ UNCHANGED <<codes, bound>>
  BY <1>0 DEF Answered, Paid, Free
<1>2. c \in Issued /\ c \in Code /\ req[w].grant = bound[c].grant
  BY <1>1 DEF LifeInv, Traced, Exchanging, Paid, Issued
<1>3. \A v \in Worker : v # w => req'[v] = req[v]
  BY <1>0 DEF Answered
<1>4. \A v \in Worker : Paid(req[v]) /\ req[v].code = c => v = w
  BY <1>1 DEF LifeInv, Once
<1>5. Redeeming(c)
  BY <1>1 DEF Redeeming
<1>6. UsedUp(codes, c)
  BY <1>1 DEF LifeInv, Once
<1>7. \A d \in Code : d # c => (Redeeming(d)' <=> Redeeming(d))
  BY <1>1, <1>3 DEF Redeeming
<1>8. ~Redeeming(c)'
  BY <1>1, <1>3, <1>4 DEF Redeeming
<1>9. Issued' = Issued
  BY <1>1 DEF Issued
<1>10. phase[c] = "redeeming" /\ phase'[c] = "closed"
  BY <1>1, <1>2, <1>5, <1>6, <1>8, <1>9, PhaseBoth DEF PhaseTold, UsedUp
<1>11. \A d \in Code : d # c => phase'[d] = phase[d]
  BY <1>1, <1>7, <1>9, PhaseBoth DEF PhaseTold
<1>12. phase' = [phase EXCEPT ![c] = "closed"]
  BY <1>2, <1>10, <1>11 DEF phase
<1>13. grants[c] = req[w].grant
  BY <1>2 DEF grants, Issued
<1>14. tokens' = Append(tokens, [code |-> c, grant |-> grants[c]]) /\ UNCHANGED grants
  BY <1>0, <1>1, <1>13 DEF Answered, grants
<1>15. c \in Life!In("redeeming")
  BY <1>2, <1>10 DEF Life!In
<1> QED
  BY <1>12, <1>14, <1>15 DEF Life!Next, Life!Answer

LEMMA LifeStep == LifeInv /\ LifeInv' /\ [Next]_vars => Life!Next
<1> SUFFICES ASSUME LifeInv, LifeInv', [Next]_vars PROVE Life!Next
  OBVIOUS
<1>1. CASE Quiet
  BY <1>1, QuietCloses DEF Life!Next
<1>2. ASSUME NEW w \in Worker, Hits(w) PROVE Life!Next
  <2>1. Redeemed(w, req[w].code) /\ req[w].code \in Code
    BY <1>2, HitEffect DEF LifeInv, Redeemed, Issued
  <2> QED
    BY <2>1, HitRedeems
<1>3. ASSUME NEW w \in Worker, Answer(w) PROVE Life!Next
  <2>1. Answered(w, [code |-> req[w].code, grant |-> req[w].grant])
    BY <1>3, AnswerEffect DEF LifeInv
  <2>2. req[w].code \in Code
    BY <2>1 DEF Answered, Paid, Exchanging, LifeInv, Traced, Issued
  <2> QED
    BY <2>1, <2>2, AnswerAnswers
<1> QED
  BY <1>1, <1>2, <1>3, QuietSteps, MintIssues DEF LifeInv

\* For any instance, ImplementsCodeLife: a code is redeemed at most once, and a
\* token is of its person, client and address.
THEOREM CodesImplementLife == Spec => ImplementsCodeLife
BY LifeInit, LifeStep, LifeInvAlways, PTL DEF Spec, ImplementsCodeLife, Life!Spec

-----------------------------------------------------------------------------
(* A token is deserved.                                                    *)

\* What one exchange r may rely on, when the accounts are these, the codes were
\* given for this and n changes were made.
Deserved(accounts, given, n, r) ==
  /\ r.since <= n
  /\ Fit(accounts, given[r.code].grant) => r.fit
  /\ r.op = "person" /\ n = r.since => Trusted(accounts[r.grant.user])
  /\ r.op = "person" /\ n - r.since <= 1 /\ r.grant.client \in accounts[r.grant.user].entitled
       => r.fit \/ Trusted(accounts[r.grant.user])
  /\ r.op = "claims" /\ n - r.since <= 1 => r.fit

AllDeserved == \A w \in Worker : Exchanging(req[w]) => Deserved(users, bound, changes, req[w])

\* One request moves, and people do not change.
LEMMA DeservedMove ==
  ASSUME TypeOK, AllDeserved, NEW w \in Worker, NEW r, Put(w, r),
         UNCHANGED <<users, bound, changes>>,
         Exchanging(r) => Deserved(users, bound, changes, r)
  PROVE  AllDeserved'
<1>1. req'[w] = r /\ \A v \in Worker : v # w => req'[v] = req[v]
  BY DEF Put, TypeOK
<1>2. ASSUME NEW v \in Worker, Exchanging(req'[v])
      PROVE  Deserved(users, bound, changes, req'[v])
  BY <1>1, <1>2 DEF AllDeserved
<1> QED
  BY <1>2 DEF AllDeserved

LEMMA DeservedRequests ==
  ASSUME LifeInv, AllDeserved, NEW w \in Worker,
         \/ Refuse(w)
         \/ \E grant \in Grant : Authorize(w, grant)
         \/ \E code \in Code, client \in Client, uri \in Uri : Token(w, code, client, uri)
         \/ Consume(w)
         \/ Answer(w)
  PROVE  AllDeserved'
<1>0. TypeOK /\ changes \in Nat
  BY CodesAssumption DEF LifeInv, TypeOK
<1>1. CASE Refuse(w) \/ Answer(w)
  BY <1>0, <1>1, DeservedMove DEF Refuse, Answer, Free, Exchanging, people
<1>2. ASSUME NEW grant \in Grant, Authorize(w, grant) PROVE AllDeserved'
  <2> DEFINE r == [op |-> "authorize", grant |-> grant]
  <2>1. Put(w, r) /\ UNCHANGED <<users, bound, changes>>
    BY <1>2 DEF Authorize, people
  <2>2. ~Exchanging(r)
    BY DEF Exchanging
  <2> HIDE DEF r
  <2> QED
    BY <1>0, <2>1, <2>2, DeservedMove
<1>3. ASSUME NEW code \in Code, NEW client \in Client, NEW uri \in Uri,
             Token(w, code, client, uri)
      PROVE  AllDeserved'
  <2> DEFINE r == [op |-> "token", code |-> code, client |-> client, uri |-> uri,
                   moment |-> now, since |-> changes, fit |-> Fit(users, bound[code].grant)]
  <2>1. Put(w, r) /\ UNCHANGED <<users, bound, changes>>
    BY <1>3 DEF Token, people
  <2>2. /\ r.op = "token" /\ r.since = changes /\ r.code = code
        /\ r.fit = Fit(users, bound[code].grant)
    OBVIOUS
  <2> HIDE DEF r
  <2>3. Deserved(users, bound, changes, r)
    BY <1>0, <2>2 DEF Deserved
  <2> QED
    BY <1>0, <2>1, <2>3, DeservedMove
<1>4. CASE Consume(w) /\ ~Hits(w)
  <2> DEFINE r == [op |-> "refused", code |-> req[w].code, client |-> req[w].client,
                   uri |-> req[w].uri]
  <2>1. Put(w, r) /\ UNCHANGED <<users, bound, changes>>
    BY <1>4 DEF Consume, Hits, people
  <2>2. ~Exchanging(r)
    BY DEF Exchanging
  <2> HIDE DEF r
  <2> QED
    BY <1>0, <2>1, <2>2, DeservedMove
<1>5. CASE Hits(w)
  <2> DEFINE r == [op |-> "spent", code |-> req[w].code,
                   grant |-> Presented(codes[req[w].code], req[w]),
                   since |-> req[w].since, fit |-> req[w].fit]
  <2>1. Put(w, r) /\ UNCHANGED <<users, bound, changes>> /\ req[w].op = "token"
    BY <1>5 DEF Hits, Consume, people
  <2>2. r.op = "spent" /\ r.code = req[w].code /\ r.since = req[w].since /\ r.fit = req[w].fit
    OBVIOUS
  <2> HIDE DEF r
  <2>3. Deserved(users, bound, changes, r)
    BY <2>1, <2>2 DEF Deserved, AllDeserved, Exchanging
  <2> QED
    BY <1>0, <2>1, <2>3, DeservedMove
<1> QED
  BY <1>1, <1>2, <1>3, <1>4, <1>5

\* The two readings: what CheckPerson saw, and BuildClaims.
LEMMA DeservedReadings ==
  ASSUME LifeInv, AllDeserved, NEW w \in Worker, CheckPerson(w) \/ BuildClaims(w)
  PROVE  AllDeserved'
<1>1. PICK op \in {"person", "claims"} : Put(w, [req[w] EXCEPT !.op = op])
  BY DEF CheckPerson, BuildClaims
<1> DEFINE r == [req[w] EXCEPT !.op = op]
<1>2. req[w] \in Request /\ Paid(req[w]) /\ UNCHANGED <<users, bound, changes>>
  BY DEF LifeInv, TypeOK, CheckPerson, BuildClaims, people, Paid
<1>3. /\ r.op = op /\ r.code = req[w].code /\ r.grant = req[w].grant
      /\ r.since = req[w].since /\ r.fit = req[w].fit
  BY <1>2 DEF Request, Free, Paid
<1>4. r.grant = bound[r.code].grant
  BY <1>2, <1>3 DEF LifeInv, Traced
<1>5. Deserved(users, bound, changes, req[w])
  BY <1>2 DEF AllDeserved, Paid, Exchanging
<1>6. req'[w] = r
  BY <1>1 DEF Put, LifeInv, TypeOK
<1> HIDE DEF r
<1>7. CASE CheckPerson(w)
  <2>1. Trusted(users[r.grant.user])
    BY <1>3, <1>7 DEF CheckPerson
  <2>2. op = "person"
    BY <1>2, <1>3, <1>6, <1>7 DEF CheckPerson, Put, LifeInv, TypeOK, Request, Free, Paid
  <2> QED
    BY <1>1, <1>2, <1>3, <1>5, <2>1, <2>2, DeservedMove DEF Deserved, LifeInv, r
<1>8. CASE BuildClaims(w)
  <2>1. req[w].op = "person" /\ r.grant.client \in users[r.grant.user].entitled
    BY <1>3, <1>8 DEF BuildClaims
  <2>2. op = "claims"
    BY <1>2, <1>3, <1>6, <1>8 DEF BuildClaims, Put, LifeInv, TypeOK, Request, Free, Paid
  <2>3. changes - r.since <= 1 => r.fit
    BY <1>3, <1>4, <1>5, <2>1 DEF Deserved, Fit
  <2>4. Deserved(users, bound, changes, r)
    BY <1>3, <1>5, <2>2, <2>3 DEF Deserved
  <2> QED
    BY <1>1, <1>2, <2>4, DeservedMove DEF LifeInv, r
<1> QED
  BY <1>7, <1>8

LEMMA DeservedMint ==
  ASSUME LifeInv, AllDeserved, NEW w \in Worker, NEW code \in Code, MintCode(w, code)
  PROVE  AllDeserved'
<1>0. Minted(w, code) /\ UNCHANGED <<users, changes>>
  BY MintEffect DEF LifeInv, MintCode, people
<1>1. ASSUME NEW v \in Worker, Exchanging(req'[v])
      PROVE  Deserved(users, bound', changes, req'[v])
  <2>1. v # w /\ req'[v] = req[v]
    BY <1>0, <1>1 DEF Minted, Exchanging, Free
  <2>2. req[v].code \in Issued
    BY <1>1, <2>1 DEF LifeInv, Traced
  <2>3. bound'[req[v].code] = bound[req[v].code]
    BY <1>0, <2>2 DEF Minted, Issued
  <2>4. Deserved(users, bound, changes, req[v])
    BY <1>1, <2>1 DEF AllDeserved
  <2> QED
    BY <2>1, <2>3, <2>4 DEF Deserved
<1> QED
  BY <1>0, <1>1 DEF AllDeserved

\* A change that makes somebody untrusted does not entitle them.
LEMMA OneThingAtATime ==
  ASSUME TypeOK, NEW u \in User,
         \/ \E status \in {"active", "suspended"} : SetUserStatus(u, status)
         \/ \E due \in BOOLEAN : SetPassword(u, due)
         \/ \E apps \in SUBSET Client : SetEntitled(u, apps)
         \/ DeleteUser(u)
  PROVE  \A v \in User :
           Trusted(users[v]) /\ ~Trusted(users'[v]) => users'[v].entitled \subseteq users[v].entitled
<1> DEFINE gone == [status |-> "deleted", must_change_password |-> FALSE, entitled |-> {}]
<1>1. users[u] \in Account
  BY DEF TypeOK
<1>2. ASSUME NEW account, Change(u, account),
             Trusted(users[u]) /\ ~Trusted(account) => account.entitled \subseteq users[u].entitled
      PROVE  \A v \in User : Trusted(users[v]) /\ ~Trusted(users'[v])
                               => users'[v].entitled \subseteq users[v].entitled
  BY <1>2 DEF Change, TypeOK
<1>3. CASE \E status \in {"active", "suspended"} : SetUserStatus(u, status)
  <2>1. PICK status \in {"active", "suspended"} : Change(u, [users[u] EXCEPT !.status = status])
    BY <1>3 DEF SetUserStatus
  <2>2. [users[u] EXCEPT !.status = status].entitled = users[u].entitled
    BY <1>1 DEF Account
  <2> QED
    BY <1>2, <2>1, <2>2
<1>4. CASE \E due \in BOOLEAN : SetPassword(u, due)
  <2>1. PICK due \in BOOLEAN : Change(u, [users[u] EXCEPT !.must_change_password = due])
    BY <1>4 DEF SetPassword
  <2>2. [users[u] EXCEPT !.must_change_password = due].entitled = users[u].entitled
    BY <1>1 DEF Account
  <2> QED
    BY <1>2, <2>1, <2>2
<1>5. CASE \E apps \in SUBSET Client : SetEntitled(u, apps)
  <2>1. PICK apps \in SUBSET Client : Change(u, [users[u] EXCEPT !.entitled = apps])
    BY <1>5 DEF SetEntitled
  <2>2. Trusted([users[u] EXCEPT !.entitled = apps]) <=> Trusted(users[u])
    BY <1>1 DEF Account, Trusted
  <2> QED
    BY <1>2, <2>1, <2>2
<1>6. CASE DeleteUser(u)
  <2>1. Change(u, gone) /\ gone.entitled = {}
    BY <1>6 DEF DeleteUser
  <2> HIDE DEF gone
  <2> QED
    BY <1>2, <2>1
<1> QED
  BY <1>3, <1>4, <1>5, <1>6

LEMMA DeservedAdministers == LifeInv /\ AllDeserved /\ Administers => AllDeserved'
<1> SUFFICES ASSUME LifeInv, AllDeserved, Administers PROVE AllDeserved'
  OBVIOUS
<1>0. TypeOK /\ changes \in Nat
  BY CodesAssumption DEF LifeInv, TypeOK
<1>1. ASSUME NEW c \in Client, NEW status \in {"active", "disabled"}, SetClientStatus(c, status)
      PROVE  AllDeserved'
  <2>1. UNCHANGED <<users, bound, req>> /\ changes' = changes + 1
    BY <1>1 DEF SetClientStatus
  <2>2. ASSUME NEW w \in Worker, Exchanging(req[w])
        PROVE  Deserved(users, bound, changes + 1, req[w])
    <3>1. Deserved(users, bound, changes, req[w]) /\ req[w].since \in Nat
      BY <1>0, <2>2, Carries DEF AllDeserved, TypeOK
    <3> QED
      BY <1>0, <3>1 DEF Deserved
  <2> QED
    BY <2>1, <2>2 DEF AllDeserved
<1>2. ASSUME NEW u \in User,
             \/ \E status \in {"active", "suspended"} : SetUserStatus(u, status)
             \/ \E due \in BOOLEAN : SetPassword(u, due)
             \/ \E apps \in SUBSET Client : SetEntitled(u, apps)
             \/ DeleteUser(u)
      PROVE  AllDeserved'
  <2>1. PICK account : Change(u, account)
    BY <1>2 DEF SetUserStatus, SetPassword, SetEntitled, DeleteUser
  <2>2. changes' = changes + 1 /\ UNCHANGED bound
    BY <2>1 DEF Change
  <2>3. \A v \in User :
          Trusted(users[v]) /\ ~Trusted(users'[v]) => users'[v].entitled \subseteq users[v].entitled
    BY <1>0, <1>2, OneThingAtATime
  <2>4. ASSUME NEW w \in Worker, Exchanging(req'[w])
        PROVE  Deserved(users', bound, changes + 1, req'[w])
    <3>1. /\ req'[w].op = req[w].op
          /\ Exchanging(req[w])
          /\ req'[w].code = req[w].code /\ req'[w].since = req[w].since
          /\ Paid(req[w]) => req'[w].grant = req[w].grant
          /\ req'[w].fit <=> req[w].fit \/ Fit(users', bound[req[w].code].grant)
      BY <1>0, <2>1, <2>4, ChangeKeeps DEF Exchanging
    <3>2. Deserved(users, bound, changes, req[w]) /\ req[w].since \in Nat
      BY <1>0, <3>1, Carries DEF AllDeserved, TypeOK
    <3>3. ASSUME req[w].op = "person", (changes + 1) - req[w].since <= 1,
                 req[w].grant.client \in users'[req[w].grant.user].entitled,
                 ~Trusted(users'[req[w].grant.user])
          PROVE  req[w].fit
      <4>1. req[w].grant = bound[req[w].code].grant /\ req[w].grant.user \in User
        BY <1>0, <3>3, Carries DEF LifeInv, Traced, Paid, TypeOK, Grant
      <4>2. Trusted(users[req[w].grant.user])
        BY <1>0, <3>2, <3>3 DEF Deserved
      <4>3. req[w].grant.client \in users[req[w].grant.user].entitled
        BY <2>3, <3>3, <4>1, <4>2
      <4> QED
        BY <3>2, <4>1, <4>2, <4>3 DEF Deserved, Fit
    <3>4. req'[w].since <= changes + 1 /\ changes + 1 # req'[w].since
      BY <1>0, <3>1, <3>2 DEF Deserved
    <3>5. req[w].op = "claims" /\ (changes + 1) - req[w].since <= 1 => req[w].fit
      BY <1>0, <3>2 DEF Deserved
    <3>6. Fit(users', bound[req'[w].code].grant) => req'[w].fit
      BY <3>1
    <3>7. req'[w].op = "person" => req'[w].grant = req[w].grant
      BY <3>1 DEF Paid
    <3>8. req[w].fit => req'[w].fit
      BY <3>1
    <3>9. (req'[w].op = "person" /\ (changes + 1) - req'[w].since <= 1
             /\ req'[w].grant.client \in users'[req'[w].grant.user].entitled)
          => req'[w].fit \/ Trusted(users'[req'[w].grant.user])
      BY <3>1, <3>3, <3>7, <3>8
    <3>10. req'[w].op = "claims" /\ (changes + 1) - req'[w].since <= 1 => req'[w].fit
      BY <3>1, <3>5, <3>8
    <3> QED
      BY <3>4, <3>6, <3>9, <3>10 DEF Deserved
  <2> QED
    BY <2>2, <2>4 DEF AllDeserved
<1> QED
  BY <1>1, <1>2 DEF Administers

LEMMA DeservedStep == LifeInv /\ AllDeserved /\ [Next]_vars => AllDeserved'
<1> SUFFICES ASSUME LifeInv, AllDeserved, [Next]_vars PROVE AllDeserved'
  OBVIOUS
<1>1. CASE UNCHANGED vars \/ Tick
  BY <1>1 DEF vars, people, Tick, AllDeserved
<1>2. CASE Administers
  BY <1>2, DeservedAdministers
<1> QED
  BY <1>1, <1>2, DeservedRequests, DeservedReadings, DeservedMint DEF Next, Administers

\* For any instance, TokensAreDeserved: the two readings of the exchange sign
\* nothing that no moment of it deserved, one change between them included.
THEOREM TokensDeserved == Spec => []TokensAreDeserved
<1>1. Init => AllDeserved
  BY DEF Init, AllDeserved, Free, Exchanging
<1>2. AllDeserved => TokensAreDeserved
  BY DEF AllDeserved, TokensAreDeserved, Deserved, Exchanging
<1> QED
  BY <1>1, <1>2, DeservedStep, LifeInvAlways, PTL DEF Spec

-----------------------------------------------------------------------------
(* A refusal is explained.                                                 *)

\* An exchange took its moment from the clock; and one that changed no row had
\* no row it could have changed, nor has now.
HadNone ==
  \A w \in Worker :
    /\ req[w].op = "token" => req[w].moment <= now
    /\ req[w].op = "refused" /\ req[w].code \in DOMAIN codes =>
         \/ codes[req[w].code].grant.client # req[w].client
         \/ codes[req[w].code].grant.uri # req[w].uri
         \/ codes[req[w].code].consumed # Null
         \/ codes[req[w].code].expires <= now

\* A code whose person is there is kept until its time.
KeptLong ==
  \A c \in Issued :
    bound[c].expires >= now - CODE_KEEP /\ users[bound[c].grant.user].status # "deleted"
      => c \in DOMAIN codes

Explained == HadNone /\ KeptLong

\* The requests that may not keep HadNone to themselves: their own next state
\* has it.
LEMMA HadNoneMove ==
  ASSUME TypeOK, HadNone, NEW w \in Worker, NEW r, Put(w, r), UNCHANGED <<codes, now>>,
         r.op = "token" => r.moment <= now,
         r.op = "refused" => \/ r.code \notin DOMAIN codes
                             \/ codes[r.code].grant.client # r.client
                             \/ codes[r.code].grant.uri # r.uri
                             \/ codes[r.code].consumed # Null
                             \/ codes[r.code].expires <= now
  PROVE  HadNone'
<1>1. req'[w] = r /\ \A v \in Worker : v # w => req'[v] = req[v]
  BY DEF Put, TypeOK
<1> QED
  BY <1>1 DEF HadNone

LEMMA HadNoneRequests ==
  ASSUME LifeInv, HadNone, NEW w \in Worker,
         \/ Refuse(w)
         \/ \E grant \in Grant : Authorize(w, grant)
         \/ \E code \in Code, client \in Client, uri \in Uri : Token(w, code, client, uri)
         \/ Consume(w) /\ ~Hits(w)
         \/ CheckPerson(w)
         \/ BuildClaims(w)
         \/ Answer(w)
  PROVE  HadNone'
<1>0. TypeOK /\ now \in Nat
  BY DEF LifeInv, TypeOK
<1>1. CASE Refuse(w) \/ Answer(w)
  BY <1>0, <1>1, HadNoneMove DEF Refuse, Answer, Free, people
<1>2. ASSUME NEW grant \in Grant, Authorize(w, grant) PROVE HadNone'
  <2> DEFINE r == [op |-> "authorize", grant |-> grant]
  <2>1. Put(w, r) /\ UNCHANGED <<codes, now>> /\ r.op = "authorize"
    BY <1>2 DEF Authorize
  <2> HIDE DEF r
  <2> QED
    BY <1>0, <2>1, HadNoneMove
<1>3. ASSUME NEW code \in Code, NEW client \in Client, NEW uri \in Uri,
             Token(w, code, client, uri)
      PROVE  HadNone'
  <2> DEFINE r == [op |-> "token", code |-> code, client |-> client, uri |-> uri,
                   moment |-> now, since |-> changes, fit |-> Fit(users, bound[code].grant)]
  <2>1. Put(w, r) /\ UNCHANGED <<codes, now>> /\ r.op = "token" /\ r.moment = now
    BY <1>3 DEF Token
  <2> HIDE DEF r
  <2> QED
    BY <1>0, <2>1, HadNoneMove
<1>4. CASE Consume(w) /\ ~Hits(w)
  <2> DEFINE r == [op |-> "refused", code |-> req[w].code, client |-> req[w].client,
                   uri |-> req[w].uri]
  <2>1. Put(w, r) /\ UNCHANGED <<codes, now>> /\ req[w].op = "token"
    BY <1>4 DEF Consume, Hits
  <2>2. r.op = "refused" /\ r.code = req[w].code /\ r.client = req[w].client /\ r.uri = req[w].uri
    OBVIOUS
  <2> HIDE DEF r
  <2>3. r.code \notin DOMAIN codes \/ ~Redeemable(codes[r.code], req[w])
    BY <1>4, <2>2 DEF Hits
  <2>4. req[w].moment \in Nat /\ req[w].moment <= now
    BY <1>0, <2>1, Carries, CodesAssumption DEF HadNone, TypeOK, Moment
  <2>5. r.code \in DOMAIN codes => codes[r.code].expires \in Nat
    BY <1>0, CodesAssumption DEF TypeOK, Row, Moment
  <2> QED
    BY <1>0, <2>1, <2>2, <2>3, <2>4, <2>5, HadNoneMove DEF Redeemable
<1>5. CASE CheckPerson(w) \/ BuildClaims(w)
  <2>1. PICK op \in {"person", "claims"} : Put(w, [req[w] EXCEPT !.op = op])
    BY <1>5 DEF CheckPerson, BuildClaims
  <2>2. req[w] \in Request /\ Paid(req[w]) /\ UNCHANGED <<codes, now>>
    BY <1>0, <1>5 DEF TypeOK, CheckPerson, BuildClaims, Paid
  <2>3. [req[w] EXCEPT !.op = op].op = op
    BY <2>2 DEF Request, Free, Paid
  <2> QED
    BY <1>0, <2>1, <2>2, <2>3, HadNoneMove
<1> QED
  BY <1>1, <1>2, <1>3, <1>4, <1>5

\* The clock, the sweep, a redemption and a deletion leave a row useless.
LEMMA HadNoneStep == LifeInv /\ HadNone /\ [Next]_vars => HadNone'
<1> SUFFICES ASSUME LifeInv, HadNone, [Next]_vars PROVE HadNone'
  OBVIOUS
<1>0. TypeOK /\ now \in Nat /\ \A c \in DOMAIN codes : codes[c].expires \in Nat
  BY CodesAssumption DEF LifeInv, TypeOK, Row, Moment
<1>1. CASE UNCHANGED vars
  BY <1>1 DEF vars, HadNone
<1>2. CASE Tick
  <2>1. UNCHANGED <<req, codes>> /\ now' = now + 1
    BY <1>2 DEF Tick
  <2>2. \A w \in Worker : req[w].op = "token" => req[w].moment \in Nat
    BY <1>0, Carries, CodesAssumption DEF TypeOK, Moment
  <2> QED
    BY <1>0, <2>1, <2>2 DEF HadNone
<1>3. ASSUME NEW c \in Client, NEW status \in {"active", "disabled"}, SetClientStatus(c, status)
      PROVE  HadNone'
  BY <1>3 DEF SetClientStatus, HadNone
<1>4. ASSUME NEW u \in User, NEW account, Change(u, account),
             \A c \in DOMAIN codes' : c \in DOMAIN codes /\ codes'[c] = codes[c]
      PROVE  HadNone'
  <2>1. UNCHANGED now
    BY <1>4 DEF Change
  <2>2. ASSUME NEW w \in Worker
        PROVE  /\ req'[w].op = "token" =>
                    req[w].op = "token" /\ req'[w].moment = req[w].moment
               /\ req'[w].op = "refused" => req'[w] = req[w]
    <3>1. CASE ~Exchanging(req[w])
      BY <1>0, <1>4, <3>1, ChangeRequests DEF Exchanging
    <3>2. CASE Exchanging(req[w])
      <4> DEFINE fit == req[w].fit \/ Fit(users', bound[req[w].code].grant)
      <4>1. req'[w] = [req[w] EXCEPT !.fit = fit] /\ req[w] \in Request
        BY <1>0, <1>4, <3>2, ChangeRequests DEF TypeOK
      <4> HIDE DEF fit
      <4>2. req'[w].op = req[w].op
        BY <3>2, <4>1 DEF Request, Free, Exchanging
      <4>3. req[w].op = "token" => req'[w].moment = req[w].moment
        BY <4>1 DEF Request, Free
      <4> QED
        BY <3>2, <4>2, <4>3 DEF Exchanging
    <3> QED
      BY <3>1, <3>2
  <2> QED
    BY <1>4, <2>1, <2>2 DEF HadNone
<1>5. ASSUME NEW w \in Worker, NEW code \in Code, MintCode(w, code) PROVE HadNone'
  <2>0. Minted(w, code)
    BY <1>0, <1>5, MintEffect
  <2>1. \A c \in DOMAIN codes' : c \in Issued => c \in DOMAIN codes /\ codes'[c] = codes[c]
    BY <2>0 DEF Minted
  <2>2. \A v \in Worker : req'[v].op \in {"token", "refused"} => req'[v] = req[v]
    BY <2>0 DEF Minted, Free
  <2>3. \A v \in Worker : req[v].op = "refused" => req[v].code \in Issued
    BY DEF LifeInv, Traced
  <2>4. UNCHANGED now
    BY <2>0 DEF Minted
  <2> QED
    BY <2>1, <2>2, <2>3, <2>4 DEF HadNone
<1>6. ASSUME NEW w \in Worker, Hits(w) PROVE HadNone'
  <2>0. Redeemed(w, req[w].code)
    BY <1>0, <1>6, HitEffect
  <2>1. \A v \in Worker : req'[v].op \in {"token", "refused"} => req'[v] = req[v]
    BY <2>0 DEF Redeemed
  <2>2. /\ DOMAIN codes' = DOMAIN codes
        /\ \A c \in DOMAIN codes : codes'[c] = codes[c] \/ codes'[c].consumed # Null
    BY <2>0 DEF Redeemed
  <2>3. UNCHANGED now
    BY <2>0 DEF Redeemed
  <2> QED
    BY <2>1, <2>2, <2>3 DEF HadNone
<1>7. ASSUME NEW u \in User,
             \/ \E status \in {"active", "suspended"} : SetUserStatus(u, status)
             \/ \E due \in BOOLEAN : SetPassword(u, due)
             \/ \E apps \in SUBSET Client : SetEntitled(u, apps)
      PROVE  HadNone'
  BY <1>0, <1>4, <1>7, SoberChange
<1>8. ASSUME NEW u \in User, DeleteUser(u) PROVE HadNone'
  BY <1>4, <1>8 DEF DeleteUser
<1> QED
  BY <1>1, <1>2, <1>3, <1>5, <1>6, <1>7, <1>8, HadNoneRequests DEF Next

\* Only the sweep and a deletion take rows away, and they do so in time.
LEMMA KeptLongStep == LifeInv /\ KeptLong /\ [Next]_vars => KeptLong'
<1> SUFFICES ASSUME LifeInv, KeptLong, [Next]_vars PROVE KeptLong'
  OBVIOUS
<1>0. TypeOK /\ now \in Nat /\ CODE_KEEP \in Nat
  BY CodesAssumption DEF LifeInv, TypeOK
<1>1. ASSUME NEW c \in Issued
      PROVE  bound[c].expires \in Nat /\ bound[c].grant.user \in User /\ c \in Code
  BY <1>0, CodesAssumption DEF TypeOK, Issued, Binding, Grant, Moment
<1>2. CASE UNCHANGED <<users, now, bound>> /\ DOMAIN codes' = DOMAIN codes
  BY <1>2 DEF KeptLong, Issued
<1>3. CASE Tick
  <2>1. UNCHANGED <<users, codes, bound>> /\ now' = now + 1 /\ Issued' = Issued
    BY <1>3 DEF Tick, people, Issued
  <2>2. \A c \in Issued : bound[c].expires >= (now + 1) - CODE_KEEP
                            => bound[c].expires >= now - CODE_KEEP
    BY <1>0, <1>1
  <2> QED
    BY <2>1, <2>2 DEF KeptLong
<1>4. ASSUME NEW w \in Worker, NEW code \in Code, MintCode(w, code) PROVE KeptLong'
  <2>0. Minted(w, code)
    BY <1>0, <1>4, MintEffect
  <2>1. UNCHANGED <<users, now>> /\ DOMAIN codes' = Kept(codes) \cup {code}
    BY <2>0 DEF Minted
  <2>2. \A c \in Issued' : c # code => c \in Issued /\ bound'[c] = bound[c]
    BY <2>0 DEF Minted, Issued
  <2>3. ASSUME NEW c \in Issued, c \in DOMAIN codes, bound[c].expires >= now - CODE_KEEP
        PROVE  c \in Kept(codes)
    BY <2>3 DEF Kept, LifeInv, Traced
  <2> QED
    BY <2>1, <2>2, <2>3 DEF KeptLong
<1>5. ASSUME NEW u \in User, NEW account, Change(u, account)
      PROVE  /\ UNCHANGED <<now, bound>> /\ Issued' = Issued
             /\ users'[u] = account
             /\ \A v \in User : users'[v].status # "deleted" => users[v].status # "deleted"
  BY <1>0, <1>5 DEF Change, TypeOK, Issued
<1>6. ASSUME NEW u \in User,
             \/ \E status \in {"active", "suspended"} : SetUserStatus(u, status)
             \/ \E due \in BOOLEAN : SetPassword(u, due)
             \/ \E apps \in SUBSET Client : SetEntitled(u, apps)
      PROVE  KeptLong'
  <2>1. PICK account \in Account : Change(u, account) /\ UNCHANGED codes
    BY <1>0, <1>6, SoberChange
  <2> QED
    BY <1>1, <1>5, <2>1 DEF KeptLong
<1>7. ASSUME NEW u \in User, DeleteUser(u) PROVE KeptLong'
  <2> DEFINE gone == [status |-> "deleted", must_change_password |-> FALSE, entitled |-> {}]
  <2>1. Change(u, gone) /\ gone.status = "deleted"
    BY <1>7 DEF DeleteUser
  <2>2. DOMAIN codes' = {d \in DOMAIN codes : codes[d].grant.user # u}
    BY <1>7 DEF DeleteUser
  <2> HIDE DEF gone
  <2>3. ASSUME NEW c \in Issued, c \in DOMAIN codes, users'[bound[c].grant.user].status # "deleted"
        PROVE  c \in DOMAIN codes'
    BY <1>5, <2>1, <2>2, <2>3 DEF LifeInv, Traced
  <2> QED
    BY <1>1, <1>5, <2>1, <2>3 DEF KeptLong
<1>8. ASSUME NEW w \in Worker,
             \/ Refuse(w)
             \/ \E grant \in Grant : Authorize(w, grant)
             \/ \E code \in Code, client \in Client, uri \in Uri : Token(w, code, client, uri)
             \/ Consume(w)
             \/ CheckPerson(w)
             \/ BuildClaims(w)
             \/ Answer(w)
      PROVE  UNCHANGED <<users, now, bound>> /\ DOMAIN codes' = DOMAIN codes
  <2>1. CASE Consume(w)
    BY <2>1 DEF Consume, people
  <2>2. CASE Refuse(w) \/ CheckPerson(w) \/ BuildClaims(w) \/ Answer(w)
    BY <2>2 DEF Refuse, CheckPerson, BuildClaims, Answer, people
  <2>3. CASE \/ \E grant \in Grant : Authorize(w, grant)
             \/ \E code \in Code, client \in Client, uri \in Uri : Token(w, code, client, uri)
    BY <2>3 DEF Authorize, Token, people
  <2> QED
    BY <1>8, <2>1, <2>2, <2>3
<1>9. ASSUME NEW c \in Client, NEW status \in {"active", "disabled"}, SetClientStatus(c, status)
      PROVE  KeptLong'
  BY <1>9 DEF SetClientStatus, KeptLong, Issued
<1>10. CASE UNCHANGED vars
  BY <1>2, <1>10 DEF vars, people
<1> QED
  BY <1>2, <1>3, <1>4, <1>6, <1>7, <1>8, <1>9, <1>10 DEF Next

LEMMA ExplainedInit == Init => Explained
BY DEF Init, Explained, HadNone, KeptLong, Free, Issued

LEMMA ExplainedSuffices == LifeInv /\ Explained => RefusalsExplained
<1> SUFFICES ASSUME LifeInv, Explained, NEW w \in Worker, req[w].op = "refused"
             PROVE  LET r == req[w]
                        b == bound[r.code]
                        why == Reason(r)
                        kept == /\ b.expires >= now - CODE_KEEP
                                /\ users[b.grant.user].status # "deleted"
                        redeemed == \E n \in DOMAIN tokens : tokens[n].code = r.code
                    IN
                    /\ why # "not redeemable"
                    /\ why = "no such code" => ~kept
                    /\ why = "expired" => b.expires <= now
                    /\ why = "issued to another client" => b.grant.client # r.client
                    /\ why = "redirect_uri does not match" => b.grant.uri # r.uri
                    /\ redeemed /\ kept => why = "already redeemed"
  BY DEF RefusalsExplained
<1> DEFINE c == req[w].code
<1>1. c \in Issued
  BY DEF LifeInv, Traced
<1>2. CASE c \notin DOMAIN codes
  BY <1>1, <1>2 DEF Reason, Explained, KeptLong
<1>3. CASE c \in DOMAIN codes
  <2>1. codes[c].grant = bound[c].grant /\ codes[c].expires = bound[c].expires
    BY <1>3 DEF LifeInv, Traced
  <2>2. (\E n \in DOMAIN tokens : tokens[n].code = c) => codes[c].consumed # Null
    BY <1>3 DEF LifeInv, Once, UsedUp
  <2>3. \/ codes[c].grant.client # req[w].client
        \/ codes[c].grant.uri # req[w].uri
        \/ codes[c].consumed # Null
        \/ codes[c].expires <= now
    BY <1>3 DEF Explained, HadNone
  <2> QED
    BY <1>3, <2>1, <2>2, <2>3 DEF Reason
<1> QED
  BY <1>2, <1>3

\* For any instance, RefusalsExplained: the second reading, after the UPDATE
\* that changed no row, finds a reason, and a true one.
THEOREM RefusalsCorrect == Spec => []RefusalsExplained
<1>1. LifeInv /\ Explained /\ [Next]_vars => Explained'
  BY HadNoneStep, KeptLongStep DEF Explained
<1> QED
  BY <1>1, ExplainedInit, ExplainedSuffices, LifeInvAlways, PTL DEF Spec

-----------------------------------------------------------------------------
(***************************************************************************)
(* The keys that tokens are signed with, for any number of processes, calls *)
(* and keys: the invariant of Keys is that whatever has a key id - a token, *)
(* a call about to sign, a key somebody fetched - has the key of the        *)
(* table's row of that id.                                                 *)
(***************************************************************************)
\* The key is the published one of its id.
Known(key) == key.kid \in Published /\ signing_keys[key.kid].pem = key.pem

\* What a step does to the table: rows stay, and keep their keys.
TableGrows ==
  /\ Published \subseteq DOMAIN signing_keys'
  /\ \A k \in Published : signing_keys'[k].pem = signing_keys[k].pem

InFlightInv ==
  \A w \in Thread : InFlight(w) =>
    /\ Held(w) # None
    /\ calls[w].op = "ready" => Known(Held(w))

\* A process that starts has no other call: it does not serve yet.
StartsAlone ==
  \A u, w \in Thread :
    InFlight(u) /\ InFlight(w) /\ u # w /\ calls[u].starting => calls[u].of # calls[w].of

SigningTypes ==
  /\ Published \subseteq Kid /\ signing_keys \in [Published -> KeyRow]
  /\ process \in [Instance -> Material \cup {None}]
  /\ drawn \subseteq Throwaway
  /\ calls \in [Thread -> Call \cup {NoCall}]
  /\ signed \subseteq Key /\ cached \subseteq Key

Everywhere == \A key \in signed \cup cached : Known(key)

SigningInv == SigningTypes /\ InFlightInv /\ StartsAlone /\ Everywhere

-----------------------------------------------------------------------------
LEMMA SigningInit == KeysInit => SigningInv
BY DEF KeysInit, SigningInv, SigningTypes, InFlightInv, StartsAlone, Everywhere, Published, InFlight, NoCall

LEMMA SigningGivesTypes == SigningInv => KeysTypeOK
BY DEF SigningInv, SigningTypes, InFlightInv, KeysTypeOK, Known

\* No step takes a row away or changes its key.
LEMMA TableStep == SigningTypes /\ [KeysNext]_keysVars => TableGrows
<1> SUFFICES ASSUME SigningTypes, [KeysNext]_keysVars PROVE TableGrows
  OBVIOUS
<1>1. CASE UNCHANGED signing_keys
  BY <1>1 DEF TableGrows, Published
<1>2. ASSUME NEW w \in Thread, Publish(w) PROVE TableGrows
  BY <1>2 DEF Publish, TableGrows, Published, SigningTypes, KeyRow
<1>3. ASSUME NEW k \in Kid, Retire(k) PROVE TableGrows
  BY <1>3 DEF Retire, TableGrows, Published, Active, SigningTypes, KeyRow
<1> QED
  BY <1>1, <1>2, <1>3 DEF KeysNext, keysVars, Start, Ask, LookMissing, PublishRaced, Accept,
     Conflict, Sign, Finish, Stop, Fetch

LEMMA KnownStays ==
  ASSUME NEW key \in Key \cup Material, Known(key), TableGrows PROVE Known(key)'
BY DEF Known, TableGrows, Published

-----------------------------------------------------------------------------
LEMMA TablesStep == SigningInv /\ [KeysNext]_keysVars => SigningTypes'
<1> SUFFICES ASSUME SigningInv, [KeysNext]_keysVars PROVE SigningTypes'
  OBVIOUS
<1> USE DEF SigningInv, SigningTypes, Published, Go, InFlight, Held, At, InFlightInv
<1>1. CASE UNCHANGED keysVars
  BY <1>1 DEF keysVars
<1>2. ASSUME NEW w \in Thread, NEW i \in Instance, NEW key \in Configured \cup Throwaway,
             NEW ephemeral \in BOOLEAN, Start(i, w, key, ephemeral)
      PROVE  SigningTypes'
  BY <1>2, KeysAssumption DEF Start, Material, Key, Call
<1>3. ASSUME NEW w \in Thread, NEW i \in Instance, Ask(i, w) PROVE SigningTypes'
  BY <1>3 DEF Ask, Call
<1>4. ASSUME NEW w \in Thread, LookMissing(w) PROVE SigningTypes'
  <2>1. calls[w] \in Call
    BY <1>4 DEF LookMissing, NoCall
  <2> QED
    BY <1>4, <2>1 DEF LookMissing, Call, Active
<1>5. ASSUME NEW w \in Thread, Publish(w) PROVE SigningTypes'
  <2>1. calls[w] \in Call /\ Held(w) \in Material
    BY <1>5 DEF Publish, NoCall, Call
  <2>2. DOMAIN signing_keys' \subseteq Kid /\ signing_keys' \in [DOMAIN signing_keys' -> KeyRow]
    BY <1>5, <2>1 DEF Publish, KeyRow, Material
  <2> QED
    BY <1>5, <2>1, <2>2 DEF Publish, Call
<1>6. ASSUME NEW w \in Thread, PublishRaced(w) PROVE SigningTypes'
  <2>1. calls[w] \in Call
    BY <1>6 DEF PublishRaced, NoCall
  <2> QED
    BY <1>6, <2>1 DEF PublishRaced, Call
<1>7. ASSUME NEW w \in Thread, Accept(w) PROVE SigningTypes'
  <2>1. calls[w] \in Call
    BY <1>7 DEF Accept, NoCall
  <2> QED
    BY <1>7, <2>1 DEF Accept, Call
<1>8. ASSUME NEW w \in Thread, Conflict(w) PROVE SigningTypes'
  BY <1>8 DEF Conflict
<1>9. ASSUME NEW w \in Thread, Sign(w) PROVE SigningTypes'
  <2>1. calls[w] \in Call /\ Held(w) \in Material
    BY <1>9 DEF Sign, NoCall, Call
  <2> QED
    BY <1>9, <2>1 DEF Sign, Key, Material
<1>10. ASSUME NEW w \in Thread, Finish(w) PROVE SigningTypes'
  BY <1>10 DEF Finish
<1>11. ASSUME NEW i \in Instance, Stop(i) PROVE SigningTypes'
  BY <1>11 DEF Stop
<1>12. ASSUME NEW k \in Kid, Retire(k) PROVE SigningTypes'
  BY <1>12 DEF Retire, Active, KeyRow
<1>13. CASE Fetch
  BY <1>13 DEF Fetch, Jwks, Active, Key, KeyRow
<1> QED
  BY <1>1, <1>2, <1>3, <1>4, <1>5, <1>6, <1>7, <1>8, <1>9, <1>10, <1>11, <1>12, <1>13
     DEF KeysNext

\* What a step may make of the call v has in flight: it was in flight before, for
\* the same process, or the step begins it.
CallGoesOn(v) ==
  InFlight(v) /\ calls'[v].of = calls[v].of /\ calls'[v].starting = calls[v].starting

CallBegins(v) ==
  /\ ~InFlight(v)
  /\ \A u \in Thread \ {v} : calls'[u] = calls[u]
  /\ \/ calls'[v].starting /\ process[calls'[v].of] = None
     \/ ~calls'[v].starting /\ MayServe(calls'[v].of)

LEMMA CallsMove ==
  ASSUME SigningInv, [KeysNext]_keysVars, NEW v \in Thread, InFlight(v)'
  PROVE  CallGoesOn(v) \/ CallBegins(v)
<1>1. CASE UNCHANGED keysVars
  BY <1>1 DEF keysVars, CallGoesOn, InFlight
<1> USE DEF Go, At, InFlight, CallGoesOn, CallBegins, SigningInv, SigningTypes
<1>2. ASSUME NEW w \in Thread, NEW i \in Instance, NEW key, NEW ephemeral, Start(i, w, key, ephemeral)
      PROVE  CallGoesOn(v) \/ CallBegins(v)
  <2>1. CASE v # w
    BY <1>2, <2>1 DEF Start
  <2>2. CASE v = w
    <3>1. ~InFlight(v) /\ \A u \in Thread \ {v} : calls'[u] = calls[u]
      BY <1>2, <2>2 DEF Start
    <3>2. calls'[v] = [op |-> "look", of |-> i, starting |-> TRUE]
      BY <1>2, <2>2 DEF Start
    <3>3. process[i] = None
      BY <1>2 DEF Start
    <3> QED
      BY <3>1, <3>2, <3>3
  <2> QED
    BY <2>1, <2>2
<1>3. ASSUME NEW w \in Thread, NEW i \in Instance, Ask(i, w) PROVE CallGoesOn(v) \/ CallBegins(v)
  <2>1. CASE v # w
    BY <1>3, <2>1 DEF Ask
  <2>2. CASE v = w
    <3>1. ~InFlight(v) /\ \A u \in Thread \ {v} : calls'[u] = calls[u]
      BY <1>3, <2>2 DEF Ask
    <3>2. calls'[v] = [op |-> "look", of |-> i, starting |-> FALSE]
      BY <1>3, <2>2 DEF Ask
    <3>3. MayServe(i)
      BY <1>3 DEF Ask
    <3> QED
      BY <3>1, <3>2, <3>3
  <2> QED
    BY <2>1, <2>2
<1>4. ASSUME NEW w \in Thread, LookMissing(w) \/ Publish(w) \/ PublishRaced(w) \/ Accept(w)
      PROVE  CallGoesOn(v)
  <2>1. calls[w].op # "none" /\ calls[w] # NoCall
    BY <1>4 DEF LookMissing, Publish, PublishRaced, Accept, NoCall
  <2> QED
    BY <1>4, <2>1 DEF LookMissing, Publish, PublishRaced, Accept
<1>5. ASSUME NEW w \in Thread, Conflict(w) \/ Sign(w) \/ Finish(w) PROVE CallGoesOn(v)
  BY <1>5 DEF Conflict, Sign, Finish
<1>6. ASSUME NEW i \in Instance, Stop(i) PROVE CallGoesOn(v)
  BY <1>6 DEF Stop
<1>7. ASSUME NEW k \in Kid, Retire(k) PROVE CallGoesOn(v)
  BY <1>7 DEF Retire
<1>8. CASE Fetch
  BY <1>8 DEF Fetch
<1> QED
  BY <1>1, <1>2, <1>3, <1>4, <1>5, <1>6, <1>7, <1>8 DEF KeysNext

LEMMA AloneStep == SigningInv /\ [KeysNext]_keysVars => StartsAlone'
<1> SUFFICES ASSUME SigningInv, [KeysNext]_keysVars, NEW u \in Thread, NEW w \in Thread,
                    InFlight(u)', InFlight(w)', u # w, calls'[u].starting
             PROVE  calls'[u].of # calls'[w].of
  BY DEF StartsAlone, InFlight
<1>1. (CallGoesOn(u) \/ CallBegins(u)) /\ (CallGoesOn(w) \/ CallBegins(w))
  BY CallsMove
<1>2. CASE CallGoesOn(u) /\ CallGoesOn(w)
  BY <1>2 DEF CallGoesOn, SigningInv, StartsAlone
<1>3. CASE CallBegins(u)
  <2>1. calls'[w] = calls[w] /\ InFlight(w) /\ process[calls[w].of] # None
    BY <1>3 DEF CallBegins, InFlight, SigningInv, InFlightInv, Held
  <2> QED
    BY <1>3, <2>1 DEF CallBegins
<1>4. CASE CallBegins(w)
  <2>1. calls'[u] = calls[u] /\ InFlight(u) /\ process[calls[u].of] # None
    BY <1>4 DEF CallBegins, InFlight, SigningInv, InFlightInv, Held
  <2>2. calls[u].starting
    BY <2>1
  <2> QED
    BY <1>4, <2>1, <2>2 DEF CallBegins, MayServe
<1> QED
  BY <1>1, <1>2, <1>3, <1>4

-----------------------------------------------------------------------------
\* A process whose call goes on keeps its key.
LEMMA HeldStays ==
  ASSUME SigningInv, [KeysNext]_keysVars, NEW v \in Thread, InFlight(v)', CallGoesOn(v)
  PROVE  process'[calls[v].of] = process[calls[v].of] /\ Held(v)' = Held(v)
<1> SUFFICES process'[calls[v].of] = process[calls[v].of]
  BY DEF CallGoesOn, Held
<1>0. calls[v] \in Call /\ calls[v].of \in Instance /\ process[calls[v].of] # None
  BY DEF CallGoesOn, InFlight, SigningInv, SigningTypes, InFlightInv, Held, Call
<1>1. CASE UNCHANGED process
  BY <1>1
<1>2. ASSUME NEW w \in Thread, NEW i \in Instance, NEW key, NEW ephemeral, Start(i, w, key, ephemeral)
      PROVE  process'[calls[v].of] = process[calls[v].of]
  BY <1>0, <1>2 DEF Start, SigningInv, SigningTypes
<1>3. ASSUME NEW w \in Thread, Conflict(w) PROVE process'[calls[v].of] = process[calls[v].of]
  <2>1. CASE ~calls[w].starting
    BY <1>3, <2>1 DEF Conflict
  <2>2. CASE calls[w].starting
    <3>1. v # w /\ InFlight(w) /\ InFlight(v)
      BY <1>3 DEF Conflict, Go, InFlight, SigningInv, SigningTypes, NoCall, CallGoesOn
    <3>2. calls[w].of # calls[v].of
      BY <2>2, <3>1 DEF SigningInv, StartsAlone
    <3> QED
      BY <1>3, <2>2, <3>2, <1>0 DEF Conflict, SigningInv, SigningTypes
  <2> QED
    BY <2>1, <2>2
<1>4. ASSUME NEW i \in Instance, Stop(i) PROVE process'[calls[v].of] = process[calls[v].of]
  <2>1. calls[v].of # i
    BY <1>4 DEF Stop, InFlight, CallGoesOn
  <2> QED
    BY <1>4, <2>1, <1>0 DEF Stop, SigningInv, SigningTypes
<1> QED
  BY <1>1, <1>2, <1>3, <1>4 DEF KeysNext, keysVars, Ask, LookMissing, Publish, PublishRaced, Accept,
     Sign, Finish, Retire, Fetch

\* A call comes to be ready once the row of its key is made, or found.
LEMMA BecomesReady ==
  ASSUME SigningInv, [KeysNext]_keysVars, NEW v \in Thread, InFlight(v)', CallGoesOn(v),
         calls[v].op # "ready", calls'[v].op = "ready"
  PROVE  Known(Held(v)) \/ Publish(v)
<1>0. calls[v] # calls'[v]
  OBVIOUS
<1> USE DEF Go, At, InFlight, SigningInv, SigningTypes
<1>1. ASSUME NEW w \in Thread, NEW i \in Instance, NEW key, NEW ephemeral,
             Start(i, w, key, ephemeral) \/ Ask(i, w)
      PROVE  FALSE
  BY <1>1, <1>0 DEF Start, Ask, CallGoesOn
<1>2. ASSUME NEW w \in Thread, LookMissing(w) \/ PublishRaced(w) \/ Publish(w) \/ Accept(w)
      PROVE  Known(Held(v)) \/ Publish(v)
  <2>1. w = v
    BY <1>2, <1>0 DEF LookMissing, PublishRaced, Publish, Accept
  <2>2. CASE LookMissing(v) \/ PublishRaced(v)
    BY <2>2 DEF LookMissing, PublishRaced, NoCall
  <2>3. CASE Accept(v)
    BY <2>3 DEF Accept, Known, Active
  <2> QED
    BY <1>2, <2>1, <2>2, <2>3
<1>3. ASSUME NEW w \in Thread, Conflict(w) \/ Sign(w) \/ Finish(w) PROVE FALSE
  BY <1>3, <1>0 DEF Conflict, Sign, Finish
<1>4. ASSUME NEW i \in Instance, Stop(i) PROVE FALSE
  BY <1>4, <1>0 DEF Stop
<1>5. ASSUME NEW k \in Kid, Retire(k) PROVE FALSE
  BY <1>5, <1>0 DEF Retire
<1>6. CASE Fetch \/ UNCHANGED keysVars
  BY <1>6, <1>0 DEF Fetch, keysVars
<1> QED
  BY <1>1, <1>2, <1>3, <1>4, <1>5, <1>6 DEF KeysNext

\* One that begins is not ready.
LEMMA BeginsLooking ==
  ASSUME SigningInv, [KeysNext]_keysVars, NEW v \in Thread, InFlight(v)', CallBegins(v)
  PROVE  Held(v)' # None /\ calls'[v].op = "look"
<1> USE DEF Go, At, InFlight, SigningInv, SigningTypes, CallBegins
<1>1. ASSUME NEW w \in Thread, NEW i \in Instance, NEW key \in Configured \cup Throwaway,
             NEW ephemeral \in BOOLEAN, Start(i, w, key, ephemeral)
      PROVE  Held(v)' # None /\ calls'[v].op = "look"
  <2>1. w = v /\ calls'[v].op = "look" /\ calls'[v].of = i
    BY <1>1 DEF Start
  <2>2. key \in Key
    BY KeysAssumption DEF Key
  <2>3. process'[i] = [kid |-> key.kid, pem |-> key.pem, ephemeral |-> ephemeral]
    BY <1>1 DEF Start
  <2>4. process'[i] # None
    BY <2>2, <2>3, KeysAssumption DEF Key
  <2> QED
    BY <2>1, <2>4 DEF Held
<1>2. ASSUME NEW w \in Thread, NEW i \in Instance, Ask(i, w)
      PROVE  Held(v)' # None /\ calls'[v].op = "look"
  BY <1>2 DEF Ask, Held
<1>3. ASSUME NEW w \in Thread, LookMissing(w) \/ Publish(w) \/ PublishRaced(w) \/ Accept(w)
                               \/ Conflict(w) \/ Sign(w) \/ Finish(w)
      PROVE  FALSE
  BY <1>3 DEF LookMissing, Publish, PublishRaced, Accept, Conflict, Sign, Finish, NoCall
<1>4. ASSUME NEW i \in Instance, Stop(i) PROVE FALSE
  BY <1>4 DEF Stop
<1>5. CASE Fetch \/ UNCHANGED keysVars \/ \E k \in Kid : Retire(k)
  BY <1>5 DEF Fetch, keysVars, Retire
<1> QED
  BY <1>1, <1>2, <1>3, <1>4, <1>5 DEF KeysNext

LEMMA InFlightStep == SigningInv /\ [KeysNext]_keysVars => InFlightInv'
<1> SUFFICES ASSUME SigningInv, [KeysNext]_keysVars, NEW v \in Thread, InFlight(v)'
             PROVE  Held(v)' # None /\ (calls'[v].op = "ready" => Known(Held(v))')
  BY DEF InFlightInv
<1>1. CASE CallBegins(v)
  BY <1>1, BeginsLooking
<1>2. CASE CallGoesOn(v)
  <2>1. Held(v)' = Held(v) /\ Held(v) # None
    BY <1>2, HeldStays DEF CallGoesOn, SigningInv, InFlightInv
  <2>2. Held(v) \in Material
    BY <1>2, <2>1 DEF CallGoesOn, SigningInv, SigningTypes, InFlight, Held, Call
  <2>3. TableGrows
    BY TableStep DEF SigningInv
  <2>4. ASSUME Known(Held(v)) PROVE Known(Held(v))'
    <3>1. Held(v).kid \in DOMAIN signing_keys' /\ signing_keys'[Held(v).kid].pem = Held(v).pem
      BY <2>4, <2>3 DEF Known, TableGrows, Published
    <3> QED
      BY <3>1, <2>1 DEF Known, Published
  <2>5. ASSUME Publish(v) PROVE Known(Held(v))'
    <3>1. Held(v).kid \in DOMAIN signing_keys' /\ signing_keys'[Held(v).kid].pem = Held(v).pem
      BY <2>5 DEF Publish
    <3> QED
      BY <3>1, <2>1 DEF Known, Published
  <2>6. CASE calls[v].op = "ready"
    BY <1>2, <2>1, <2>4, <2>6 DEF CallGoesOn, SigningInv, InFlightInv
  <2>7. CASE calls[v].op # "ready"
    BY <1>2, <2>1, <2>4, <2>5, <2>7, BecomesReady
  <2> QED
    BY <2>6, <2>7
<1> QED
  BY <1>1, <1>2, CallsMove

\* What is signed with, and what is fetched, has the key of its row.
LEMMA EverywhereStep == SigningInv /\ [KeysNext]_keysVars => Everywhere'
<1> SUFFICES ASSUME SigningInv, [KeysNext]_keysVars, NEW key \in signed' \cup cached' PROVE Known(key)'
  BY DEF Everywhere
<1>0. TableGrows
  BY TableStep DEF SigningInv
<1>1. CASE key \in signed \cup cached
  <2>1. key \in Key /\ Known(key)
    BY <1>1 DEF SigningInv, SigningTypes, Everywhere
  <2> QED
    BY <2>1, <1>0 DEF Known, TableGrows, Published
<1>2. CASE key \notin signed \cup cached
  <2>1. CASE \E w \in Thread : Sign(w)
    <3>1. PICK w \in Thread : Sign(w)
      BY <2>1
    <3>2. InFlight(w) /\ calls[w].op = "ready"
      BY <3>1 DEF Sign, InFlight, NoCall
    <3>3. Known(Held(w)) /\ key = [kid |-> Held(w).kid, pem |-> Held(w).pem]
      BY <3>1, <3>2, <1>2 DEF Sign, SigningInv, InFlightInv
    <3> QED
      BY <3>1, <3>3 DEF Sign, Known, Published
  <2>2. CASE Fetch
    BY <2>2, <1>2 DEF Fetch, Jwks, Active, Known, Published
  <2> QED
    BY <1>2, <2>1, <2>2 DEF KeysNext, keysVars, Start, Ask, LookMissing, Publish, PublishRaced, Accept,
       Conflict, Finish, Stop, Retire
<1> QED
  BY <1>1, <1>2

LEMMA SigningStep == SigningInv /\ [KeysNext]_keysVars => SigningInv'
BY TablesStep, InFlightStep, AloneStep, EverywhereStep DEF SigningInv

LEMMA SigningGivesVerify == SigningInv => TokensVerify
BY DEF SigningInv, Everywhere, Known, TokensVerify

-----------------------------------------------------------------------------
\* keys.py:119-160: the types, that a call in flight is of a process that runs, and
\* that one about to sign holds the key published under its id.
THEOREM KeysTypeCorrect == KeysSpec => []KeysTypeOK
<1> QED
  BY SigningInit, SigningStep, SigningGivesTypes, PTL DEF KeysSpec

\* keys.py:122-128: every token verifies with the published key of its id, and
\* whoever fetched the keys, whenever, holds no other under that id.
THEOREM TokensVerifyAlways == KeysSpec => []TokensVerify
<1> QED
  BY SigningInit, SigningStep, SigningGivesVerify, PTL DEF KeysSpec
=============================================================================
