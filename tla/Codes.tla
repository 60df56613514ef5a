------------------------------- MODULE Codes -------------------------------
(***************************************************************************)
(* Authorization codes (oauth.py, router_oidc.py).  A signed-in person's   *)
(* browser fetches a code at /oauth/authorize; the application's server    *)
(* exchanges it at /oauth/token for a token.  Several exchanges of one     *)
(* code may be under way, and accounts and seats change between any two    *)
(* readings.                                                               *)
(*                                                                         *)
(* An application has one client, and stands for it.  What the token says  *)
(* besides is Decisions' subject, and which key signs it is keys.py's.     *)
(***************************************************************************)
EXTENDS Integers, Sequences, FiniteSets

CONSTANTS
  User,
  Client,        \* registered clients
  Uri,
  Registered,    \* the redirect addresses of each client
  Code,          \* codes that can be drawn: none is drawn twice
  Worker,
  Null,
  CODE_TTL, CODE_KEEP,
  MaxTime, MaxChanges        \* bounds: the clock, changes to people

ASSUME CodesAssumption ==
  /\ Registered \in [Client -> SUBSET Uri]
  /\ CODE_TTL \in Nat \ {0} /\ CODE_KEEP \in Nat
  /\ MaxTime \in Nat /\ MaxChanges \in Nat

VARIABLES
  users,         \* the accounts, and what each is entitled to
  clients,       \* the status of each client
  codes,         \* `authorization_codes', by code
  now,
  req,           \* the requests in flight
  bound,         \* what each code was issued for, and until when (history)
  tokens,        \* the tokens handed out (history)
  changes        \* how many changes to people so far (bounded)

people == <<users, clients>>
vars   == <<people, codes, now, req, bound, tokens, changes>>

Grant   == [client : Client, user : User, uri : Uri]
Account == [status : {"active", "suspended", "deleted"},
            must_change_password : BOOLEAN, entitled : SUBSET Client]
Moment  == 0..(MaxTime + CODE_TTL)
Row     == [grant : Grant, expires : Moment, consumed : Moment \cup {Null}]
Binding == [grant : Grant, expires : Moment]
Paper  == [code : Code, grant : Grant]

ASSUME NullAssumption == Null \notin Moment \cup Binding

Free == [op |-> "none"]

\* A request to authorize carries the grant it will issue a code for.  An
\* exchange carries the code, who presents it and with which address; once it
\* has spent the code, these and the row's person; `since' and `fit' are history.
Request ==
  {Free}
  \cup [op : {"authorize"}, grant : Grant]
  \cup [op : {"token"}, code : Code, client : Client, uri : Uri, moment : Moment,
        since : Nat, fit : BOOLEAN]
  \cup [op : {"refused"}, code : Code, client : Client, uri : Uri]
  \cup [op : {"spent", "person", "claims"}, code : Code, grant : Grant,
        since : Nat, fit : BOOLEAN]

-----------------------------------------------------------------------------
Issued == {c \in Code : bound[c] # Null}

\* The account passes the guard, and an exchange.
Trusted(account) == account.status = "active" /\ ~account.must_change_password

Fit(accounts, grant) ==
  Trusted(accounts[grant.user]) /\ grant.client \in accounts[grant.user].entitled

\* An exchange that may still end in a token, and one that has spent its code.
Exchanging(r) == r.op \in {"token", "spent", "person", "claims"}
Paid(r)       == r.op \in {"spent", "person", "claims"}

Put(w, r) == req' = [req EXCEPT ![w] = r]

\* Mutant: redeemable at its last moment too.
RedeemableAtExpiry(row, r) ==
  /\ row.grant.client = r.client
  /\ row.grant.uri = r.uri
  /\ row.consumed = Null
  /\ row.expires >= r.moment

\* Mutant: that it was redeemed is not a condition.
RedeemableAgain(row, r) ==
  /\ row.grant.client = r.client
  /\ row.grant.uri = r.uri
  /\ row.expires > r.moment

\* Mutant: whoever presents it, and with any address.
RedeemableByAnybody(row, r) ==
  /\ row.consumed = Null
  /\ row.expires > r.moment

\* The conditions of consume_code's UPDATE.
Redeemable(row, r) ==
  /\ row.grant.client = r.client
  /\ row.grant.uri = r.uri
  /\ row.consumed = Null
  /\ row.expires > r.moment

\* What the rest of an exchange goes by: its own client and address, and the
\* person in the row.
Presented(row, r) == [client |-> r.client, user |-> row.grant.user, uri |-> r.uri]

\* Mutant: what has expired is swept at once.
KeptAtOnce(table) == {c \in DOMAIN table : table[c].expires > now}

\* What sweep_codes leaves.
Kept(table) == {c \in DOMAIN table : table[c].expires >= now - CODE_KEEP}

\* why_not_redeemable: the first of its reasons that is true.
Reason(r) ==
  LET row == codes[r.code] IN
  IF r.code \notin DOMAIN codes THEN "no such code"
  ELSE IF row.consumed # Null THEN "already redeemed"
  ELSE IF row.expires <= now THEN "expired"
  ELSE IF row.grant.client # r.client THEN "issued to another client"
  ELSE IF row.grant.uri # r.uri THEN "redirect_uri does not match"
  ELSE "not redeemable"

-----------------------------------------------------------------------------
Init ==
  /\ users = [u \in User |-> [status |-> "active", must_change_password |-> FALSE,
                               entitled |-> Client]]
  /\ clients = [c \in Client |-> "active"]
  /\ codes = <<>>
  /\ now = 0
  /\ req = [w \in Worker |-> Free]
  /\ bound = [c \in Code |-> Null]
  /\ tokens = <<>>
  /\ changes = 0

Tick ==
  /\ now < MaxTime
  /\ now' = now + 1
  /\ UNCHANGED <<people, codes, req, bound, tokens, changes>>

\* Any request may end here: refused (with the Reason, where no code was
\* redeemed), over its rate, out of keys, or dead.
Refuse(w) ==
  /\ req[w] # Free
  /\ Put(w, Free)
  /\ UNCHANGED <<people, codes, now, bound, tokens, changes>>

\* authorize: the guard's reading of the person, the client, its addresses and
\* the entitlement.
Authorize(w, grant) ==
  /\ req[w] = Free
  /\ clients[grant.client] = "active"
  /\ grant.uri \in Registered[grant.client]
  /\ Fit(users, grant)
  /\ Put(w, [op |-> "authorize", grant |-> grant])
  /\ UNCHANGED <<people, codes, now, bound, tokens, changes>>

\* mint_code, and the commit.  The row refers to its person.
MintCode(w, code) ==
  LET g == req[w].grant
      row == [grant |-> g, expires |-> now + CODE_TTL, consumed |-> Null] IN
  /\ req[w].op = "authorize"
  /\ code \notin Issued
  /\ users[g.user].status # "deleted"
  /\ codes' = [c \in Kept(codes) \cup {code} |-> IF c = code THEN row ELSE codes[c]]
  /\ bound' = [bound EXCEPT ![code] = [grant |-> g, expires |-> now + CODE_TTL]]
  /\ Put(w, Free)
  /\ UNCHANGED <<people, now, tokens, changes>>

-----------------------------------------------------------------------------
(* /oauth/token.                                                           *)

\* authenticate_client, and the moment consume_code takes before its UPDATE.  A
\* code nobody was given cannot be guessed.
Token(w, code, client, uri) ==
  /\ req[w] = Free
  /\ clients[client] = "active"
  /\ code \in Issued
  /\ Put(w, [op |-> "token", code |-> code, client |-> client, uri |-> uri,
             moment |-> now, since |-> changes, fit |-> Fit(users, bound[code].grant)])
  /\ UNCHANGED <<people, codes, now, bound, tokens, changes>>

\* consume_code and its commit: the UPDATE changes one row or none.
Consume(w) ==
  LET r == req[w]
      hit == r.code \in DOMAIN codes /\ Redeemable(codes[r.code], r) IN
  /\ r.op = "token"
  /\ \/ /\ hit
        /\ codes' = [codes EXCEPT ![r.code].consumed = r.moment]
        /\ Put(w, [op |-> "spent", code |-> r.code, grant |-> Presented(codes[r.code], r),
                   since |-> r.since, fit |-> r.fit])
     \/ /\ ~hit
        /\ Put(w, [op |-> "refused", code |-> r.code, client |-> r.client, uri |-> r.uri])
        /\ UNCHANGED codes
  /\ UNCHANGED <<people, now, bound, tokens, changes>>

\* Mutant: a password change may be due.
CheckPersonStatus(w) ==
  /\ req[w].op = "spent"
  /\ users[req[w].grant.user].status = "active"
  /\ Put(w, [req[w] EXCEPT !.op = "person"])
  /\ UNCHANGED <<people, codes, now, bound, tokens, changes>>

\* token, step 3: the person as they are now.
CheckPerson(w) ==
  /\ req[w].op = "spent"
  /\ Trusted(users[req[w].grant.user])
  /\ Put(w, [req[w] EXCEPT !.op = "person"])
  /\ UNCHANGED <<people, codes, now, bound, tokens, changes>>

\* token, step 4: build_claims asks whether there is an entitlement now.
BuildClaims(w) ==
  LET g == req[w].grant IN
  /\ req[w].op = "person"
  /\ g.client \in users[g.user].entitled
  /\ Put(w, [req[w] EXCEPT !.op = "claims"])
  /\ UNCHANGED <<people, codes, now, bound, tokens, changes>>

\* token, step 5: signed, recorded and handed out.
Answer(w) ==
  /\ req[w].op = "claims"
  /\ tokens' = Append(tokens, [code |-> req[w].code, grant |-> req[w].grant])
  /\ Put(w, Free)
  /\ UNCHANGED <<people, codes, now, bound, changes>>

-----------------------------------------------------------------------------
(* What administrators, and people themselves, do meanwhile.               *)

\* The account changes; an exchange of a code of theirs may be deserved now.
Change(u, account) ==
  /\ changes < MaxChanges
  /\ users[u].status # "deleted"
  /\ account # users[u]
  /\ users' = [users EXCEPT ![u] = account]
  /\ changes' = changes + 1
  /\ req' = [w \in Worker |->
       IF Exchanging(req[w])
       THEN [req[w] EXCEPT !.fit = @ \/ Fit(users', bound[req[w].code].grant)]
       ELSE req[w]]
  /\ UNCHANGED <<clients, now, bound, tokens>>

SetUserStatus(u, status) ==
  /\ Change(u, [users[u] EXCEPT !.status = status])
  /\ UNCHANGED codes

SetPassword(u, due) ==
  /\ Change(u, [users[u] EXCEPT !.must_change_password = due])
  /\ UNCHANGED codes

\* A seat, a subscription or the organisation.
SetEntitled(u, apps) ==
  /\ Change(u, [users[u] EXCEPT !.entitled = apps])
  /\ UNCHANGED codes

\* Their codes go with them.
DeleteUser(u) ==
  /\ Change(u, [status |-> "deleted", must_change_password |-> FALSE, entitled |-> {}])
  /\ codes' = [c \in {d \in DOMAIN codes : codes[d].grant.user # u} |-> codes[c]]

\* An operator's, by hand.
SetClientStatus(c, status) ==
  /\ status # clients[c]
  /\ changes < MaxChanges
  /\ clients' = [clients EXCEPT ![c] = status]
  /\ changes' = changes + 1
  /\ UNCHANGED <<users, codes, now, req, bound, tokens>>

-----------------------------------------------------------------------------
Next ==
  \/ Tick
  \/ \E w \in Worker :
       \/ Refuse(w)
       \/ \E grant \in Grant : Authorize(w, grant)
       \/ \E code \in Code : MintCode(w, code)
       \/ \E code \in Code, client \in Client, uri \in Uri : Token(w, code, client, uri)
       \/ Consume(w)
       \/ CheckPerson(w)
       \/ BuildClaims(w)
       \/ Answer(w)
  \/ \E u \in User :
       \/ \E status \in {"active", "suspended"} : SetUserStatus(u, status)
       \/ \E due \in BOOLEAN : SetPassword(u, due)
       \/ \E apps \in SUBSET Client : SetEntitled(u, apps)
       \/ DeleteUser(u)
  \/ \E c \in Client, status \in {"active", "disabled"} : SetClientStatus(c, status)

Spec == Init /\ [][Next]_vars

-----------------------------------------------------------------------------
\* Types; and a row was redeemed, if at all, before it expired.
TypeOK ==
  /\ users \in [User -> Account]
  /\ clients \in [Client -> {"active", "disabled"}]
  /\ DOMAIN codes \subseteq Issued
  /\ \A c \in DOMAIN codes :
       /\ codes[c] \in Row
       /\ codes[c].consumed # Null => codes[c].consumed < codes[c].expires
  /\ now \in 0..MaxTime
  /\ req \in [Worker -> Request]
  /\ bound \in [Code -> Binding \cup {Null}]
  /\ tokens \in Seq(Paper)
  /\ changes \in 0..MaxChanges

-----------------------------------------------------------------------------
(* The promise, as CodeLife states it.                                     *)

Redeeming(c) == \E w \in Worker : Paid(req[w]) /\ req[w].code = c

Phase(c) ==
  IF c \notin Issued THEN "unissued"
  ELSE IF Redeeming(c) THEN "redeeming"
  ELSE IF c \in DOMAIN codes /\ codes[c].consumed = Null THEN "open"
  ELSE "closed"

phase  == [c \in Code |-> Phase(c)]
grants == [c \in Code |-> IF bound[c] = Null THEN Null ELSE bound[c].grant]

Life == INSTANCE CodeLife WITH bound <- grants

\* oauth.py:171-188, OPEN-DECISIONS.md 17: a code is redeemed at most once, by
\* the client and with the address it was issued for, whoever races for it, and
\* gives at most one token, for its person.  Here: the table and the requests
\* in flight do only what CodeLife allows, and a token names the client and the
\* address that were presented, which CodeLife wants to be those of the code.
ImplementsCodeLife == Life!Spec

\* router_oidc.py:282-293: person and entitlement are checked again at the
\* exchange.  Whatever happened since authorize, and whatever one change comes
\* in between the two readings, a token is signed only for somebody who at some
\* moment of the exchange was active, had no password change due and was
\* entitled.
TokensAreDeserved ==
  \A w \in Worker :
    req[w].op = "claims" /\ changes - req[w].since <= 1 => req[w].fit

\* oauth.py:28-30, 199-202: expired codes are kept for diagnosing a failed
\* exchange.  Whenever a refused exchange looks for its reason, the one it finds
\* is true of the code; and a code that was redeemed is recognised as such for
\* CODE_KEEP after its expiry, though others sweep.
RefusalsExplained ==
  \A w \in Worker : req[w].op = "refused" =>
    LET r == req[w]
        b == bound[r.code]
        why == Reason(r)
        kept == b.expires >= now - CODE_KEEP /\ users[b.grant.user].status # "deleted"
        redeemed == \E n \in DOMAIN tokens : tokens[n].code = r.code
    IN
    /\ why # "not redeemable"
    /\ why = "no such code" => ~kept
    /\ why = "expired" => b.expires <= now
    /\ why = "issued to another client" => b.grant.client # r.client
    /\ why = "redirect_uri does not match" => b.grant.uri # r.uri
    /\ redeemed /\ kept => why = "already redeemed"
=============================================================================
