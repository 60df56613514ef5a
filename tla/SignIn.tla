------------------------------- MODULE SignIn -------------------------------
(***************************************************************************)
(* Signing in, staying signed in and being signed out: the routes of       *)
(* router_auth.py, the parts of guard.py and permissions.py they run, and  *)
(* the account changes of accounts.py that must end a person's sign-ins.   *)
(*                                                                         *)
(* Requests run in a thread pool, each with a database session of its own  *)
(* at READ COMMITTED.  A request in flight is an element of Worker: one    *)
(* action reads what the request decides on, a later one writes and        *)
(* commits, and any other request may commit in between.  Everything from  *)
(* a request's first UPDATE of its users row to its commit is one action:  *)
(* the row lock keeps every other writer of that row out until then.       *)
(*                                                                         *)
(* The ORM emits only the columns whose value differs from the one it      *)
(* loaded, so a write starts from the row as it is now, and a column that  *)
(* already had its new value when the request read it is not written.      *)
(*                                                                         *)
(* A request may present any session id ever issued: what a browser does   *)
(* with a cookie it was told to drop is not the server's to decide.        *)
(***************************************************************************)
EXTENDS Sessions

CONSTANTS
  Worker,        \* the threads serving requests
  MaxTime,       \* bound: the clock stops here
  MaxPassword    \* bound: passwords chosen after the start

ASSUME BoundsAssumption == MaxTime \in Nat /\ MaxPassword \in Nat

VARIABLES
  now,           \* the clock
  users,         \* the `users' table
  passwords,     \* how many passwords have been chosen since the start
  sessions,      \* the `sessions' table
  issued,        \* the session ids handed to browsers so far
  minted,        \* which password proved each session (not in the table)
  req,           \* the requests in flight
  overlap        \* have two requests ever been in flight at once? (history)

vars == <<now, users, passwords, sessions, issued, minted, req, overlap>>

-----------------------------------------------------------------------------
(* Accounts.  A password is a number and who chose it: an administrator in *)
(* the panel, or the person, or the operator for the account they seed.    *)
(* "suspended" stands for both statuses that are not active: no rule here  *)
(* tells suspended from invited.  `legacy' is a hash needs_rehash would    *)
(* replace.                                                                *)

Password == [no : Nat, by : {"self", "admin"}]

Account == [status      : {"unborn", "active", "suspended", "deleted"},
            password    : Password,
            legacy      : BOOLEAN,
            must_change : BOOLEAN]

Exists(u) == users[u].status \in {"active", "suspended"}

\* load_user: the account behind a session, if it should be trusted.
Trusted(u) == users[u].status = "active"

FirstPassword == [no |-> 0, by |-> "self"]

\* Nobody yet, someone the seed made, or someone imported with the hash of
\* the system they came from.
Nobody == [status |-> "unborn", password |-> FirstPassword,
           legacy |-> FALSE, must_change |-> FALSE]

InitialAccounts ==
  { Nobody, [Nobody EXCEPT !.status = "active"],
            [Nobody EXCEPT !.status = "active", !.legacy = TRUE] }

\* Mutant: must_change_password is left as it is.
WithPasswordOnly(row, due, by) ==
  [row EXCEPT !.password = [no |-> passwords + 1, by |-> by], !.legacy = FALSE]

\* set_password's writes to the row, by a request that had read the flag `due'.
WithPassword(row, due, by) ==
  [row EXCEPT !.password    = [no |-> passwords + 1, by |-> by],
              !.legacy      = FALSE,
              !.must_change = IF due = (by = "admin") THEN row.must_change
                              ELSE by = "admin"]

-----------------------------------------------------------------------------
(* Requests.                                                               *)

Op == {"login", "use", "logout", "change",
       "suspend", "activate", "reset", "revoke", "delete", "seed"}

AdminOp == {"suspend", "activate", "reset", "revoke", "delete", "seed"}

Request == [op      : Op \cup {"none"},
            at      : {"idle", "read", "checked", "loaded", "restart"},
            user    : User \cup {NULL},
            sid     : SessionId \cup {NULL},    \* the id its cookie carried
            moment  : Time,                     \* now(), when it took it
            touch   : SUBSET {"last_seen_at", "idle_expires_at"},
                                                \* the columns touch will write
            (* what it goes by of the users row it read *)
            password : Password \cup {NULL},    \* the one it proved
            rehash   : BOOLEAN,                 \* needs_rehash, of that hash
            due      : BOOLEAN]                 \* must_change_password

Free == [op |-> "none", at |-> "idle", user |-> NULL, sid |-> NULL,
         moment |-> 0, touch |-> {}, password |-> NULL, rehash |-> FALSE,
         due |-> FALSE]

At(w, op, at) == req[w].op = op /\ req[w].at = at

\* A thread takes up the request r.
Begins(w, r) ==
  /\ req[w] = Free
  /\ req' = [req EXCEPT ![w] = r]
  /\ overlap' = (overlap \/ \E v \in Worker \ {w} : req[v] # Free)

Continues(w, r) ==
  /\ req' = [req EXCEPT ![w] = r]
  /\ UNCHANGED overlap

Done(w) == Continues(w, Free)

-----------------------------------------------------------------------------
Init ==
  /\ now = 0
  /\ users \in [User -> InitialAccounts]
  /\ passwords = 0
  /\ sessions = [s \in {} |-> NULL]
  /\ issued = {}
  /\ minted = [s \in SessionId |-> 0]
  /\ req = [w \in Worker |-> Free]
  /\ overlap = FALSE

Tick ==
  /\ now < MaxTime
  /\ now' = now + 1
  /\ UNCHANGED <<users, passwords, sessions, issued, minted, req, overlap>>

(* A request is answered without writing: a wrong password, an account     *)
(* locked from this address (module Lockout), a password too weak, a rule  *)
(* of another component refusing, a row gone under it, a process dying.    *)
(* What it had not committed is rolled back.                               *)
Refuse(w) ==
  /\ req[w] # Free
  /\ Done(w)
  /\ UNCHANGED <<now, users, passwords, sessions, issued, minted>>

-----------------------------------------------------------------------------
(* POST /api/auth/login.                                                   *)

\* Up to the password check and the lockout: the row is read once, and the
\* hash and the status that decide are the ones read here.  A sign-in they
\* refuse writes nothing but its lockout row (module Lockout).
LoginRead(w, u, previous) ==
  /\ Trusted(u)
  /\ previous \in issued \cup {NULL}
  /\ Begins(w, [Free EXCEPT !.op = "login", !.at = "read", !.user = u, !.sid = previous,
                            !.moment = now, !.password = users[u].password,
                            !.rehash = users[u].legacy])
  /\ UNCHANGED <<now, users, passwords, sessions, issued, minted>>

\* The success branch.  The UPDATE of last_login_at takes the row's lock, so
\* a row that is gone refuses the request.
LoginSucceed(w, s) ==
  LET r == req[w] IN
  /\ At(w, "login", "read")
  /\ Exists(r.user)
  /\ s \in SessionId \ issued
  /\ users' = IF r.rehash
              THEN [users EXCEPT ![r.user].password = r.password,
                                 ![r.user].legacy   = FALSE]
              ELSE users
  /\ sessions' = Start(sessions, r.sid, s, r.user, r.moment)
  /\ issued' = issued \cup {s}
  /\ minted' = [minted EXCEPT ![s] = r.password.no]
  /\ Done(w)
  /\ UNCHANGED <<now, passwords>>

-----------------------------------------------------------------------------
(* A request that carries a session.                                       *)

\* sessions.check, as resolve calls it.  A session that does not check out
\* ends the request: nothing is written and the cookie is cleared.
Arrive(w, op, s) ==
  /\ op \in {"use", "logout", "change"}
  /\ s \in issued
  /\ Check(sessions, s, now) = "ok"
  /\ Begins(w, [Free EXCEPT !.op = op, !.at = "checked", !.user = sessions[s].user_id,
                            !.sid = s, !.moment = now,
                            !.touch = TouchColumns(sessions[s], now)])
  /\ UNCHANGED <<now, users, passwords, sessions, issued, minted>>

\* sessions.touch, with its own commit.  The row may have been deleted since
\* it was checked: the UPDATE then matches nothing, and the request fails.
Touched(r) ==
  IF r.touch = {}
  THEN sessions' = sessions
  ELSE /\ r.sid \in DOMAIN sessions
       /\ sessions' = Touch(sessions, r.sid, r.moment, r.touch)

\* Then load_user and the handler's reading of the account.  For a request
\* that changes nothing itself this is the end; sign-out goes on for anyone,
\* a password change only for a trusted account.
Pass(w) ==
  LET r == req[w] IN
  /\ r.at = "checked"
  /\ Touched(r)
  /\ Continues(w, IF \/ r.op = "logout"
                     \/ r.op = "change" /\ Trusted(r.user)
                  THEN [r EXCEPT !.at = "loaded", !.touch = {}, !.moment = 0,
                                 !.due = r.op = "change" /\ users[r.user].must_change]
                  ELSE Free)
  /\ UNCHANGED <<now, users, passwords, issued, minted>>

\* POST /api/auth/logout: sessions.end on the row the cookie names.
Logout(w) ==
  /\ At(w, "logout", "loaded")
  /\ sessions' = End(sessions, req[w].sid, now)
  /\ Done(w)
  /\ UNCHANGED <<now, users, passwords, issued, minted>>

\* POST /api/auth/change-password, first transaction: set_password.
ChangePassword(w) ==
  LET r == req[w] IN
  /\ At(w, "change", "loaded")
  /\ Exists(r.user)
  /\ passwords < MaxPassword
  /\ users' = [users EXCEPT ![r.user] = WithPassword(@, r.due, "self")]
  /\ passwords' = passwords + 1
  /\ sessions' = RevokeAll(sessions, r.user, now)
  /\ Continues(w, [r EXCEPT !.at = "restart", !.due = FALSE,
                            !.password = [no |-> passwords + 1, by |-> "self"]])
  /\ UNCHANGED <<now, issued, minted>>

\* ... and the second: this browser's new session.  The account must still
\* have a row for the foreign key.
Restart(w, s) ==
  LET r == req[w] IN
  /\ At(w, "change", "restart")
  /\ Exists(r.user)
  /\ s \in SessionId \ issued
  /\ sessions' = Start(sessions, r.sid, s, r.user, now)
  /\ issued' = issued \cup {s}
  /\ minted' = [minted EXCEPT ![s] = r.password.no]
  /\ Done(w)
  /\ UNCHANGED <<now, users, passwords>>

-----------------------------------------------------------------------------
(* What an administrator does to somebody's account, or the operator who   *)
(* runs the seed.  Who may is the guard and module Accounts; that a rule   *)
(* may refuse is Refuse.                                                   *)

AdminRead(w, op, u) ==
  /\ op \in AdminOp
  /\ Exists(u)
  /\ op = "suspend"  => users[u].status = "active"
  /\ op = "activate" => users[u].status # "active"
  /\ Begins(w, [Free EXCEPT !.op = op, !.at = "read", !.user = u,
                            !.due = op = "reset" /\ users[u].must_change])
  /\ UNCHANGED <<now, users, passwords, sessions, issued, minted>>

SetUserStatus(w) ==
  LET r == req[w] IN
  /\ At(w, "suspend", "read") \/ At(w, "activate", "read")
  /\ Exists(r.user)
  /\ users' = [users EXCEPT ![r.user].status =
                 IF r.op = "suspend" THEN "suspended" ELSE "active"]
  /\ sessions' = IF r.op = "suspend" THEN RevokeAll(sessions, r.user, now) ELSE sessions
  /\ Done(w)
  /\ UNCHANGED <<now, passwords, issued, minted>>

\* Mutant: a reset ends no session.
ResetPasswordOnly(w) ==
  LET r == req[w] IN
  /\ At(w, "reset", "read")
  /\ Exists(r.user)
  /\ passwords < MaxPassword
  /\ users' = [users EXCEPT ![r.user] = WithPassword(@, r.due, "admin")]
  /\ passwords' = passwords + 1
  /\ Done(w)
  /\ UNCHANGED <<now, sessions, issued, minted>>

ResetPassword(w) ==
  LET r == req[w] IN
  /\ At(w, "reset", "read")
  /\ Exists(r.user)
  /\ passwords < MaxPassword
  /\ users' = [users EXCEPT ![r.user] = WithPassword(@, r.due, "admin")]
  /\ passwords' = passwords + 1
  /\ sessions' = RevokeAll(sessions, r.user, now)
  /\ Done(w)
  /\ UNCHANGED <<now, issued, minted>>

\* seed._user with SEED_RESET_PASSWORDS, if the password it read is another.  It
\* leaves must_change_password as it is.
SeedReset(w) ==
  LET r == req[w] IN
  /\ At(w, "seed", "read")
  /\ Exists(r.user)
  /\ passwords < MaxPassword
  /\ users' = [users EXCEPT ![r.user] = WithPassword(@, FALSE, "self")]
  /\ passwords' = passwords + 1
  /\ sessions' = RevokeAll(sessions, r.user, now)
  /\ Done(w)
  /\ UNCHANGED <<now, issued, minted>>

RevokeSessions(w) ==
  /\ At(w, "revoke", "read")
  /\ sessions' = RevokeAll(sessions, req[w].user, now)
  /\ Done(w)
  /\ UNCHANGED <<now, users, passwords, issued, minted>>

DeleteUser(w) ==
  LET r == req[w] IN
  /\ At(w, "delete", "read")
  /\ Exists(r.user)
  /\ users' = [users EXCEPT ![r.user].status = "deleted"]
  /\ sessions' = DropUser(sessions, r.user)
  /\ Done(w)
  /\ UNCHANGED <<now, passwords, issued, minted>>

CreateUser(u) ==
  /\ users[u].status = "unborn"
  /\ passwords < MaxPassword
  /\ \E st \in {"active", "suspended"} :
       users' = [users EXCEPT ![u] =
         [status |-> st, password |-> [no |-> passwords + 1, by |-> "admin"],
          legacy |-> FALSE, must_change |-> TRUE]]
  /\ passwords' = passwords + 1
  /\ UNCHANGED <<now, sessions, issued, minted, req, overlap>>

-----------------------------------------------------------------------------
Login(w) ==
  \/ \E u \in User, previous \in issued \cup {NULL} : LoginRead(w, u, previous)
  \/ \E s \in SessionId : LoginSucceed(w, s)

WithCookie(w) ==
  \/ \E op \in {"use", "logout", "change"}, s \in issued : Arrive(w, op, s)
  \/ Pass(w)
  \/ Logout(w)
  \/ ChangePassword(w)
  \/ \E s \in SessionId : Restart(w, s)

Admin(w) ==
  \/ \E op \in AdminOp, u \in User : AdminRead(w, op, u)
  \/ SetUserStatus(w)
  \/ ResetPassword(w)
  \/ SeedReset(w)
  \/ RevokeSessions(w)
  \/ DeleteUser(w)

Next ==
  \/ Tick
  \/ \E u \in User : CreateUser(u)
  \/ \E w \in Worker : Refuse(w) \/ Login(w) \/ WithCookie(w) \/ Admin(w)

Spec == Init /\ [][Next]_vars

-----------------------------------------------------------------------------
(* Types.                                                                  *)

IsTable(table) ==
  /\ DOMAIN table \subseteq SessionId
  /\ table \in [DOMAIN table -> Row]

\* The tables and the requests in flight by their types.
TypeOK ==
  /\ now \in Time
  /\ users \in [User -> Account]
  /\ passwords \in Nat
  /\ IsTable(sessions)
  /\ issued \subseteq SessionId
  /\ minted \in [SessionId -> Nat]
  /\ req \in [Worker -> Request]
  /\ overlap \in BOOLEAN

-----------------------------------------------------------------------------
(* What must hold whatever is in flight.                                   *)

\* The table's own CHECKs (models.py:117-126): a session ends after it
\* starts, and its idle window never reaches past its absolute end.  A late
\* touch must not break it.
WindowsOK ==
  \A s \in DOMAIN sessions :
    /\ sessions[s].created_at < sessions[s].absolute_expires_at
    /\ sessions[s].idle_expires_at <= sessions[s].absolute_expires_at

\* The rows are of their types and pass the table's CHECKs (models.py:103-140),
\* which would make an error of any write that broke them.
WellFormed == TypeOK /\ WindowsOK

\* A session once revoked is never live again: no touch, sign-in or sign-out
\* that read the row before it was revoked takes the revocation back, and an
\* id whose row is gone is never drawn again.
RevokedIsFinal ==
  [][\A s \in issued :
       /\ (s \in DOMAIN sessions /\ s \in DOMAIN sessions')
            => (Revoked(sessions[s]) => Revoked(sessions'[s]))
       /\ s \notin DOMAIN sessions => s \notin DOMAIN sessions']_vars

\* accounts.py:13-15: a new password or a suspension leaves the person no
\* live session, whatever was signing in or being touched meanwhile.
EndsEverySignIn ==
  [][\A u \in User :
       (\/ users[u].status = "active" /\ users'[u].status # "active"
        \/ Exists(u) /\ users'[u].password.no > passwords)
       => \A s \in DOMAIN sessions' :
            sessions'[s].user_id = u => Revoked(sessions'[s])]_vars

\* The fixation defence of sessions.start: a new session has an id nobody
\* held before, and the session its browser presented is over.
FixationDefence ==
  [][\A s \in DOMAIN sessions' \ DOMAIN sessions :
       /\ s \notin issued
       /\ \A w \in Worker :
            (req'[w] # req[w] /\ req[w].sid \in DOMAIN sessions')
            => Revoked(sessions'[req[w].sid])]_vars

\* A row leaves the table with its account, or more than KEEP_ENDED after
\* the session ended: until then a refusal can still say "expired".
SweepKeepsRecent ==
  [][\A s \in DOMAIN sessions \ DOMAIN sessions' :
       \/ LongEnded(sessions[s], now)
       \/ users'[sessions[s].user_id].status = "deleted"]_vars

\* The session as the rest of Core sees it.  The idle window is left out: a
\* request that arrived inside it may still push it after it has passed.
Open(s) ==
  /\ s \in DOMAIN sessions
  /\ ~Revoked(sessions[s])
  /\ now < sessions[s].absolute_expires_at

phase == [s \in SessionId |-> IF s \notin issued THEN "unissued"
                              ELSE IF Open(s) THEN "open" ELSE "closed"]

owner == [s \in SessionId |-> IF Open(s) THEN sessions[s].user_id ELSE NULL]

Life == INSTANCE SessionLife

\* sessions.py:1-7: the table keeps that promise - one person per id, no id
\* twice, nothing reopened - whatever overlaps.
ImplementsSessionLife == Life!Spec

-----------------------------------------------------------------------------
(* What holds until two requests overlap, and not beyond.                  *)

\* accounts.py:13-15, 314-316, 238-240: a session that is not revoked belongs
\* to an active account and was proved with the password in force.  So no
\* suspension, reset or reactivation leaves an older sign-in open.
LiveIsCurrent ==
  ~overlap =>
    \A s \in DOMAIN sessions :
      ~Revoked(sessions[s]) =>
        LET u == sessions[s].user_id
        IN  users[u].status = "active" /\ minted[s] = users[u].password.no

\* accounts.py:310-311, 273-275: a password an administrator chose never
\* guards an account without a change being due.
AdminPasswordIsTemporary ==
  ~overlap =>
    \A u \in User :
      Exists(u) /\ users[u].password.by = "admin" => users[u].must_change

\* accounts.py:314-316, without that condition: whoever held a session proved
\* with an older password is signed out.
OldPasswordsOpenNothing ==
  \A s \in DOMAIN sessions :
    ~Revoked(sessions[s]) => minted[s] >= users[sessions[s].user_id].password.no

=============================================================================
