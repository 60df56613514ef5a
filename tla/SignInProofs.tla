----------------------------- MODULE SignInProofs -----------------------------
(***************************************************************************)
(* Proofs about SignIn, for any number of people, session ids, requests in *)
(* flight and any windows.  First the operators of Sessions, each as a     *)
(* lemma about tables; then the type invariant and what it gives; then     *)
(* what account changes and sign-ins do to the sessions.                   *)
(***************************************************************************)
EXTENDS SignIn, TLAPS

-----------------------------------------------------------------------------
(* The operations on the table.                                            *)

LEMMA NewRowType ==
  ASSUME NEW u \in User, NEW m \in Time
  PROVE  /\ NewRow(u, m) \in Row
         /\ ~Revoked(NewRow(u, m))
BY WindowsAssumption, NullAssumption DEF NewRow, Row, Time, IdleEnd, Revoked

LEMMA RevokeRowType ==
  ASSUME NEW row \in Row, NEW m \in Time
  PROVE  /\ RevokeRow(row, m) \in Row
         /\ Revoked(RevokeRow(row, m))
         /\ RevokeRow(row, m).user_id = row.user_id
BY NullAssumption DEF RevokeRow, Revoked, Row, Time

LEMMA EndTable ==
  ASSUME NEW table, IsTable(table), NEW sid, NEW m \in Time
  PROVE  /\ IsTable(End(table, sid, m))
         /\ DOMAIN End(table, sid, m) = DOMAIN table
BY RevokeRowType DEF End, IsTable

LEMMA IdleEndType ==
  ASSUME NEW m \in Time, NEW absolute_end \in Time
  PROVE  /\ IdleEnd(m, absolute_end) \in Time
         /\ IdleEnd(m, absolute_end) <= absolute_end
BY WindowsAssumption DEF IdleEnd, Time

\* The row touch writes, whichever columns it writes.
LEMMA TouchTable ==
  ASSUME NEW table, IsTable(table), NEW sid \in DOMAIN table,
         NEW m \in Time, NEW columns
  PROVE  /\ IsTable(Touch(table, sid, m, columns))
         /\ DOMAIN Touch(table, sid, m, columns) = DOMAIN table
<1> DEFINE row == table[sid]
           idle_end == IF "idle_expires_at" \in columns
                       THEN IdleEnd(m, row.absolute_expires_at) ELSE row.idle_expires_at
           touched == [row EXCEPT !.last_seen_at = m, !.idle_expires_at = idle_end]
<1>1. row \in Row
  BY DEF IsTable
<1>2. idle_end \in Time
  BY <1>1, IdleEndType DEF Row
<1>3. touched \in Row
  BY <1>1, <1>2 DEF Row
<1>4. Touch(table, sid, m, columns) = [table EXCEPT ![sid] = touched]
  BY DEF Touch
<1> QED
  BY <1>3, <1>4 DEF IsTable

LEMMA RevokeAllTable ==
  ASSUME NEW table, IsTable(table), NEW u, NEW m \in Time
  PROVE  /\ IsTable(RevokeAll(table, u, m))
         /\ DOMAIN RevokeAll(table, u, m) = DOMAIN table
BY RevokeRowType DEF RevokeAll, IsTable

LEMMA SweepTable ==
  ASSUME NEW table, IsTable(table), NEW m \in Time
  PROVE  /\ IsTable(Sweep(table, m))
         /\ DOMAIN Sweep(table, m) \subseteq DOMAIN table
         /\ \A s \in DOMAIN Sweep(table, m) : Sweep(table, m)[s] = table[s]
BY DEF Sweep, IsTable

LEMMA StartTable ==
  ASSUME NEW table, IsTable(table), NEW previous, NEW sid \in SessionId,
         NEW u \in User, NEW m \in Time
  PROVE  /\ IsTable(Start(table, previous, sid, u, m))
         /\ DOMAIN Start(table, previous, sid, u, m) \subseteq DOMAIN table \cup {sid}
<1> DEFINE ended == End(table, previous, m)
           kept == Sweep(ended, m)
<1>1. IsTable(ended) /\ DOMAIN ended = DOMAIN table
  BY EndTable
<1>2. IsTable(kept) /\ DOMAIN kept \subseteq DOMAIN table
  BY <1>1, SweepTable
<1>3. NewRow(u, m) \in Row
  BY NewRowType
<1> HIDE DEF kept
<1>4. Start(table, previous, sid, u, m) =
        [s \in DOMAIN kept \cup {sid} |-> IF s = sid THEN NewRow(u, m) ELSE kept[s]]
  BY DEF Start, kept
<1> QED
  BY <1>2, <1>3, <1>4 DEF IsTable

LEMMA DropUserTable ==
  ASSUME NEW table, IsTable(table), NEW u
  PROVE  /\ IsTable(DropUser(table, u))
         /\ DOMAIN DropUser(table, u) \subseteq DOMAIN table
BY DEF DropUser, IsTable

-----------------------------------------------------------------------------
(* The type invariant.  A step writes the columns its request read, so it  *)
(* is inductive only together with what a request in flight carries: an    *)
(* account, a password where it proved one, a session id that was issued.  *)

Proved(r) == r.op = "login" \/ r.at = "restart"

InFlightOK ==
  \A w \in Worker :
    /\ req[w].at # "idle" \/ req[w].op # "none" => req[w].user \in User
    /\ Proved(req[w]) => req[w].password \in Password
    /\ req[w].sid \in issued \cup {NULL}

IssuedFirst == DOMAIN sessions \subseteq issued

Shape == TypeOK /\ InFlightOK /\ IssuedFirst

LEMMA WithPasswordType ==
  ASSUME passwords \in Nat, NEW row \in Account, NEW due \in BOOLEAN,
         NEW by \in {"self", "admin"}
  PROVE  WithPassword(row, due, by) \in Account
<1> DEFINE password == [no |-> passwords + 1, by |-> by]
           flag == IF due = (by = "admin") THEN row.must_change ELSE by = "admin"
<1>1. password \in Password
  BY DEF Password
<1>2. flag \in BOOLEAN
  BY DEF Account
<1>3. WithPassword(row, due, by) =
        [row EXCEPT !.password = password, !.legacy = FALSE, !.must_change = flag]
  BY DEF WithPassword
<1> QED
  BY <1>1, <1>2, <1>3, Zenon DEF Account

LEMMA FreeType == Free \in Request
BY DEF Free, Request, Time

LEMMA InitShape == Init => Shape
<1> SUFFICES ASSUME Init PROVE Shape
  OBVIOUS
<1>1. InitialAccounts \subseteq Account
  <2>1. Nobody \in Account
    BY DEF Nobody, FirstPassword, Account, Password
  <2> QED
    BY <2>1 DEF InitialAccounts, Account
<1>2. TypeOK
  BY <1>1, FreeType DEF Init, TypeOK, IsTable, Time
<1>3. InFlightOK /\ IssuedFirst
  BY DEF Init, InFlightOK, IssuedFirst, Free, Proved
<1> QED
  BY <1>2, <1>3 DEF Shape

\* A request moves on to r, and the others stay where they are.
LEMMA OneRequestMoves ==
  ASSUME TypeOK, InFlightOK, NEW w \in Worker, NEW r \in Request,
         r.at # "idle" \/ r.op # "none" => r.user \in User,
         Proved(r) => r.password \in Password,
         r.sid \in issued \cup {NULL},
         req' = [req EXCEPT ![w] = r],
         issued \subseteq issued'
  PROVE  req' \in [Worker -> Request] /\ InFlightOK'
BY DEF TypeOK, InFlightOK, Proved

LEMMA DoneMoves ==
  ASSUME TypeOK, InFlightOK, NEW w \in Worker, Done(w), issued \subseteq issued'
  PROVE  /\ req' \in [Worker -> Request]
         /\ InFlightOK'
         /\ overlap' \in BOOLEAN
<1>1. /\ Free.at = "idle"
      /\ Free.op = "none"
      /\ Free.sid = NULL
      /\ ~Proved(Free)
  BY DEF Free, Proved
<1>2. req' = [req EXCEPT ![w] = Free] /\ overlap' = overlap
  BY DEF Done, Continues
<1>3. req' \in [Worker -> Request] /\ InFlightOK'
  BY <1>1, <1>2, FreeType, OneRequestMoves
<1> QED
  BY <1>2, <1>3 DEF TypeOK

LEMMA BeginsMoves ==
  ASSUME NEW w \in Worker, NEW r, Begins(w, r)
  PROVE  req' = [req EXCEPT ![w] = r] /\ overlap' \in BOOLEAN
<1>1. overlap' = (overlap \/ \E v \in Worker \ {w} : req[v] # Free)
  BY DEF Begins
<1>2. overlap' \in BOOLEAN
  BY <1>1
<1> QED
  BY <1>2 DEF Begins

LEMMA LoginShape ==
  ASSUME Shape, NEW w \in Worker, Login(w)
  PROVE  Shape'
<1> USE DEF Shape
<1>1. ASSUME NEW u \in User, NEW previous \in issued \cup {NULL},
             LoginRead(w, u, previous)
      PROVE  Shape'
  <2> DEFINE password == users[u].password
             rehash == users[u].legacy
             r == [Free EXCEPT !.op = "login", !.at = "read", !.user = u, !.sid = previous,
                               !.moment = now, !.password = password, !.rehash = rehash]
  <2>1. password \in Password /\ rehash \in BOOLEAN
    BY DEF TypeOK, Account
  <2>2. now \in Time /\ previous \in SessionId \cup {NULL}
    BY DEF TypeOK
  <2>3. Begins(w, r)
    BY <1>1 DEF LoginRead
  <2>4. UNCHANGED <<now, users, passwords, sessions, issued, minted>>
    BY <1>1 DEF LoginRead
  <2> HIDE DEF password, rehash
  <2>5. /\ r \in Request
        /\ r.user \in User
        /\ r.password \in Password
        /\ r.sid = previous
    BY <2>1, <2>2, FreeType DEF Request, Op, Free
  <2> HIDE DEF r
  <2>6. req' = [req EXCEPT ![w] = r] /\ overlap' \in BOOLEAN
    BY <2>3, BeginsMoves
  <2>7. req' \in [Worker -> Request] /\ InFlightOK'
    BY <2>4, <2>5, <2>6, OneRequestMoves
  <2> QED
    BY <2>4, <2>6, <2>7 DEF TypeOK, IssuedFirst
<1>2. ASSUME NEW s \in SessionId, LoginSucceed(w, s)
      PROVE  Shape'
  <2> DEFINE r == req[w]
  <2>1. /\ r \in Request
        /\ r.user \in User
        /\ r.password \in Password
        /\ r.moment \in Time
    BY <1>2 DEF LoginSucceed, At, TypeOK, InFlightOK, Proved, Request
  <2>2. users' \in [User -> Account]
    <3>1. users' = users \/ users' = [users EXCEPT ![r.user].password = r.password,
                                                 ![r.user].legacy   = FALSE]
      BY <1>2 DEF LoginSucceed
    <3> QED
      BY <2>1, <3>1 DEF TypeOK, Account
  <2>3. /\ IsTable(sessions')
        /\ DOMAIN sessions' \subseteq DOMAIN sessions \cup {s}
    <3>1. sessions' = Start(sessions, r.sid, s, r.user, r.moment)
      BY <1>2 DEF LoginSucceed
    <3>2. IsTable(sessions) /\ r.moment \in Time /\ r.user \in User
      BY <2>1 DEF TypeOK
    <3> HIDE DEF r
    <3> QED
      BY <3>1, <3>2, StartTable
  <2>4. issued' = issued \cup {s} /\ now' = now /\ passwords' = passwords /\ Done(w)
    BY <1>2 DEF LoginSucceed
  <2>5. minted' \in [SessionId -> Nat]
    <3>1. r.password.no \in Nat
      BY <2>1 DEF Password
    <3> QED
      BY <1>2, <3>1 DEF LoginSucceed, TypeOK
  <2>6. req' \in [Worker -> Request] /\ InFlightOK' /\ overlap' \in BOOLEAN
    BY <2>4, DoneMoves
  <2> QED
    BY <2>2, <2>3, <2>4, <2>5, <2>6 DEF TypeOK, IssuedFirst
<1> QED
  BY <1>1, <1>2 DEF Login

LEMMA WithCookieShape ==
  ASSUME Shape, NEW w \in Worker, WithCookie(w)
  PROVE  Shape'
<1> USE DEF Shape
<1> DEFINE r == req[w]
<1>0. r \in Request
  BY DEF TypeOK
<1>1. ASSUME NEW op \in {"use", "logout", "change"}, NEW s \in issued, Arrive(w, op, s)
      PROVE  Shape'
  <2> DEFINE touch == TouchColumns(sessions[s], now)
             q == [Free EXCEPT !.op = op, !.at = "checked", !.user = sessions[s].user_id,
                               !.sid = s, !.moment = now, !.touch = touch]
  <2>1. s \in DOMAIN sessions
    BY <1>1 DEF Arrive, Check
  <2>2. sessions[s].user_id \in User /\ now \in Time /\ s \in SessionId
    BY <2>1 DEF TypeOK, IsTable, Row
  <2>3. touch \in SUBSET {"last_seen_at", "idle_expires_at"}
    BY DEF TouchColumns
  <2>4. Begins(w, q)
    BY <1>1 DEF Arrive
  <2>5. UNCHANGED <<now, users, passwords, sessions, issued, minted>>
    BY <1>1 DEF Arrive
  <2> HIDE DEF touch
  <2>6. q \in Request /\ q.user \in User /\ q.sid = s /\ ~Proved(q)
    BY <2>2, <2>3, FreeType DEF Request, Op, Free, Proved
  <2> HIDE DEF q
  <2>7. req' = [req EXCEPT ![w] = q] /\ overlap' \in BOOLEAN
    BY <2>4, BeginsMoves
  <2>8. req' \in [Worker -> Request] /\ InFlightOK'
    BY <2>5, <2>6, <2>7, OneRequestMoves
  <2> QED
    BY <2>5, <2>7, <2>8 DEF TypeOK, IssuedFirst
<1>2. ASSUME Pass(w) PROVE Shape'
  <2> DEFINE due == r.op = "change" /\ users[r.user].must_change
             q == [r EXCEPT !.at = "loaded", !.touch = {}, !.moment = 0, !.due = due]
  <2>1. r.at = "checked" /\ r.user \in User /\ r.sid \in issued \cup {NULL}
    BY <1>2 DEF Pass, InFlightOK
  <2>2. UNCHANGED <<now, users, passwords, issued, minted>>
    BY <1>2 DEF Pass
  <2>3. IsTable(sessions') /\ DOMAIN sessions' = DOMAIN sessions
    <3>1. CASE sessions' = sessions
      BY <3>1 DEF TypeOK
    <3>2. CASE /\ r.sid \in DOMAIN sessions
               /\ sessions' = Touch(sessions, r.sid, r.moment, r.touch)
      <4>1. r.moment \in Time
        BY <1>0 DEF Request
      <4> QED
        BY <3>2, <4>1, TouchTable DEF TypeOK
    <3> QED
      BY <1>2, <3>1, <3>2 DEF Pass, Touched
  <2>4. due \in BOOLEAN
    OBVIOUS
  <2>6. /\ \/ r.op \in {"logout", "change"} /\ req' = [req EXCEPT ![w] = q]
           \/ req' = [req EXCEPT ![w] = Free]
        /\ overlap' = overlap
    BY <1>2 DEF Pass, Continues
  <2> HIDE DEF due
  <2>7. CASE r.op \in {"logout", "change"} /\ req' = [req EXCEPT ![w] = q]
    <3>1. q \in Request /\ q.user = r.user /\ q.sid = r.sid /\ ~Proved(q)
      BY <1>0, <2>4, <2>7 DEF Request, Time, Proved
    <3> HIDE DEF q
    <3>2. req' \in [Worker -> Request] /\ InFlightOK'
      BY <2>1, <2>2, <2>7, <3>1, OneRequestMoves
    <3> QED
      BY <2>2, <2>3, <2>6, <3>2 DEF TypeOK, IssuedFirst
  <2>8. CASE req' = [req EXCEPT ![w] = Free]
    BY <2>2, <2>3, <2>6, <2>8, DoneMoves DEF Done, Continues, TypeOK, IssuedFirst
  <2> QED
    BY <2>6, <2>7, <2>8
<1>3. ASSUME Logout(w) PROVE Shape'
  <2>1. IsTable(sessions') /\ DOMAIN sessions' = DOMAIN sessions
    BY <1>3, EndTable DEF Logout, TypeOK
  <2> QED
    BY <1>3, <2>1, DoneMoves DEF Logout, TypeOK, IssuedFirst
<1>4. ASSUME ChangePassword(w) PROVE Shape'
  <2> DEFINE password == [no |-> passwords + 1, by |-> "self"]
             q == [r EXCEPT !.at = "restart", !.due = FALSE, !.password = password]
  <2>1. /\ r.user \in User
        /\ r.sid \in issued \cup {NULL}
        /\ r.due \in BOOLEAN
        /\ users[r.user] \in Account
    BY <1>0, <1>4 DEF ChangePassword, At, InFlightOK, TypeOK, Request
  <2>2. WithPassword(users[r.user], r.due, "self") \in Account
    BY <2>1, WithPasswordType DEF TypeOK
  <2>3. IsTable(sessions') /\ DOMAIN sessions' = DOMAIN sessions
    BY <1>4, RevokeAllTable DEF ChangePassword, TypeOK
  <2>4. users' \in [User -> Account] /\ passwords' \in Nat
    BY <1>4, <2>1, <2>2 DEF ChangePassword, TypeOK
  <2>5. req' = [req EXCEPT ![w] = q] /\ UNCHANGED <<now, issued, minted, overlap>>
    BY <1>4 DEF ChangePassword, Continues
  <2>6. password \in Password
    BY DEF TypeOK, Password
  <2> HIDE DEF password
  <2>7. q \in Request /\ q.user = r.user /\ q.sid = r.sid /\ q.password \in Password
    BY <1>0, <2>6 DEF Request
  <2> HIDE DEF q
  <2>8. req' \in [Worker -> Request] /\ InFlightOK'
    BY <2>1, <2>5, <2>7, OneRequestMoves
  <2> QED
    BY <2>3, <2>4, <2>5, <2>8 DEF TypeOK, IssuedFirst
<1>5. ASSUME NEW s \in SessionId, Restart(w, s) PROVE Shape'
  <2>1. r.user \in User /\ r.password.no \in Nat
    <3>1. r.user \in User /\ r.password \in Password
      BY <1>5 DEF Restart, At, InFlightOK, Proved
    <3> QED
      BY <3>1 DEF Password
  <2>2. /\ IsTable(sessions')
        /\ DOMAIN sessions' \subseteq DOMAIN sessions \cup {s}
    <3>1. sessions' = Start(sessions, r.sid, s, r.user, now)
      BY <1>5 DEF Restart
    <3>2. IsTable(sessions) /\ now \in Time
      BY DEF TypeOK
    <3>3. r.user \in User
      BY <2>1
    <3> HIDE DEF r
    <3> QED
      BY <3>1, <3>2, <3>3, StartTable
  <2>3. minted' \in [SessionId -> Nat]
    BY <1>5, <2>1 DEF Restart, TypeOK
  <2> QED
    BY <1>5, <2>2, <2>3, DoneMoves DEF Restart, TypeOK, IssuedFirst
<1> QED
  BY <1>1, <1>2, <1>3, <1>4, <1>5 DEF WithCookie

LEMMA AdminShape ==
  ASSUME Shape, NEW w \in Worker, Admin(w)
  PROVE  Shape'
<1> USE DEF Shape
<1> DEFINE r == req[w]
<1>1. ASSUME NEW op \in AdminOp, NEW u \in User, AdminRead(w, op, u) PROVE Shape'
  <2> DEFINE due == op = "reset" /\ users[u].must_change
             q == [Free EXCEPT !.op = op, !.at = "read", !.user = u, !.due = due]
  <2>1. Begins(w, q) /\ UNCHANGED <<now, users, passwords, sessions, issued, minted>>
    BY <1>1 DEF AdminRead
  <2>2. due \in BOOLEAN
    OBVIOUS
  <2>3. op \in Op \cup {"none"} /\ op # "login"
    BY DEF AdminOp, Op
  <2> HIDE DEF due
  <2>4. q \in Request /\ q.user \in User /\ q.sid = NULL /\ ~Proved(q)
    BY <2>2, <2>3, FreeType DEF Request, Free, Proved
  <2> HIDE DEF q
  <2>5. req' = [req EXCEPT ![w] = q] /\ overlap' \in BOOLEAN
    BY <2>1, BeginsMoves
  <2>6. req' \in [Worker -> Request] /\ InFlightOK'
    BY <2>1, <2>4, <2>5, OneRequestMoves
  <2> QED
    BY <2>1, <2>5, <2>6 DEF TypeOK, IssuedFirst
<1>2. ASSUME SetUserStatus(w) PROVE Shape'
  <2>1. IsTable(sessions') /\ DOMAIN sessions' = DOMAIN sessions
    BY <1>2, RevokeAllTable DEF SetUserStatus, TypeOK
  <2>2. users' \in [User -> Account]
    <3>1. \E st \in {"suspended", "active"} : users' = [users EXCEPT ![r.user].status = st]
      BY <1>2 DEF SetUserStatus
    <3> QED
      BY <3>1 DEF TypeOK, Account
  <2> QED
    BY <1>2, <2>1, <2>2, DoneMoves DEF SetUserStatus, TypeOK, IssuedFirst
<1>3. ASSUME ResetPassword(w) PROVE Shape'
  <2>1. r.user \in User /\ r.due \in BOOLEAN /\ users[r.user] \in Account
    BY <1>3 DEF ResetPassword, At, InFlightOK, TypeOK, Request
  <2>2. WithPassword(users[r.user], r.due, "admin") \in Account
    BY <2>1, WithPasswordType DEF TypeOK
  <2>3. users' \in [User -> Account] /\ passwords' \in Nat
    BY <1>3, <2>1, <2>2 DEF ResetPassword, TypeOK
  <2>4. IsTable(sessions') /\ DOMAIN sessions' = DOMAIN sessions
    BY <1>3, RevokeAllTable DEF ResetPassword, TypeOK
  <2> QED
    BY <1>3, <2>3, <2>4, DoneMoves DEF ResetPassword, TypeOK, IssuedFirst
<1>4. ASSUME RevokeSessions(w) PROVE Shape'
  <2>1. IsTable(sessions') /\ DOMAIN sessions' = DOMAIN sessions
    BY <1>4, RevokeAllTable DEF RevokeSessions, TypeOK
  <2> QED
    BY <1>4, <2>1, DoneMoves DEF RevokeSessions, TypeOK, IssuedFirst
<1>5. ASSUME DeleteUser(w) PROVE Shape'
  <2>1. IsTable(sessions') /\ DOMAIN sessions' \subseteq DOMAIN sessions
    BY <1>5, DropUserTable DEF DeleteUser, TypeOK
  <2>2. users' \in [User -> Account]
    BY <1>5 DEF DeleteUser, TypeOK, Account
  <2> QED
    BY <1>5, <2>1, <2>2, DoneMoves DEF DeleteUser, TypeOK, IssuedFirst
<1>6. ASSUME SeedReset(w) PROVE Shape'
  <2>1. r.user \in User /\ users[r.user] \in Account
    BY <1>6 DEF SeedReset, At, InFlightOK, TypeOK, Request
  <2>2. WithPassword(users[r.user], FALSE, "self") \in Account
    BY <2>1, WithPasswordType DEF TypeOK
  <2>3. users' \in [User -> Account] /\ passwords' \in Nat
    <3> DEFINE row == WithPassword(users[r.user], FALSE, "self")
    <3>1. users' = [users EXCEPT ![r.user] = row] /\ passwords' = passwords + 1
      BY <1>6 DEF SeedReset
    <3>2. row \in Account
      BY <2>2
    <3> HIDE DEF row
    <3> QED
      BY <2>1, <3>1, <3>2 DEF TypeOK
  <2>4. IsTable(sessions') /\ DOMAIN sessions' = DOMAIN sessions
    <3>1. sessions' = RevokeAll(sessions, r.user, now)
      BY <1>6 DEF SeedReset
    <3> QED
      BY <3>1, RevokeAllTable DEF TypeOK
  <2> QED
    <3>1. Done(w) /\ UNCHANGED <<now, issued, minted>>
      BY <1>6 DEF SeedReset
    <3>2. /\ req' \in [Worker -> Request] /\ overlap' \in BOOLEAN
          /\ InFlightOK'
      BY <3>1, DoneMoves
    <3> QED
      BY <2>3, <2>4, <3>1, <3>2 DEF TypeOK, IssuedFirst
<1> QED
  BY <1>1, <1>2, <1>3, <1>4, <1>5, <1>6 DEF Admin

LEMMA NextShape == Shape /\ [Next]_vars => Shape'
<1> SUFFICES ASSUME Shape, [Next]_vars PROVE Shape'
  OBVIOUS
<1> USE DEF Shape
<1>1. CASE Tick
  BY <1>1 DEF Tick, TypeOK, InFlightOK, IssuedFirst, Time
<1>2. ASSUME NEW u \in User, CreateUser(u) PROVE Shape'
  <2>1. PICK st \in {"active", "suspended"} :
          users' = [users EXCEPT ![u] =
            [status |-> st, password |-> [no |-> passwords + 1, by |-> "admin"],
             legacy |-> FALSE, must_change |-> TRUE]]
    BY <1>2 DEF CreateUser
  <2>2. users' \in [User -> Account] /\ passwords' \in Nat
    BY <1>2, <2>1 DEF CreateUser, TypeOK, Account, Password
  <2> QED
    BY <1>2, <2>2 DEF CreateUser, TypeOK, InFlightOK, IssuedFirst
<1>3. ASSUME NEW w \in Worker, Refuse(w) PROVE Shape'
  BY <1>3, DoneMoves DEF Refuse, TypeOK, IssuedFirst
<1>4. ASSUME NEW w \in Worker, Login(w) \/ WithCookie(w) \/ Admin(w) PROVE Shape'
  BY <1>4, LoginShape, WithCookieShape, AdminShape
<1>5. CASE UNCHANGED vars
  BY <1>5 DEF vars, TypeOK, InFlightOK, IssuedFirst
<1> QED
  BY <1>1, <1>2, <1>3, <1>4, <1>5 DEF Next

LEMMA ShapeAlways == Spec => []Shape
BY InitShape, NextShape, PTL DEF Spec

\* Every table, row and request keeps its type, for any number of threads and
\* any interleaving of their requests.
THEOREM TypeCorrect == Spec => []TypeOK
<1>1. Shape => TypeOK
  BY DEF Shape
<1> QED
  BY <1>1, ShapeAlways, PTL

-----------------------------------------------------------------------------
(* What no operation changes of a row, except to revoke it.                *)

KeepsRow(old, new) ==
  /\ new.user_id = old.user_id
  /\ new.created_at = old.created_at
  /\ new.absolute_expires_at = old.absolute_expires_at
  /\ Revoked(old) => Revoked(new)
  /\ \/ new.idle_expires_at = old.idle_expires_at
     \/ new.idle_expires_at <= new.absolute_expires_at

KeepsTable(old, new) ==
  \A s \in DOMAIN old \cap DOMAIN new : KeepsRow(old[s], new[s])

LEMMA RevokeRowKeeps ==
  ASSUME NEW row \in Row, NEW m \in Time
  PROVE  KeepsRow(row, RevokeRow(row, m))
BY RevokeRowType DEF KeepsRow, RevokeRow, Row

LEMMA EndKeeps ==
  ASSUME NEW table, IsTable(table), NEW sid, NEW m \in Time
  PROVE  KeepsTable(table, End(table, sid, m))
<1>1. ASSUME NEW s \in DOMAIN table
      PROVE  /\ End(table, sid, m)[s] = table[s] \/ End(table, sid, m)[s] = RevokeRow(table[s], m)
             /\ table[s] \in Row
  BY DEF End, IsTable
<1> QED
  BY <1>1, RevokeRowKeeps DEF KeepsTable, KeepsRow

LEMMA RevokeAllKeeps ==
  ASSUME NEW table, IsTable(table), NEW u, NEW m \in Time
  PROVE  KeepsTable(table, RevokeAll(table, u, m))
<1>1. ASSUME NEW s \in DOMAIN table
      PROVE  /\ \/ RevokeAll(table, u, m)[s] = table[s]
                \/ RevokeAll(table, u, m)[s] = RevokeRow(table[s], m)
             /\ table[s] \in Row
  BY DEF RevokeAll, IsTable
<1> QED
  BY <1>1, RevokeRowKeeps DEF KeepsTable, KeepsRow

LEMMA DropUserKeeps ==
  ASSUME NEW table, NEW u
  PROVE  KeepsTable(table, DropUser(table, u))
BY DEF DropUser, KeepsTable, KeepsRow

\* Whatever touch writes, it leaves the revocation and the absolute end.
LEMMA TouchKeeps ==
  ASSUME NEW table, IsTable(table), NEW sid \in DOMAIN table,
         NEW m \in Time, NEW columns
  PROVE  KeepsTable(table, Touch(table, sid, m, columns))
<1> DEFINE row == table[sid]
           idle_end == IF "idle_expires_at" \in columns
                       THEN IdleEnd(m, row.absolute_expires_at) ELSE row.idle_expires_at
           touched == [row EXCEPT !.last_seen_at = m, !.idle_expires_at = idle_end]
<1>1. row \in Row
  BY DEF IsTable
<1>2. \/ idle_end = row.idle_expires_at
      \/ idle_end <= row.absolute_expires_at
  BY <1>1, IdleEndType DEF Row
<1>3. Touch(table, sid, m, columns) = [table EXCEPT ![sid] = touched]
  BY DEF Touch
<1> HIDE DEF idle_end
<1>4. KeepsRow(row, touched)
  BY <1>1, <1>2 DEF KeepsRow, Revoked, Row
<1> QED
  BY <1>3, <1>4 DEF KeepsTable, KeepsRow

LEMMA StartKeeps ==
  ASSUME NEW table, IsTable(table), NEW previous, NEW sid \in SessionId \ DOMAIN table,
         NEW u \in User, NEW m \in Time
  PROVE  /\ KeepsTable(table, Start(table, previous, sid, u, m))
         /\ sid \in DOMAIN Start(table, previous, sid, u, m)
         /\ Start(table, previous, sid, u, m)[sid] = NewRow(u, m)
<1> DEFINE ended == End(table, previous, m)
           kept == Sweep(ended, m)
<1>1. IsTable(ended) /\ DOMAIN ended = DOMAIN table /\ KeepsTable(table, ended)
  BY EndTable, EndKeeps
<1>2. \A s \in DOMAIN kept : s \in DOMAIN ended /\ kept[s] = ended[s]
  BY <1>1, SweepTable
<1> HIDE DEF kept
<1>3. Start(table, previous, sid, u, m) =
        [s \in DOMAIN kept \cup {sid} |-> IF s = sid THEN NewRow(u, m) ELSE kept[s]]
  BY DEF Start, kept
<1> QED
  BY <1>1, <1>2, <1>3 DEF KeepsTable

-----------------------------------------------------------------------------
(* Every step either issues one session or only revokes and deletes.       *)

Issues(s, u, m) ==
  /\ issued' = issued \cup {s}
  /\ DOMAIN sessions' \subseteq DOMAIN sessions \cup {s}
  /\ s \in DOMAIN sessions'
  /\ sessions'[s] = NewRow(u, m)

IssuesNothing ==
  /\ issued' = issued
  /\ DOMAIN sessions' \subseteq DOMAIN sessions

SessionStep ==
  /\ KeepsTable(sessions, sessions')
  /\ now' \in Time /\ now <= now'
  /\ \/ IssuesNothing
     \/ \E s \in SessionId \ issued, u \in User, m \in Time : Issues(s, u, m)

LEMMA SameTableKeeps == KeepsTable(sessions, sessions)
BY DEF KeepsTable, KeepsRow

LEMMA LoginIssues ==
  ASSUME Shape, NEW w \in Worker, Login(w)
  PROVE  SessionStep
<1>1. ASSUME UNCHANGED <<sessions, issued, now>>
      PROVE  SessionStep
  BY <1>1, SameTableKeeps DEF SessionStep, IssuesNothing, Shape, TypeOK, Time
<1>2. ASSUME NEW u \in User, NEW previous \in issued \cup {NULL}, LoginRead(w, u, previous)
      PROVE  SessionStep
  BY <1>1, <1>2 DEF LoginRead
<1>3. ASSUME NEW s \in SessionId, LoginSucceed(w, s)
      PROVE  SessionStep
  <2> DEFINE r == req[w]
  <2>1. r.user \in User /\ r.moment \in Time
    BY <1>3 DEF LoginSucceed, At, Shape, TypeOK, InFlightOK, Request
  <2>2. /\ sessions' = Start(sessions, r.sid, s, r.user, r.moment)
        /\ issued' = issued \cup {s} /\ now' = now /\ s \notin issued
    BY <1>3 DEF LoginSucceed
  <2>3. IsTable(sessions) /\ s \notin DOMAIN sessions /\ now \in Time
    BY <2>2 DEF Shape, TypeOK, IssuedFirst
  <2> HIDE DEF r
  <2>4. /\ KeepsTable(sessions, sessions')
        /\ s \in DOMAIN sessions' /\ sessions'[s] = NewRow(r.user, r.moment)
    BY <2>1, <2>2, <2>3, StartKeeps
  <2>5. DOMAIN sessions' \subseteq DOMAIN sessions \cup {s}
    BY <2>1, <2>2, <2>3, StartTable
  <2>6. Issues(s, r.user, r.moment)
    BY <2>2, <2>4, <2>5 DEF Issues
  <2> QED
    BY <2>1, <2>2, <2>3, <2>4, <2>6 DEF SessionStep, Time
<1> QED
  BY <1>2, <1>3 DEF Login

LEMMA WithCookieIssues ==
  ASSUME Shape, NEW w \in Worker, WithCookie(w)
  PROVE  SessionStep
<1> DEFINE r == req[w]
<1>0. now \in Time /\ IsTable(sessions) /\ r \in Request
  BY DEF Shape, TypeOK
<1>1. ASSUME KeepsTable(sessions, sessions'), DOMAIN sessions' = DOMAIN sessions,
             UNCHANGED <<issued, now>>
      PROVE  SessionStep
  BY <1>0, <1>1 DEF SessionStep, IssuesNothing, Time
<1>2. ASSUME NEW op \in {"use", "logout", "change"}, NEW s \in issued, Arrive(w, op, s)
      PROVE  SessionStep
  BY <1>1, <1>2, SameTableKeeps DEF Arrive
<1>3. ASSUME Pass(w) PROVE SessionStep
  <2>1. CASE sessions' = sessions
    BY <1>1, <1>3, <2>1, SameTableKeeps DEF Pass
  <2>2. CASE /\ r.sid \in DOMAIN sessions
             /\ sessions' = Touch(sessions, r.sid, r.moment, r.touch)
    <3>1. r.moment \in Time
      BY <1>0 DEF Request
    <3>2. UNCHANGED <<issued, now>>
      BY <1>3 DEF Pass
    <3> HIDE DEF r
    <3> QED
      BY <1>0, <1>1, <2>2, <3>1, <3>2, TouchKeeps, TouchTable
  <2> QED
    BY <1>3, <2>1, <2>2 DEF Pass, Touched
<1>4. ASSUME Logout(w) PROVE SessionStep
  BY <1>0, <1>1, <1>4, EndKeeps, EndTable DEF Logout
<1>5. ASSUME ChangePassword(w) PROVE SessionStep
  BY <1>0, <1>1, <1>5, RevokeAllKeeps, RevokeAllTable DEF ChangePassword
<1>6. ASSUME NEW s \in SessionId, Restart(w, s) PROVE SessionStep
  <2>1. r.user \in User
    BY <1>6 DEF Restart, At, Shape, InFlightOK
  <2>2. /\ sessions' = Start(sessions, r.sid, s, r.user, now)
        /\ issued' = issued \cup {s} /\ now' = now /\ s \notin issued
    BY <1>6 DEF Restart
  <2>3. s \notin DOMAIN sessions
    BY <2>2 DEF Shape, IssuedFirst
  <2> HIDE DEF r
  <2>4. /\ KeepsTable(sessions, sessions')
        /\ s \in DOMAIN sessions' /\ sessions'[s] = NewRow(r.user, now)
    BY <1>0, <2>1, <2>2, <2>3, StartKeeps
  <2>5. DOMAIN sessions' \subseteq DOMAIN sessions \cup {s}
    BY <1>0, <2>1, <2>2, StartTable
  <2>6. Issues(s, r.user, now)
    BY <2>2, <2>4, <2>5 DEF Issues
  <2> QED
    BY <1>0, <2>1, <2>2, <2>4, <2>6 DEF SessionStep, Time
<1> QED
  BY <1>2, <1>3, <1>4, <1>5, <1>6 DEF WithCookie

LEMMA AdminIssues ==
  ASSUME Shape, NEW w \in Worker, Admin(w)
  PROVE  SessionStep
<1>0. now \in Time /\ IsTable(sessions)
  BY DEF Shape, TypeOK
<1>1. ASSUME KeepsTable(sessions, sessions'), DOMAIN sessions' \subseteq DOMAIN sessions,
             UNCHANGED <<issued, now>>
      PROVE  SessionStep
  BY <1>0, <1>1 DEF SessionStep, IssuesNothing, Time
<1>2. ASSUME NEW op \in AdminOp, NEW u \in User, AdminRead(w, op, u) PROVE SessionStep
  BY <1>1, <1>2, SameTableKeeps DEF AdminRead
<1>3. ASSUME SetUserStatus(w) PROVE SessionStep
  BY <1>0, <1>1, <1>3, SameTableKeeps, RevokeAllKeeps, RevokeAllTable DEF SetUserStatus
<1>4. ASSUME ResetPassword(w) PROVE SessionStep
  BY <1>0, <1>1, <1>4, RevokeAllKeeps, RevokeAllTable DEF ResetPassword
<1>5. ASSUME RevokeSessions(w) PROVE SessionStep
  BY <1>0, <1>1, <1>5, RevokeAllKeeps, RevokeAllTable DEF RevokeSessions
<1>6. ASSUME DeleteUser(w) PROVE SessionStep
  BY <1>0, <1>1, <1>6, DropUserKeeps, DropUserTable DEF DeleteUser
<1>7. ASSUME SeedReset(w) PROVE SessionStep
  BY <1>0, <1>1, <1>7, RevokeAllKeeps, RevokeAllTable DEF SeedReset
<1> QED
  BY <1>2, <1>3, <1>4, <1>5, <1>6, <1>7 DEF Admin

LEMMA StepOfSessions == Shape /\ [Next]_vars => SessionStep
<1> SUFFICES ASSUME Shape, [Next]_vars PROVE SessionStep
  OBVIOUS
<1>0. now \in Time
  BY DEF Shape, TypeOK
<1>1. ASSUME UNCHANGED <<sessions, issued>>, now' \in {now, now + 1}
      PROVE  SessionStep
  BY <1>0, <1>1, SameTableKeeps DEF SessionStep, IssuesNothing, Time
<1>2. CASE Tick
  BY <1>1, <1>2 DEF Tick
<1>3. CASE \E u \in User : CreateUser(u)
  BY <1>1, <1>3 DEF CreateUser
<1>4. CASE \E w \in Worker : Refuse(w)
  BY <1>1, <1>4 DEF Refuse
<1>5. CASE \E w \in Worker : Login(w) \/ WithCookie(w) \/ Admin(w)
  BY <1>5, LoginIssues, WithCookieIssues, AdminIssues
<1>6. CASE UNCHANGED vars
  BY <1>1, <1>6 DEF vars
<1> QED
  BY <1>2, <1>3, <1>4, <1>5, <1>6 DEF Next

-----------------------------------------------------------------------------
(* What follows from that.                                                 *)

LEMMA WindowsInductive == Shape /\ WindowsOK /\ [Next]_vars => WindowsOK'
<1> SUFFICES ASSUME Shape, WindowsOK, SessionStep, Shape',
                    NEW s \in DOMAIN sessions'
             PROVE  /\ sessions'[s].created_at < sessions'[s].absolute_expires_at
                    /\ sessions'[s].idle_expires_at <= sessions'[s].absolute_expires_at
  BY StepOfSessions, NextShape DEF WindowsOK
<1>1. CASE s \in DOMAIN sessions
  BY <1>1 DEF SessionStep, KeepsTable, KeepsRow, WindowsOK
<1>2. CASE s \notin DOMAIN sessions
  <2>1. PICK u \in User, m \in Time : sessions'[s] = NewRow(u, m)
    BY <1>2 DEF SessionStep, IssuesNothing, Issues
  <2>2. m + ABSOLUTE \in Time /\ m < m + ABSOLUTE
    BY <2>1, WindowsAssumption DEF Time
  <2> QED
    BY <2>1, <2>2, IdleEndType DEF NewRow
<1> QED
  BY <1>1, <1>2

\* No touch, however late, breaks the CHECKs of the sessions table.
THEOREM WindowsCorrect == Spec => []WindowsOK
<1>1. Init => WindowsOK
  BY DEF Init, WindowsOK
<1> QED
  BY <1>1, WindowsInductive, ShapeAlways, PTL DEF Spec

\* models.py:103-140: no write is refused by a CHECK of the sessions table.
THEOREM WellFormedAlways == Spec => []WellFormed
BY TypeCorrect, WindowsCorrect, PTL DEF WellFormed

\* A revocation is final, whatever was in flight when it committed.
THEOREM RevocationFinal == Spec => RevokedIsFinal
<1>1. Shape /\ [Next]_vars =>
        \A s \in issued :
          /\ (s \in DOMAIN sessions /\ s \in DOMAIN sessions')
               => (Revoked(sessions[s]) => Revoked(sessions'[s]))
          /\ s \notin DOMAIN sessions => s \notin DOMAIN sessions'
  <2> SUFFICES ASSUME SessionStep, NEW s \in issued
               PROVE  /\ (s \in DOMAIN sessions /\ s \in DOMAIN sessions')
                           => (Revoked(sessions[s]) => Revoked(sessions'[s]))
                      /\ s \notin DOMAIN sessions => s \notin DOMAIN sessions'
    BY StepOfSessions
  <2> QED
    BY DEF SessionStep, KeepsTable, KeepsRow, IssuesNothing, Issues
<1> QED
  BY <1>1, ShapeAlways, PTL DEF Spec, RevokedIsFinal

-----------------------------------------------------------------------------
(* The table keeps the promise of SessionLife.                             *)

\* A step closes sessions and opens none but the one it issues.
LEMMA OnlyCloses ==
  ASSUME Shape, SessionStep, NEW s \in issued, Open(s)'
  PROVE  Open(s) /\ sessions'[s].user_id = sessions[s].user_id
<1>1. s \in DOMAIN sessions' /\ ~Revoked(sessions'[s]) /\ now' < sessions'[s].absolute_expires_at
  BY DEF Open
<1>2. s \in DOMAIN sessions
  BY <1>1 DEF SessionStep, IssuesNothing, Issues
<1>3. KeepsRow(sessions[s], sessions'[s])
  BY <1>1, <1>2 DEF SessionStep, KeepsTable
<1>4. /\ sessions[s].absolute_expires_at \in Time
      /\ now \in Time /\ now' \in Time /\ now <= now'
  BY <1>2 DEF Shape, TypeOK, IsTable, Row, SessionStep
<1> QED
  BY <1>1, <1>2, <1>3, <1>4 DEF KeepsRow, Open, Time

LEMMA LifeInit == Init => Life!Init
BY DEF Init, Life!Init, phase, owner, Open

LEMMA LifeStep == Shape /\ [Next]_vars => [Life!Next]_Life!vars
<1> SUFFICES ASSUME Shape, SessionStep PROVE Life!Next
  BY StepOfSessions
<1> DEFINE C == {s \in SessionId : Open(s) /\ ~Open(s)'}
<1>1. \A s \in SessionId : Open(s) => s \in issued
  BY DEF Open, Shape, IssuedFirst
<1>2. Life!Closable(C) /\ C \in SUBSET SessionId
  BY <1>1 DEF Life!Closable, phase
<1>3. CASE IssuesNothing
  <2>1. issued' = issued
    BY <1>3 DEF IssuesNothing
  <2>2. \A s \in SessionId : Open(s)' => Open(s) /\ sessions'[s].user_id = sessions[s].user_id
    <3>1. \A s \in SessionId : Open(s)' => s \in issued
      BY <1>3 DEF Open, IssuesNothing, Shape, IssuedFirst
    <3> QED
      BY <3>1, OnlyCloses
  <2>3. phase' = [s \in SessionId |-> IF s \in C THEN "closed" ELSE phase[s]]
    BY <1>1, <2>1, <2>2 DEF phase
  <2>4. owner' = [s \in SessionId |-> IF s \in C THEN NULL ELSE owner[s]]
    BY <2>2 DEF owner
  <2>5. Life!Close(C)
    BY <1>2, <2>3, <2>4 DEF Life!Close
  <2> QED
    BY <1>2, <2>5 DEF Life!Next
<1>4. ASSUME NEW s \in SessionId \ issued, NEW u \in User, NEW m \in Time, Issues(s, u, m)
      PROVE  Life!Next
  <2> DEFINE p == IF Open(s)' THEN "open" ELSE "closed"
  <2>1. issued' = issued \cup {s} /\ ~Open(s)
    BY <1>1, <1>4 DEF Issues
  <2>2. \A t \in SessionId \ {s} :
          Open(t)' => Open(t) /\ sessions'[t].user_id = sessions[t].user_id
    <3>1. \A t \in SessionId \ {s} : Open(t)' => t \in issued
      BY <1>4 DEF Open, Issues, Shape, IssuedFirst
    <3> QED
      BY <3>1, OnlyCloses
  <2>3. sessions'[s].user_id = u
    BY <1>4 DEF Issues, NewRow
  <2>4. phase' = [t \in SessionId |-> IF t = s THEN p
                                      ELSE IF t \in C THEN "closed" ELSE phase[t]]
    BY <1>1, <2>1, <2>2 DEF phase
  <2>5. owner' = [t \in SessionId |-> IF t = s THEN (IF p = "open" THEN u ELSE NULL)
                                      ELSE IF t \in C THEN NULL ELSE owner[t]]
    BY <2>1, <2>2, <2>3 DEF owner
  <2>6. phase[s] = "unissued" /\ p \in {"open", "closed"}
    BY DEF phase
  <2> HIDE DEF p, C
  <2>7. Life!Issue(s, u, C)
    BY <1>2, <2>4, <2>5, <2>6 DEF Life!Issue
  <2> QED
    BY <1>2, <2>7 DEF Life!Next
<1> QED
  BY <1>3, <1>4 DEF SessionStep

\* SignIn implements SessionLife: an id names one person's session, is issued
\* once, and is never reopened.
THEOREM SessionsImplementLife == Spec => ImplementsSessionLife
BY LifeInit, LifeStep, ShapeAlways, PTL DEF Spec, ImplementsSessionLife, Life!Spec

-----------------------------------------------------------------------------
(* Passwords are numbered in the order they are chosen, and no request is  *)
(* ahead of the clock.                                                     *)

InBounds(r, p, m) ==
  /\ Proved(r) => r.password.no <= p
  /\ r.moment <= m

Bounded ==
  /\ \A u \in User : users[u].password.no <= passwords
  /\ \A w \in Worker : InBounds(req[w], passwords, now)

LEMMA InitBounded == Init => Bounded
<1> SUFFICES ASSUME Init PROVE Bounded
  OBVIOUS
<1>1. \A a \in InitialAccounts : a.password.no = 0
  <2>1. Nobody.password.no = 0
    BY DEF Nobody, FirstPassword
  <2> QED
    BY <2>1 DEF InitialAccounts, Nobody
<1>2. Free.moment = 0 /\ ~Proved(Free)
  BY DEF Free, Proved
<1>3. \A w \in Worker : InBounds(req[w], passwords, now)
  BY <1>2 DEF Init, InBounds
<1> QED
  BY <1>1, <1>3 DEF Init, Bounded

LEMMA FreeInBounds ==
  ASSUME NEW p, NEW m \in Time
  PROVE  InBounds(Free, p, m)
BY DEF InBounds, Free, Proved, Time

\* One request moves on to r while passwords and the clock do not go back.
LEMMA BoundedMoves ==
  ASSUME Shape, Bounded, NEW w \in Worker, NEW r,
         req' = [req EXCEPT ![w] = r],
         InBounds(r, passwords', now'),
         passwords' \in Nat, passwords <= passwords', now' = now
  PROVE  \A v \in Worker : InBounds(req'[v], passwords', now')
<1> SUFFICES ASSUME NEW v \in Worker, v # w PROVE InBounds(req'[v], passwords', now')
  BY DEF Shape, TypeOK
<1>1. req'[v] = req[v] /\ InBounds(req[v], passwords, now)
  BY DEF Shape, TypeOK, Bounded
<1>2. Proved(req[v]) => req[v].password.no \in Nat
  BY DEF Shape, InFlightOK, Password
<1> QED
  BY <1>1, <1>2 DEF InBounds, Shape, TypeOK

LEMMA PasswordNumbers ==
  ASSUME Shape
  PROVE  /\ \A u \in User : users[u].password.no \in Nat
         /\ \A w \in Worker : Proved(req[w]) => req[w].password.no \in Nat
         /\ \A w \in Worker : req[w].moment \in Time
BY DEF Shape, TypeOK, InFlightOK, Account, Password, Request

LEMMA BoundedStep == Shape /\ Bounded /\ [Next]_vars => Bounded'
<1> SUFFICES ASSUME Shape, Bounded, [Next]_vars PROVE Bounded'
  OBVIOUS
<1>0. now \in Time /\ passwords \in Nat /\ users \in [User -> Account]
  BY DEF Shape, TypeOK
\* A step that leaves the accounts, the clock and the passwords alone.
<1>1. ASSUME NEW w \in Worker, NEW r, req' = [req EXCEPT ![w] = r],
             InBounds(r, passwords, now), UNCHANGED <<now, users, passwords>>
      PROVE  Bounded'
  BY <1>0, <1>1, BoundedMoves DEF Bounded
<1>2. CASE Tick
  BY <1>0, <1>2, PasswordNumbers DEF Tick, Bounded, InBounds, Time
<1>3. ASSUME NEW u \in User, CreateUser(u) PROVE Bounded'
  <2>1. \A v \in User : users'[v].password.no \in {users[v].password.no, passwords + 1}
    BY <1>0, <1>3 DEF CreateUser
  <2>2. passwords' = passwords + 1 /\ now' = now /\ req' = req
    BY <1>3 DEF CreateUser
  <2> QED
    BY <1>0, <2>1, <2>2, PasswordNumbers DEF Bounded, InBounds
<1>4. ASSUME NEW w \in Worker, Refuse(w) PROVE Bounded'
  BY <1>0, <1>1, <1>4, FreeInBounds DEF Refuse, Done, Continues
<1>5. ASSUME NEW w \in Worker, Login(w) PROVE Bounded'
  <2>1. ASSUME NEW u \in User, NEW previous \in issued \cup {NULL}, LoginRead(w, u, previous)
        PROVE  Bounded'
    <3> DEFINE r == [Free EXCEPT !.op = "login", !.at = "read", !.user = u, !.sid = previous,
                                 !.moment = now, !.password = users[u].password,
                                 !.rehash = users[u].legacy]
    <3>1. req' = [req EXCEPT ![w] = r] /\ UNCHANGED <<now, users, passwords>>
      BY <2>1 DEF LoginRead, Begins
    <3>2. r.password = users[u].password /\ r.moment = now
      BY DEF Free
    <3> HIDE DEF r
    <3>3. InBounds(r, passwords, now)
      BY <1>0, <3>2 DEF InBounds, Bounded, Time
    <3> QED
      BY <1>1, <3>1, <3>3
  <2>2. ASSUME NEW s \in SessionId, LoginSucceed(w, s) PROVE Bounded'
    <3>1. req[w].password.no <= passwords
      BY <2>2 DEF LoginSucceed, At, Bounded, InBounds, Proved
    <3>2. \A v \in User : users'[v].password \in {users[v].password, req[w].password}
      BY <1>0, <2>2 DEF LoginSucceed, Account
    <3>3. req' = [req EXCEPT ![w] = Free] /\ UNCHANGED <<now, passwords>>
      BY <2>2 DEF LoginSucceed, Done, Continues
    <3>4. \A v \in Worker : InBounds(req'[v], passwords', now')
      <4>1. passwords' \in Nat /\ passwords <= passwords'
        BY <1>0, <3>3
      <4>2. InBounds(Free, passwords', now')
        BY <1>0, <3>3, FreeInBounds
      <4> QED
        BY <3>3, <4>1, <4>2, BoundedMoves
    <3> QED
      BY <3>1, <3>2, <3>3, <3>4 DEF Bounded
  <2> QED
    BY <1>5, <2>1, <2>2 DEF Login
<1>6. ASSUME NEW w \in Worker, WithCookie(w) PROVE Bounded'
  <2> DEFINE r == req[w]
  <2>0. InBounds(r, passwords, now) /\ r \in Request
    BY DEF Bounded, Shape, TypeOK
  <2>1. ASSUME NEW op \in {"use", "logout", "change"}, NEW s \in issued, Arrive(w, op, s)
        PROVE  Bounded'
    <3> DEFINE q == [Free EXCEPT !.op = op, !.at = "checked", !.user = sessions[s].user_id,
                                 !.sid = s, !.moment = now,
                                 !.touch = TouchColumns(sessions[s], now)]
    <3>1. req' = [req EXCEPT ![w] = q] /\ UNCHANGED <<now, users, passwords>>
      BY <2>1 DEF Arrive, Begins
    <3>2. q.op = op /\ q.at = "checked" /\ q.moment = now
      BY DEF Free
    <3> HIDE DEF q
    <3>3. InBounds(q, passwords, now)
      BY <1>0, <3>2 DEF InBounds, Proved, Time
    <3> QED
      BY <1>1, <3>1, <3>3
  <2>2. ASSUME Pass(w) PROVE Bounded'
    <3> DEFINE due == r.op = "change" /\ users[r.user].must_change
               q == [r EXCEPT !.at = "loaded", !.touch = {}, !.moment = 0, !.due = due]
    <3>1. UNCHANGED <<now, users, passwords>>
      BY <2>2 DEF Pass
    <3>2. \/ r.op \in {"logout", "change"} /\ req' = [req EXCEPT ![w] = q]
          \/ req' = [req EXCEPT ![w] = Free]
      BY <2>2 DEF Pass, Continues
    <3>3. q.op = r.op /\ q.at = "loaded" /\ q.moment = 0
      BY <2>0 DEF Request
    <3> HIDE DEF q
    <3>4. r.op \in {"logout", "change"} => InBounds(q, passwords, now)
      BY <1>0, <3>3 DEF InBounds, Proved, Time
    <3> QED
      BY <1>0, <1>1, <3>1, <3>2, <3>4, FreeInBounds
  <2>3. ASSUME Logout(w) PROVE Bounded'
    BY <1>0, <1>1, <2>3, FreeInBounds DEF Logout, Done, Continues
  <2>4. ASSUME ChangePassword(w) PROVE Bounded'
    <3> DEFINE password == [no |-> passwords + 1, by |-> "self"]
               q == [r EXCEPT !.at = "restart", !.due = FALSE, !.password = password]
    <3>1. /\ req' = [req EXCEPT ![w] = q]
          /\ passwords' = passwords + 1 /\ now' = now
          /\ users' = [users EXCEPT ![r.user] = WithPassword(users[r.user], r.due, "self")]
      BY <2>4 DEF ChangePassword, Continues
    <3>2. q.password.no = passwords + 1 /\ q.moment = r.moment
      BY <2>0 DEF Request
    <3>3. users[r.user].password.no \in Nat
          /\ \A a \in Account : WithPassword(a, r.due, "self").password.no = passwords + 1
      BY <1>0, <2>4, PasswordNumbers DEF WithPassword, Account, Shape, InFlightOK,
         ChangePassword, At
    <3>4. \A v \in User : users'[v].password.no \in {users[v].password.no, passwords + 1}
      BY <1>0, <3>1, <3>3
    <3> HIDE DEF q
    <3>5. InBounds(q, passwords', now')
      BY <1>0, <2>0, <3>1, <3>2 DEF InBounds
    <3>6. \A v \in Worker : InBounds(req'[v], passwords', now')
      <4>1. passwords' \in Nat /\ passwords <= passwords'
        BY <1>0, <3>1
      <4> QED
        BY <3>1, <3>5, <4>1, BoundedMoves
    <3> QED
      BY <1>0, <3>1, <3>4, <3>6, PasswordNumbers DEF Bounded
  <2>5. ASSUME NEW s \in SessionId, Restart(w, s) PROVE Bounded'
    BY <1>0, <1>1, <2>5, FreeInBounds DEF Restart, Done, Continues
  <2> QED
    BY <1>6, <2>1, <2>2, <2>3, <2>4, <2>5 DEF WithCookie
<1>7. ASSUME NEW w \in Worker, Admin(w) PROVE Bounded'
  <2> DEFINE r == req[w]
  <2>1. ASSUME NEW op \in AdminOp, NEW u \in User, AdminRead(w, op, u) PROVE Bounded'
    <3> DEFINE due == op = "reset" /\ users[u].must_change
               q == [Free EXCEPT !.op = op, !.at = "read", !.user = u, !.due = due]
    <3>1. req' = [req EXCEPT ![w] = q] /\ UNCHANGED <<now, users, passwords>>
      BY <2>1 DEF AdminRead, Begins
    <3>2. q.op = op /\ q.at = "read" /\ q.moment = 0
      BY DEF Free
    <3> HIDE DEF q
    <3>3. InBounds(q, passwords, now)
      BY <1>0, <3>2 DEF InBounds, Proved, AdminOp, Time
    <3> QED
      BY <1>1, <3>1, <3>3
  <2>2. ASSUME /\ \A v \in User : users'[v].password.no \in {users[v].password.no, passwords'}
               /\ passwords' \in {passwords, passwords + 1}
               /\ now' = now
               /\ Done(w)
        PROVE  Bounded'
    <3>1. req' = [req EXCEPT ![w] = Free]
      BY <2>2 DEF Done, Continues
    <3>2. \A v \in Worker : InBounds(req'[v], passwords', now')
      <4>1. passwords' \in Nat /\ passwords <= passwords'
        BY <1>0, <2>2
      <4>2. InBounds(Free, passwords', now')
        BY <1>0, <2>2, FreeInBounds
      <4> QED
        BY <2>2, <3>1, <4>1, <4>2, BoundedMoves
    <3> QED
      BY <1>0, <2>2, <3>2, PasswordNumbers DEF Bounded
  <2>3. ASSUME SetUserStatus(w) PROVE Bounded'
    BY <1>0, <2>2, <2>3 DEF SetUserStatus, Account
  <2>4. ASSUME ResetPassword(w) PROVE Bounded'
    <3>1. \A a \in Account : WithPassword(a, r.due, "admin").password.no = passwords + 1
      BY DEF WithPassword, Account
    <3>2. /\ users' = [users EXCEPT ![r.user] = WithPassword(users[r.user], r.due, "admin")]
          /\ passwords' = passwords + 1 /\ now' = now /\ Done(w)
      BY <2>4 DEF ResetPassword
    <3>3. \A v \in User : users'[v].password.no \in {users[v].password.no, passwords'}
      BY <1>0, <3>1, <3>2
    <3> QED
      BY <2>2, <3>2, <3>3
  <2>5. ASSUME RevokeSessions(w) PROVE Bounded'
    BY <2>2, <2>5 DEF RevokeSessions
  <2>6. ASSUME DeleteUser(w) PROVE Bounded'
    BY <1>0, <2>2, <2>6 DEF DeleteUser, Account
  <2>7. ASSUME SeedReset(w) PROVE Bounded'
    <3>1. \A a \in Account : WithPassword(a, FALSE, "self").password.no = passwords + 1
      BY DEF WithPassword, Account
    <3>2. /\ users' = [users EXCEPT ![r.user] = WithPassword(users[r.user], FALSE, "self")]
          /\ passwords' = passwords + 1 /\ now' = now /\ Done(w)
      BY <2>7 DEF SeedReset
    <3>3. \A v \in User : users'[v].password.no \in {users[v].password.no, passwords'}
      BY <1>0, <3>1, <3>2
    <3> QED
      BY <2>2, <3>2, <3>3
  <2> QED
    BY <1>7, <2>1, <2>3, <2>4, <2>5, <2>6, <2>7 DEF Admin
<1>8. CASE UNCHANGED vars
  BY <1>8 DEF vars, Bounded
<1> QED
  BY <1>2, <1>3, <1>4, <1>5, <1>6, <1>7, <1>8 DEF Next

LEMMA BoundedAlways == Spec => []Bounded
BY InitBounded, BoundedStep, ShapeAlways, PTL DEF Spec

-----------------------------------------------------------------------------
(* What a step may do to an account, and to its sessions with it.          *)

AllRevoked(table, u) ==
  \A s \in DOMAIN table : table[s].user_id = u => Revoked(table[s])

\* A password in the table is the one that was there or one a request proved.
Stays(u) ==
  /\ users'[u].status \in {users[u].status, "active"}
  /\ users'[u].must_change = users[u].must_change
  /\ \/ users'[u].password = users[u].password
     \/ \E w \in Worker : /\ At(w, "login", "read")
                          /\ req[w].user = u
                          /\ users'[u].password = req[w].password

AccountStep(u) ==
  \/ users[u].status = "unborn"
  \/ AllRevoked(sessions', u)
  \/ Stays(u)

LEMMA RevokeAllRevokes ==
  ASSUME NEW table, IsTable(table), NEW u, NEW m \in Time
  PROVE  AllRevoked(RevokeAll(table, u, m), u)
<1>1. ASSUME NEW s \in DOMAIN table
      PROVE  /\ table[s] \in Row
             /\ table[s].user_id = u => RevokeAll(table, u, m)[s] = RevokeRow(table[s], m)
             /\ table[s].user_id # u => RevokeAll(table, u, m)[s] = table[s]
  BY DEF RevokeAll, IsTable
<1> QED
  BY <1>1, RevokeAllTable, RevokeRowType DEF AllRevoked

LEMMA DropUserRevokes ==
  ASSUME NEW table, NEW u
  PROVE  AllRevoked(DropUser(table, u), u)
BY DEF DropUser, AllRevoked

LEMMA AccountsStep == Shape /\ [Next]_vars => \A u \in User : AccountStep(u)
<1> SUFFICES ASSUME Shape, [Next]_vars, NEW u \in User PROVE AccountStep(u)
  OBVIOUS
<1>0. now \in Time /\ IsTable(sessions) /\ users \in [User -> Account]
  BY DEF Shape, TypeOK
<1>1. ASSUME users'[u] = users[u] PROVE AccountStep(u)
  BY <1>1 DEF AccountStep, Stays
<1>2. CASE Tick \/ (\E w \in Worker : Refuse(w)) \/ UNCHANGED vars
  BY <1>1, <1>2 DEF Tick, Refuse, vars
<1>3. ASSUME NEW u0 \in User, CreateUser(u0) PROVE AccountStep(u)
  <2>1. users'[u] = users[u] \/ users[u].status = "unborn"
    BY <1>0, <1>3 DEF CreateUser
  <2> QED
    BY <1>1, <2>1 DEF AccountStep
<1>4. ASSUME NEW w \in Worker, Login(w) PROVE AccountStep(u)
  <2>1. CASE users' = users
    BY <1>1, <2>1
  <2>2. ASSUME NEW s \in SessionId, LoginSucceed(w, s), users' # users
        PROVE  AccountStep(u)
    <3> DEFINE r == req[w]
    <3>1. /\ users' = [users EXCEPT ![r.user].password = r.password,
                                    ![r.user].legacy   = FALSE]
          /\ At(w, "login", "read")
      BY <2>2 DEF LoginSucceed
    <3>2. CASE u # r.user
      BY <1>0, <1>1, <3>1, <3>2
    <3>3. CASE u = r.user
      <4>1. users[u] \in Account
        BY <1>0
      <4>2. users'[u] = [users[u] EXCEPT !.password = r.password, !.legacy = FALSE]
        BY <1>0, <3>1, <3>3
      <4>3. /\ users'[u].status = users[u].status
            /\ users'[u].must_change = users[u].must_change
            /\ users'[u].password = r.password
        BY <4>1, <4>2 DEF Account
      <4> QED
        BY <3>1, <3>3, <4>3 DEF AccountStep, Stays
    <3> QED
      BY <3>2, <3>3
  <2> QED
    BY <1>4, <2>1, <2>2 DEF Login, LoginRead
<1>5. ASSUME NEW w \in Worker, WithCookie(w) PROVE AccountStep(u)
  <2>1. CASE users' = users
    BY <1>1, <2>1
  <2>2. CASE ChangePassword(w)
    <3>1. CASE u = req[w].user
      BY <1>0, <2>2, <3>1, RevokeAllRevokes DEF ChangePassword, AccountStep
    <3>2. CASE u # req[w].user
      BY <1>0, <1>1, <2>2, <3>2 DEF ChangePassword
    <3> QED
      BY <3>1, <3>2
  <2> QED
    BY <1>5, <2>1, <2>2 DEF WithCookie, Arrive, Pass, Logout, Restart
<1>6. ASSUME NEW w \in Worker, Admin(w) PROVE AccountStep(u)
  <2>1. CASE users' = users
    BY <1>1, <2>1
  <2>2. CASE SetUserStatus(w)
    <3>1. CASE u # req[w].user
      BY <1>0, <1>1, <2>2, <3>1 DEF SetUserStatus
    <3>2. CASE u = req[w].user /\ req[w].op = "suspend"
      BY <1>0, <2>2, <3>2, RevokeAllRevokes DEF SetUserStatus, AccountStep
    <3>3. CASE u = req[w].user /\ req[w].op # "suspend"
      <4>1. users' = [users EXCEPT ![u].status = "active"] /\ users[u] \in Account
        BY <1>0, <2>2, <3>3 DEF SetUserStatus
      <4> QED
        BY <1>0, <4>1 DEF AccountStep, Stays, Account
    <3> QED
      BY <3>1, <3>2, <3>3
  <2>3. CASE ResetPassword(w)
    <3>1. CASE u = req[w].user
      BY <1>0, <2>3, <3>1, RevokeAllRevokes DEF ResetPassword, AccountStep
    <3>2. CASE u # req[w].user
      BY <1>0, <1>1, <2>3, <3>2 DEF ResetPassword
    <3> QED
      BY <3>1, <3>2
  <2>4. CASE DeleteUser(w)
    <3>1. CASE u = req[w].user
      BY <2>4, <3>1, DropUserRevokes DEF DeleteUser, AccountStep
    <3>2. CASE u # req[w].user
      BY <1>0, <1>1, <2>4, <3>2 DEF DeleteUser
    <3> QED
      BY <3>1, <3>2
  <2>5. CASE SeedReset(w)
    <3>1. CASE u = req[w].user
      BY <1>0, <2>5, <3>1, RevokeAllRevokes DEF SeedReset, AccountStep
    <3>2. CASE u # req[w].user
      BY <1>0, <1>1, <2>5, <3>2 DEF SeedReset
    <3> QED
      BY <3>1, <3>2
  <2> QED
    BY <1>6, <2>1, <2>2, <2>3, <2>4, <2>5 DEF Admin, AdminRead, RevokeSessions
<1> QED
  BY <1>2, <1>3, <1>4, <1>5, <1>6 DEF Next

\* A suspension, a deletion or a new password revokes every session the
\* person has, whatever was in flight.
THEOREM SignInsEnded == Spec => EndsEverySignIn
<1>1. Shape /\ Bounded /\ [Next]_vars =>
        \A u \in User :
          (\/ users[u].status = "active" /\ users'[u].status # "active"
           \/ Exists(u) /\ users'[u].password.no > passwords)
          => \A s \in DOMAIN sessions' :
               sessions'[s].user_id = u => Revoked(sessions'[s])
  <2> SUFFICES ASSUME Shape, Bounded, [Next]_vars, NEW u \in User,
                      \/ users[u].status = "active" /\ users'[u].status # "active"
                      \/ Exists(u) /\ users'[u].password.no > passwords
               PROVE  AllRevoked(sessions', u)
    BY DEF AllRevoked
  <2>1. users[u].status # "unborn"
    BY DEF Exists
  <2>2. ~Stays(u)
    <3> SUFFICES ASSUME Stays(u) PROVE FALSE
      OBVIOUS
    <3>1. users[u].status = "active" => users'[u].status = "active"
      BY DEF Stays
    <3>2. users'[u].password.no <= passwords
      BY DEF Stays, Bounded, InBounds, Proved, At
    <3>3. users'[u].password.no \in Nat /\ passwords \in Nat
      BY PasswordNumbers DEF Stays, At, Proved, Shape, TypeOK
    <3> QED
      BY <3>1, <3>2, <3>3
  <2>3. AccountStep(u)
    BY AccountsStep
  <2> QED
    BY <2>1, <2>2, <2>3 DEF AccountStep
<1> QED
  BY <1>1, ShapeAlways, BoundedAlways, PTL DEF Spec, EndsEverySignIn

-----------------------------------------------------------------------------
(* Signing in: the session the browser held, and the sweep.                *)

LEMMA StartEnds ==
  ASSUME NEW table, IsTable(table), NEW previous, NEW sid,
         NEW u, NEW m \in Time,
         previous \in DOMAIN Start(table, previous, sid, u, m), previous # sid
  PROVE  Revoked(Start(table, previous, sid, u, m)[previous])
<1> DEFINE ended == End(table, previous, m)
           kept == Sweep(ended, m)
<1>1. IsTable(ended) /\ DOMAIN ended = DOMAIN table
  BY EndTable
<1>2. DOMAIN kept \subseteq DOMAIN table /\ \A s \in DOMAIN kept : kept[s] = ended[s]
  BY <1>1, SweepTable
<1> HIDE DEF kept
<1>3. Start(table, previous, sid, u, m) =
        [s \in DOMAIN kept \cup {sid} |-> IF s = sid THEN NewRow(u, m) ELSE kept[s]]
  BY DEF Start, kept
<1>4. previous \in DOMAIN kept
  BY <1>3
<1>5. previous \in DOMAIN table /\ table[previous] \in Row
  BY <1>2, <1>4 DEF IsTable
<1>6. ended[previous] = RevokeRow(table[previous], m)
  BY <1>5 DEF End
<1>7. Revoked(ended[previous])
  BY <1>5, <1>6, RevokeRowType
<1> QED
  BY <1>2, <1>3, <1>4, <1>7

\* Revoking a row at m does not make it long ended at m.
LEMMA EndedNow ==
  ASSUME NEW row \in Row, NEW m \in Time, LongEnded(RevokeRow(row, m), m)
  PROVE  LongEnded(row, m)
<1>1. CASE Revoked(row)
  BY <1>1 DEF RevokeRow
<1>2. CASE ~Revoked(row)
  <2>1. RevokeRow(row, m) = [row EXCEPT !.revoked_at = m]
    BY <1>2 DEF RevokeRow
  <2>2. m + KEEP_ENDED >= m
    BY WindowsAssumption DEF Time
  <2> QED
    BY <2>1, <2>2, WindowsAssumption DEF LongEnded, Row, Time
<1> QED
  BY <1>1, <1>2

LEMMA LaterEnded ==
  ASSUME NEW row \in Row, NEW m \in Time, NEW later \in Time, m <= later,
         LongEnded(row, m)
  PROVE  LongEnded(row, later)
BY WindowsAssumption DEF LongEnded, Row, Time, Revoked

LEMMA StartSweeps ==
  ASSUME NEW table, IsTable(table), NEW previous, NEW sid,
         NEW u, NEW m \in Time,
         NEW s \in DOMAIN table, s \notin DOMAIN Start(table, previous, sid, u, m)
  PROVE  LongEnded(table[s], m)
<1> DEFINE ended == End(table, previous, m)
<1>1. IsTable(ended) /\ DOMAIN ended = DOMAIN table
  BY EndTable
<1>2. s \notin DOMAIN Sweep(ended, m)
  BY DEF Start
<1>3. LongEnded(ended[s], m)
  BY <1>1, <1>2 DEF Sweep
<1>4. table[s] \in Row
  BY DEF IsTable
<1>5. ended[s] = table[s] \/ ended[s] = RevokeRow(table[s], m)
  BY DEF End
<1> QED
  BY <1>3, <1>4, <1>5, EndedNow

\* The steps that issue a session, and what they start it from.
Starts(w, s, m) ==
  /\ req[w].user \in User
  /\ s \in SessionId \ issued
  /\ issued' = issued \cup {s}
  /\ sessions' = Start(sessions, req[w].sid, s, req[w].user, m)
  /\ req' = [req EXCEPT ![w] = Free]
  /\ Proved(req[w])
  /\ minted' = [minted EXCEPT ![s] = req[w].password.no]

LEMMA WhoStarts ==
  ASSUME Shape, Bounded, [Next]_vars
  PROVE  \/ issued' = issued /\ minted' = minted
         \/ \E w \in Worker, s \in SessionId, m \in Time : m <= now /\ Starts(w, s, m)
<1>0. now \in Time
  BY DEF Shape, TypeOK
<1>1. ASSUME NEW w \in Worker, NEW s \in SessionId, LoginSucceed(w, s)
      PROVE  req[w].moment \in Time /\ req[w].moment <= now /\ Starts(w, s, req[w].moment)
  <2>1. req[w].moment \in Time /\ req[w].moment <= now
    BY PasswordNumbers DEF Bounded, InBounds
  <2>2. req[w].user \in User
    BY <1>1 DEF LoginSucceed, At, Shape, InFlightOK
  <2> QED
    BY <1>1, <2>1, <2>2 DEF LoginSucceed, Starts, Done, Continues, At, Proved
<1>2. ASSUME NEW w \in Worker, NEW s \in SessionId, Restart(w, s)
      PROVE  now <= now /\ Starts(w, s, now)
  <2>1. req[w].user \in User
    BY <1>2 DEF Restart, At, Shape, InFlightOK
  <2> QED
    BY <1>0, <1>2, <2>1 DEF Restart, Starts, Done, Continues, At, Proved, Time
<1>3. CASE Tick \/ (\E u \in User : CreateUser(u)) \/ (\E w \in Worker : Refuse(w))
           \/ UNCHANGED vars
  BY <1>3 DEF Tick, CreateUser, Refuse, vars
<1>4. CASE \E w \in Worker : Login(w)
  BY <1>1, <1>4 DEF Login, LoginRead
<1>5. CASE \E w \in Worker : WithCookie(w)
  BY <1>0, <1>2, <1>5 DEF WithCookie, Arrive, Pass, Logout, ChangePassword
<1>6. CASE \E w \in Worker : Admin(w)
  BY <1>6 DEF Admin, AdminRead, SetUserStatus, ResetPassword, SeedReset, RevokeSessions,
              DeleteUser
<1> QED
  BY <1>3, <1>4, <1>5, <1>6 DEF Next

\* A browser that signs in leaves the session it held behind, and gets an id
\* nobody had.
THEOREM FixationDefended == Spec => FixationDefence
<1>1. Shape /\ Bounded /\ [Next]_vars =>
        \A s \in DOMAIN sessions' \ DOMAIN sessions :
          /\ s \notin issued
          /\ \A w \in Worker :
               (req'[w] # req[w] /\ req[w].sid \in DOMAIN sessions')
               => Revoked(sessions'[req[w].sid])
  <2> SUFFICES ASSUME Shape, Bounded, [Next]_vars,
                      NEW s \in DOMAIN sessions' \ DOMAIN sessions
               PROVE  /\ s \notin issued
                      /\ \A w \in Worker :
                           (req'[w] # req[w] /\ req[w].sid \in DOMAIN sessions')
                           => Revoked(sessions'[req[w].sid])
    OBVIOUS
  <2>1. s \notin issued /\ issued' # issued
    BY StepOfSessions DEF SessionStep, IssuesNothing, Issues
  <2>2. PICK v \in Worker, s0 \in SessionId, m \in Time : Starts(v, s0, m)
    BY <2>1, WhoStarts
  <2>3. ASSUME NEW w \in Worker, req'[w] # req[w], req[w].sid \in DOMAIN sessions'
        PROVE  Revoked(sessions'[req[w].sid])
    <3> DEFINE previous == req[w].sid
    <3>1. w = v
      BY <2>2, <2>3 DEF Starts, Shape, TypeOK
    <3>2. previous \in issued \cup {NULL}
      BY DEF Shape, InFlightOK
    <3>3. previous # s0
      BY <2>2, <3>2, NullAssumption DEF Starts
    <3>4. /\ sessions' = Start(sessions, previous, s0, req[w].user, m)
          /\ IsTable(sessions)
      BY <2>2, <3>1 DEF Starts, Shape, TypeOK
    <3>5. previous \in DOMAIN sessions'
      BY <2>3
    <3> HIDE DEF previous
    <3>6. Revoked(sessions'[previous])
      BY <3>3, <3>4, <3>5, StartEnds
    <3> QED
      BY <3>6 DEF previous
  <2> QED
    BY <2>1, <2>3
<1> QED
  BY <1>1, ShapeAlways, BoundedAlways, PTL DEF Spec, FixationDefence

\* Only rows that ended long ago are swept.
THEOREM RecentKept == Spec => SweepKeepsRecent
<1>1. Shape /\ Bounded /\ [Next]_vars =>
        \A s \in DOMAIN sessions \ DOMAIN sessions' :
          \/ LongEnded(sessions[s], now)
          \/ users'[sessions[s].user_id].status = "deleted"
  <2> SUFFICES ASSUME Shape, Bounded, [Next]_vars,
                      NEW s \in DOMAIN sessions \ DOMAIN sessions'
               PROVE  \/ LongEnded(sessions[s], now)
                      \/ users'[sessions[s].user_id].status = "deleted"
    OBVIOUS
  <2>0. IsTable(sessions) /\ now \in Time /\ sessions[s] \in Row
    BY DEF Shape, TypeOK, IsTable
  <2>1. ASSUME NEW w \in Worker, NEW s0 \in SessionId, NEW m \in Time,
               m <= now, Starts(w, s0, m)
        PROVE  LongEnded(sessions[s], now)
    <3>1. sessions' = Start(sessions, req[w].sid, s0, req[w].user, m)
      BY <2>1 DEF Starts
    <3>2. LongEnded(sessions[s], m)
      BY <2>0, <3>1, StartSweeps
    <3> QED
      BY <2>0, <2>1, <3>2, LaterEnded
  <2>2. CASE issued' # issued
    BY <2>1, <2>2, WhoStarts
  <2>3. ASSUME NEW w \in Worker, DeleteUser(w)
        PROVE  users'[sessions[s].user_id].status = "deleted"
    <3>1. sessions[s].user_id = req[w].user
      BY <2>3 DEF DeleteUser, DropUser
    <3>2. sessions[s].user_id \in User /\ users \in [User -> Account]
      BY <2>0 DEF Row, Shape, TypeOK
    <3> QED
      BY <2>3, <3>1, <3>2 DEF DeleteUser, Account
  <2>4. ASSUME issued' = issued, ~\E w \in Worker : DeleteUser(w)
        PROVE  DOMAIN sessions' = DOMAIN sessions
    <3>1. ASSUME NEW w \in Worker, Login(w) PROVE DOMAIN sessions' = DOMAIN sessions
      BY <2>4, <3>1 DEF Login, LoginRead, LoginSucceed
    <3>2. ASSUME NEW w \in Worker, WithCookie(w) PROVE DOMAIN sessions' = DOMAIN sessions
      <4>1. CASE Pass(w)
        BY <2>0, <4>1, PasswordNumbers, TouchTable DEF Pass, Touched
      <4>2. CASE Logout(w)
        BY <2>0, <4>2, EndTable DEF Logout
      <4>3. CASE ChangePassword(w)
        BY <2>0, <4>3, RevokeAllTable DEF ChangePassword
      <4> QED
        BY <2>4, <3>2, <4>1, <4>2, <4>3 DEF WithCookie, Arrive, Restart
    <3>3. ASSUME NEW w \in Worker, Admin(w) PROVE DOMAIN sessions' = DOMAIN sessions
      BY <2>0, <2>4, <3>3, RevokeAllTable
         DEF Admin, AdminRead, SetUserStatus, ResetPassword, SeedReset, RevokeSessions
    <3>4. CASE Tick \/ (\E u \in User : CreateUser(u)) \/ (\E w \in Worker : Refuse(w))
               \/ UNCHANGED vars
      BY <3>4 DEF Tick, CreateUser, Refuse, vars
    <3> QED
      BY <3>1, <3>2, <3>3, <3>4 DEF Next
  <2> QED
    BY <2>2, <2>3, <2>4
<1> QED
  BY <1>1, ShapeAlways, BoundedAlways, PTL DEF Spec, SweepKeepsRecent

-----------------------------------------------------------------------------
(* Until requests overlap, a request in flight is alone, and what it read  *)
(* of its account is still so.                                             *)

Current(r, accounts) ==
  LET account == accounts[r.user] IN
  /\ Proved(r) \/ (r.op = "change" /\ r.at = "loaded") => account.status = "active"
  /\ Proved(r) => r.password = account.password
  /\ r.op = "reset" \/ (r.op = "change" /\ r.at = "loaded") => r.due = account.must_change
  /\ r.op = "reset" => account.status # "unborn"

Alone == \A v, w \in Worker : req[v] # Free /\ req[w] # Free => v = w

Serial ==
  ~overlap => /\ Alone
              /\ \A w \in Worker : Current(req[w], users)

LEMMA FreeCurrent == \A accounts : Current(Free, accounts)
BY DEF Current, Free, Proved

LEMMA InitSerial == Init => Serial
BY FreeCurrent DEF Init, Serial, Alone

\* The only request there is moves on to r, and r is current.
LEMMA SerialMoves ==
  ASSUME Shape, NEW w \in Worker, NEW r, req' = [req EXCEPT ![w] = r],
         \A v \in Worker \ {w} : req[v] = Free,
         Current(r, users')
  PROVE  Serial'
<1>1. \A v \in Worker : req'[v] = IF v = w THEN r ELSE Free
  BY DEF Shape, TypeOK
<1>2. Alone'
  BY <1>1 DEF Alone
<1>3. \A v \in Worker : Current(req'[v], users')
  BY <1>1, FreeCurrent
<1> QED
  BY <1>2, <1>3 DEF Serial

LEMMA SerialBegins ==
  ASSUME Shape, NEW w \in Worker, NEW r, Begins(w, r), users' = users, Current(r, users)
  PROVE  Serial'
<1>1. CASE overlap'
  BY <1>1 DEF Serial
<1>2. CASE ~overlap'
  <2>1. \A v \in Worker \ {w} : req[v] = Free
    BY <1>2 DEF Begins
  <2>2. req' = [req EXCEPT ![w] = r]
    BY DEF Begins
  <2>3. Current(r, users')
    OBVIOUS
  <2> QED
    BY <2>1, <2>2, <2>3, SerialMoves
<1> QED
  BY <1>1, <1>2

LEMMA SerialContinues ==
  ASSUME Shape, Serial, NEW w \in Worker, req[w] # Free, NEW r, Continues(w, r),
         ~overlap => Current(r, users')
  PROVE  Serial'
<1>1. CASE overlap
  BY <1>1 DEF Serial, Continues
<1>2. CASE ~overlap
  <2>1. \A v \in Worker \ {w} : req[v] = Free
    BY <1>2 DEF Serial, Alone
  <2>2. req' = [req EXCEPT ![w] = r] /\ Current(r, users')
    BY <1>2 DEF Continues
  <2> QED
    BY <2>1, <2>2, SerialMoves
<1> QED
  BY <1>1, <1>2

LEMMA SerialDone ==
  ASSUME Shape, Serial, NEW w \in Worker, req[w] # Free, Done(w)
  PROVE  Serial'
BY FreeCurrent, SerialContinues DEF Done

\* No request is current with an account that is not there yet.
LEMMA SerialCreate ==
  ASSUME Shape, Serial, NEW u \in User, CreateUser(u)
  PROVE  Serial'
<1>1. CASE overlap
  BY <1>1 DEF Serial, CreateUser
<1>2. CASE ~overlap
  <2>1. req' = req /\ users[u].status = "unborn" /\ users \in [User -> Account]
    BY DEF CreateUser, Shape, TypeOK
  <2>2. \A x \in User \ {u} : users'[x] = users[x]
    BY <2>1 DEF CreateUser
  <2>3. ASSUME NEW w \in Worker PROVE Current(req[w], users')
    <3>1. Current(req[w], users)
      BY <1>2 DEF Serial
    <3>2. CASE req[w].user \in User \ {u}
      BY <2>2, <3>1, <3>2 DEF Current
    <3>3. CASE req[w].user = u
      BY <2>1, <3>1, <3>3 DEF Current
    <3>4. CASE req[w].user \notin User
      <4>1. req[w].at = "idle" /\ req[w].op = "none"
        BY <3>4 DEF Shape, InFlightOK
      <4> QED
        BY <4>1 DEF Current, Proved
    <3> QED
      BY <3>2, <3>3, <3>4
  <2> QED
    BY <1>2, <2>1, <2>3 DEF Serial, Alone
<1> QED
  BY <1>1, <1>2

LEMMA SerialStep == Shape /\ Serial /\ [Next]_vars => Serial'
<1> SUFFICES ASSUME Shape, Serial, [Next]_vars PROVE Serial'
  OBVIOUS
<1>1. CASE Tick \/ UNCHANGED vars
  BY <1>1 DEF Tick, vars, Serial, Alone
<1>2. CASE \E u \in User : CreateUser(u)
  BY <1>2, SerialCreate
<1>3. CASE \E w \in Worker : Refuse(w)
  BY <1>3, SerialDone DEF Refuse
<1>4. ASSUME NEW w \in Worker, req[w].op # "none", Done(w) PROVE Serial'
  <2>1. req[w] # Free
    BY <1>4 DEF Free
  <2> QED
    BY <1>4, <2>1, SerialDone
<1>5. ASSUME NEW w \in Worker, Login(w) PROVE Serial'
  <2>1. ASSUME NEW u \in User, NEW previous \in issued \cup {NULL}, LoginRead(w, u, previous)
        PROVE  Serial'
    <3> DEFINE r == [Free EXCEPT !.op = "login", !.at = "read", !.user = u, !.sid = previous,
                                 !.moment = now, !.password = users[u].password,
                                 !.rehash = users[u].legacy]
    <3>1. Begins(w, r) /\ users' = users /\ users[u].status = "active"
      BY <2>1 DEF LoginRead, Trusted
    <3>2. r.op = "login" /\ r.user = u /\ r.password = users[u].password
      BY DEF Free
    <3> HIDE DEF r
    <3>3. Current(r, users)
      BY <3>1, <3>2 DEF Current
    <3> QED
      BY <3>1, <3>3, SerialBegins
  <2> QED
    BY <1>4, <1>5, <2>1 DEF Login, LoginSucceed, At
<1>6. ASSUME NEW w \in Worker, WithCookie(w) PROVE Serial'
  <2> DEFINE r == req[w]
  <2>0. r \in Request /\ users \in [User -> Account]
    BY DEF Shape, TypeOK
  <2>1. ASSUME NEW op \in {"use", "logout", "change"}, NEW s \in issued, Arrive(w, op, s)
        PROVE  Serial'
    <3> DEFINE q == [Free EXCEPT !.op = op, !.at = "checked", !.user = sessions[s].user_id,
                                 !.sid = s, !.moment = now,
                                 !.touch = TouchColumns(sessions[s], now)]
    <3>1. Begins(w, q) /\ users' = users
      BY <2>1 DEF Arrive
    <3>2. q.op = op /\ q.at = "checked"
      BY DEF Free
    <3> HIDE DEF q
    <3>3. Current(q, users)
      BY <3>2 DEF Current, Proved
    <3> QED
      BY <3>1, <3>3, SerialBegins
  <2>2. ASSUME Pass(w) PROVE Serial'
    <3> DEFINE due == r.op = "change" /\ users[r.user].must_change
               q == [r EXCEPT !.at = "loaded", !.touch = {}, !.moment = 0, !.due = due]
    <3>1. r.at = "checked" /\ users' = users /\ r # Free
      BY <2>2 DEF Pass, Free
    <3>2. \/ /\ r.op = "logout" \/ (r.op = "change" /\ Trusted(r.user))
             /\ Continues(w, q)
          \/ Done(w)
      <4>1. CASE r.op = "logout" \/ (r.op = "change" /\ Trusted(r.user))
        BY <2>2, <4>1 DEF Pass, Continues
      <4>2. CASE ~(r.op = "logout" \/ (r.op = "change" /\ Trusted(r.user)))
        BY <2>2, <4>2 DEF Pass, Done, Continues
      <4> QED
        BY <4>1, <4>2
    <3>3. CASE Done(w)
      BY <3>1, <3>3, SerialDone
    <3>4. CASE /\ r.op = "logout" \/ (r.op = "change" /\ Trusted(r.user))
               /\ Continues(w, q)
      <4>1. q.op = r.op /\ q.at = "loaded" /\ q.user = r.user /\ q.due = due
        BY <2>0 DEF Request
      <4>2. users[r.user].must_change \in BOOLEAN
        BY <2>0, <3>1 DEF Shape, InFlightOK, Account
      <4>3. r.op = "change" => due = users[r.user].must_change
        BY <4>2
      <4> HIDE DEF q, due
      <4>4. Current(q, users)
        BY <3>4, <4>1, <4>3 DEF Current, Proved, Trusted
      <4> QED
        BY <3>1, <3>4, <4>4, SerialContinues
    <3> QED
      BY <3>2, <3>3, <3>4
  <2>3. ASSUME ChangePassword(w) PROVE Serial'
    <3> DEFINE password == [no |-> passwords + 1, by |-> "self"]
               q == [r EXCEPT !.at = "restart", !.due = FALSE, !.password = password]
    <3>1. /\ r.op = "change" /\ r.at = "loaded" /\ r # Free
          /\ Continues(w, q)
          /\ users' = [users EXCEPT ![r.user] = WithPassword(users[r.user], r.due, "self")]
      BY <2>3 DEF ChangePassword, At, Free
    <3>2. r.user \in User
      BY <3>1 DEF Shape, InFlightOK
    <3>3. /\ users'[r.user].status = users[r.user].status
          /\ users'[r.user].password = password
      BY <2>0, <3>1, <3>2 DEF WithPassword, Account
    <3>4. ~overlap => users[r.user].status = "active"
      BY <3>1 DEF Serial, Current
    <3>5. q.op = "change" /\ q.at = "restart" /\ q.user = r.user /\ q.password = password
      BY <2>0, <3>1 DEF Request
    <3> HIDE DEF q, password
    <3>6. ~overlap => Current(q, users')
      BY <3>3, <3>4, <3>5 DEF Current, Proved
    <3> QED
      BY <3>1, <3>6, SerialContinues
  <2> QED
    BY <1>4, <1>6, <2>1, <2>2, <2>3 DEF WithCookie, Logout, Restart, At
<1>7. ASSUME NEW w \in Worker, Admin(w) PROVE Serial'
  <2>1. ASSUME NEW op \in AdminOp, NEW u \in User, AdminRead(w, op, u) PROVE Serial'
    <3> DEFINE due == op = "reset" /\ users[u].must_change
               q == [Free EXCEPT !.op = op, !.at = "read", !.user = u, !.due = due]
    <3>1. Begins(w, q) /\ users' = users /\ Exists(u)
      BY <2>1 DEF AdminRead
    <3>2. q.op = op /\ q.at = "read" /\ q.user = u /\ q.due = due
      BY DEF Free
    <3>3. users[u].must_change \in BOOLEAN
      BY DEF Shape, TypeOK, Account
    <3>4. op = "reset" => due = users[u].must_change
      BY <3>3
    <3> HIDE DEF q, due
    <3>5. Current(q, users)
      BY <3>1, <3>2, <3>4 DEF Current, Proved, Exists, AdminOp
    <3> QED
      BY <3>1, <3>5, SerialBegins
  <2> QED
    BY <1>4, <1>7, <2>1
       DEF Admin, SetUserStatus, ResetPassword, SeedReset, RevokeSessions, DeleteUser, At
<1> QED
  BY <1>1, <1>2, <1>3, <1>5, <1>6, <1>7 DEF Next

LEMMA SerialAlways == Spec => []Serial
BY InitSerial, SerialStep, ShapeAlways, PTL DEF Spec

LEMMA OverlapStays ==
  ASSUME [Next]_vars, ~overlap'
  PROVE  ~overlap
<1>1. ASSUME NEW w \in Worker, NEW r, Begins(w, r) \/ Continues(w, r)
      PROVE  ~overlap
  BY <1>1 DEF Begins, Continues
<1>2. CASE Tick \/ (\E u \in User : CreateUser(u)) \/ UNCHANGED vars
  BY <1>2 DEF Tick, CreateUser, vars
<1>3. CASE \E w \in Worker : Refuse(w)
  BY <1>1, <1>3 DEF Refuse, Done
<1>4. CASE \E w \in Worker : Login(w)
  BY <1>1, <1>4 DEF Login, LoginRead, LoginSucceed, Done
<1>5. CASE \E w \in Worker : WithCookie(w)
  BY <1>1, <1>5 DEF WithCookie, Arrive, Pass, Logout, ChangePassword, Restart, Done
<1>6. CASE \E w \in Worker : Admin(w)
  BY <1>1, <1>6 DEF Admin, AdminRead, SetUserStatus, ResetPassword, SeedReset,
                    RevokeSessions, DeleteUser, Done
<1> QED
  BY <1>2, <1>3, <1>4, <1>5, <1>6 DEF Next

-----------------------------------------------------------------------------
(* The two rules.                                                          *)

LEMMA LiveStep ==
  Shape /\ Bounded /\ Serial /\ LiveIsCurrent /\ [Next]_vars => LiveIsCurrent'
<1> SUFFICES ASSUME Shape, Bounded, Serial, LiveIsCurrent, [Next]_vars, ~overlap',
                    NEW s \in DOMAIN sessions', ~Revoked(sessions'[s])
             PROVE  LET u == sessions'[s].user_id
                    IN  users'[u].status = "active" /\ minted'[s] = users'[u].password.no
  BY DEF LiveIsCurrent
<1> DEFINE u == sessions'[s].user_id
<1>1. ~overlap
  BY OverlapStays
<1>2. SessionStep
  BY StepOfSessions
<1>3. minted \in [SessionId -> Nat] /\ DOMAIN sessions \subseteq issued /\ issued \subseteq SessionId
  BY DEF Shape, TypeOK, IssuedFirst
\* An active account whose password is the session's keeps both.
<1>4. ASSUME u \in User, users[u].status = "active", minted'[s] = users[u].password.no
      PROVE  users'[u].status = "active" /\ minted'[s] = users'[u].password.no
  <2>1. ~AllRevoked(sessions', u)
    BY DEF AllRevoked
  <2>2. Stays(u)
    BY <1>4, <2>1, AccountsStep DEF AccountStep
  <2>3. ASSUME NEW w \in Worker, At(w, "login", "read"), req[w].user = u
        PROVE  req[w].password = users[u].password
    BY <1>1, <2>3 DEF Serial, Current, At, Proved
  <2> QED
    BY <1>4, <2>2, <2>3 DEF Stays
<1>5. CASE s \in DOMAIN sessions
  <2>1. KeepsRow(sessions[s], sessions'[s])
    BY <1>2, <1>5 DEF SessionStep, KeepsTable
  <2>2. ~Revoked(sessions[s]) /\ u = sessions[s].user_id
    BY <2>1 DEF KeepsRow
  <2>3. u \in User
    BY <1>5, <2>2 DEF Shape, TypeOK, IsTable, Row
  <2>4. users[u].status = "active" /\ minted[s] = users[u].password.no
    BY <1>1, <1>5, <2>2 DEF LiveIsCurrent
  <2>5. minted'[s] = minted[s]
    BY <1>3, <1>5, WhoStarts DEF Starts
  <2> QED
    BY <1>4, <2>3, <2>4, <2>5
<1>6. CASE s \notin DOMAIN sessions
  <2>1. issued' # issued
    BY <1>2, <1>6 DEF SessionStep, IssuesNothing, Issues
  <2>2. PICK w \in Worker, s0 \in SessionId, m \in Time : Starts(w, s0, m)
    BY <2>1, WhoStarts
  <2> DEFINE r == req[w]
  <2>3. r.user \in User /\ IsTable(sessions) /\ s0 \notin DOMAIN sessions
    BY <1>3, <2>2 DEF Starts, Shape, TypeOK
  <2>4. sessions' = Start(sessions, r.sid, s0, r.user, m)
    BY <2>2 DEF Starts
  <2>5. s = s0 /\ sessions'[s] = NewRow(r.user, m)
    <3> HIDE DEF r
    <3> QED
      BY <1>6, <2>2, <2>3, <2>4, StartKeeps, StartTable
  <2>6. u = r.user
    BY <2>5 DEF NewRow
  <2>7. users[u].status = "active" /\ r.password = users[u].password
    BY <1>1, <2>2, <2>6 DEF Starts, Serial, Current
  <2>8. minted'[s] = r.password.no
    BY <1>3, <2>2, <2>5 DEF Starts
  <2> QED
    BY <1>4, <2>3, <2>6, <2>7, <2>8
<1> QED
  BY <1>5, <1>6

\* Until requests overlap, every session that is not revoked belongs to an
\* active account and was proved with the password in force.
THEOREM LiveCurrent == Spec => []LiveIsCurrent
<1>1. Init => LiveIsCurrent
  BY DEF Init, LiveIsCurrent
<1> QED
  BY <1>1, LiveStep, ShapeAlways, BoundedAlways, SerialAlways, PTL DEF Spec

Temporary(account) ==
  (account.status \in {"active", "suspended"} /\ account.password.by = "admin")
    => account.must_change

LEMMA TemporaryStep ==
  Shape /\ Serial /\ AdminPasswordIsTemporary /\ [Next]_vars => AdminPasswordIsTemporary'
<1> SUFFICES ASSUME Shape, Serial, AdminPasswordIsTemporary, [Next]_vars, ~overlap',
                    NEW u \in User
             PROVE  Temporary(users'[u])
  BY DEF AdminPasswordIsTemporary, Temporary, Exists
<1>0. users \in [User -> Account] /\ users[u] \in Account
  BY DEF Shape, TypeOK
<1>1. ~overlap /\ Temporary(users[u])
  BY OverlapStays DEF AdminPasswordIsTemporary, Temporary, Exists
<1>2. CASE users'[u] = users[u]
  BY <1>1, <1>2
<1>3. CASE Tick \/ (\E w \in Worker : Refuse(w)) \/ UNCHANGED vars
  BY <1>2, <1>3 DEF Tick, Refuse, vars
<1>4. ASSUME NEW v \in User, CreateUser(v) PROVE Temporary(users'[u])
  <2>1. users'[u] = users[u] \/ users'[u].must_change = TRUE
    BY <1>0, <1>4 DEF CreateUser
  <2> QED
    BY <1>2, <2>1 DEF Temporary
<1>5. ASSUME NEW w \in Worker, NEW s \in SessionId, LoginSucceed(w, s)
      PROVE  Temporary(users'[u])
  <2> DEFINE r == req[w]
  <2>1. CASE r.user # u \/ users' = users
    BY <1>0, <1>2, <1>5, <2>1 DEF LoginSucceed
  <2>2. CASE r.user = u /\ users' # users
    <3>1. r.password = users[u].password
      BY <1>1, <1>5, <2>2 DEF LoginSucceed, At, Serial, Current, Proved
    <3>2. users' = [users EXCEPT ![u].password = r.password, ![u].legacy = FALSE]
      BY <1>5, <2>2 DEF LoginSucceed
    <3>3. users'[u] = [users[u] EXCEPT !.password = r.password, !.legacy = FALSE]
      BY <1>0, <3>2
    <3>4. /\ users'[u].status = users[u].status
          /\ users'[u].must_change = users[u].must_change
          /\ users'[u].password = users[u].password
      BY <1>0, <3>1, <3>3 DEF Account
    <3> QED
      BY <1>1, <3>4 DEF Temporary
  <2> QED
    BY <2>1, <2>2
<1>6. ASSUME NEW w \in Worker, ChangePassword(w) PROVE Temporary(users'[u])
  <2>1. CASE req[w].user # u
    BY <1>0, <1>2, <1>6, <2>1 DEF ChangePassword
  <2>2. CASE req[w].user = u
    <3>1. users'[u] = WithPassword(users[u], req[w].due, "self")
      BY <1>0, <1>6, <2>2 DEF ChangePassword
    <3>2. users'[u].password = [no |-> passwords + 1, by |-> "self"]
      BY <1>0, <3>1 DEF WithPassword, Account
    <3>3. users'[u].password.by = "self"
      BY <3>2
    <3> QED
      BY <3>3 DEF Temporary
  <2> QED
    BY <2>1, <2>2
<1>7. ASSUME NEW w \in Worker, Admin(w) PROVE Temporary(users'[u])
  <2> DEFINE r == req[w]
  <2>1. CASE SetUserStatus(w)
    <3>1. CASE r.user # u
      BY <1>0, <1>2, <2>1, <3>1 DEF SetUserStatus
    <3>2. CASE r.user = u
      <4>1. /\ users'[u].must_change = users[u].must_change
            /\ users'[u].password = users[u].password
            /\ users[u].status \in {"active", "suspended"}
        BY <1>0, <2>1, <3>2 DEF SetUserStatus, Account, Exists
      <4> QED
        BY <1>1, <4>1 DEF Temporary
    <3> QED
      BY <3>1, <3>2
  <2>2. CASE ResetPassword(w)
    <3>1. CASE r.user # u
      BY <1>0, <1>2, <2>2, <3>1 DEF ResetPassword
    <3>2. CASE r.user = u
      <4>1. r.due = users[u].must_change
        BY <1>1, <2>2, <3>2 DEF ResetPassword, At, Serial, Current
      <4>2. users'[u] = WithPassword(users[u], r.due, "admin")
        BY <1>0, <2>2, <3>2 DEF ResetPassword
      <4>3. users'[u].must_change = TRUE
        <5>1. users'[u].must_change = IF r.due = TRUE THEN users[u].must_change ELSE TRUE
          BY <1>0, <4>2 DEF WithPassword, Account
        <5>2. users[u].must_change \in BOOLEAN
          BY <1>0 DEF Account
        <5> QED
          BY <4>1, <5>1, <5>2
      <4> QED
        BY <4>3 DEF Temporary
    <3> QED
      BY <3>1, <3>2
  <2>3. CASE DeleteUser(w)
    <3>1. CASE r.user # u
      BY <1>0, <1>2, <2>3, <3>1 DEF DeleteUser
    <3>2. CASE r.user = u
      BY <1>0, <2>3, <3>2 DEF DeleteUser, Temporary, Account
    <3> QED
      BY <3>1, <3>2
  <2>4. CASE SeedReset(w)
    <3>1. CASE r.user # u
      BY <1>0, <1>2, <2>4, <3>1 DEF SeedReset
    <3>2. CASE r.user = u
      <4>1. users'[u] = WithPassword(users[u], FALSE, "self")
        BY <1>0, <2>4, <3>2 DEF SeedReset
      <4>2. users'[u].password.by = "self"
        BY <1>0, <4>1 DEF WithPassword, Account
      <4> QED
        BY <4>2 DEF Temporary
    <3> QED
      BY <3>1, <3>2
  <2> QED
    BY <1>2, <1>7, <2>1, <2>2, <2>3, <2>4 DEF Admin, AdminRead, RevokeSessions
<1> QED
  BY <1>2, <1>3, <1>4, <1>5, <1>6, <1>7
     DEF Next, Login, LoginRead, WithCookie, Arrive, Pass, Logout, Restart

\* Until requests overlap, a password an administrator chose is due for a
\* change as long as it is in force.
THEOREM TemporaryPasswords == Spec => []AdminPasswordIsTemporary
<1>1. Init => AdminPasswordIsTemporary
  <2>1. \A a \in InitialAccounts : a.password.by = "self"
    <3>1. Nobody.password.by = "self"
      BY DEF Nobody, FirstPassword
    <3> QED
      BY <3>1 DEF InitialAccounts, Nobody
  <2> QED
    BY <2>1 DEF Init, AdminPasswordIsTemporary
<1> QED
  BY <1>1, TemporaryStep, ShapeAlways, SerialAlways, PTL DEF Spec
===============================================================================
