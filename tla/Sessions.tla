------------------------------ MODULE Sessions ------------------------------
(***************************************************************************)
(* The `sessions' table and the operations of backend/identity/sessions.py *)
(* on it, as operators from a table to a table.  The state machine that    *)
(* calls them, request by request, is SignIn.                              *)
(*                                                                         *)
(* A table is a function whose domain is the set of session ids that have  *)
(* a row: inserting a row extends the domain and deleting one shrinks it.  *)
(* The row is keyed by the id itself where the code keys it by the id's    *)
(* SHA-256; nothing below distinguishes the two.  The columns `ip' and     *)
(* `user_agent' are written once and read by no rule, and are left out.    *)
(***************************************************************************)
EXTENDS Integers

CONSTANTS
  User,          \* the accounts
  SessionId,     \* the random ids sessions.start may draw
  NULL,          \* SQL NULL and Python None
  ABSOLUTE,      \* SESSION_ABSOLUTE_HOURS, in ticks of the clock
  IDLE,          \* SESSION_IDLE_MINUTES
  TOUCH_EVERY,   \* the idle window moves at most this often
  KEEP_ENDED     \* an ended row is kept this long

Time == Nat

\* config.py:90-97 accepts only positive windows; the other two are the
\* module constants of sessions.py (a minute and a day).
ASSUME WindowsAssumption ==
  /\ ABSOLUTE \in Nat \ {0}
  /\ IDLE \in Nat \ {0}
  /\ TOUCH_EVERY \in Nat \ {0}
  /\ KEEP_ENDED \in Nat

ASSUME NullAssumption ==
  /\ NULL \notin Time
  /\ NULL \notin User
  /\ NULL \notin SessionId

Row == [user_id             : User,
        created_at          : Time,
        last_seen_at        : Time,
        absolute_expires_at : Time,
        idle_expires_at     : Time,
        revoked_at          : Time \cup {NULL}]

-----------------------------------------------------------------------------
(* The rules on one row.                                                   *)

\* Mutant: the window is not kept inside the absolute one.
IdleEndUncapped(m, absolute_end) == m + IDLE

\* The idle window from moment m, never past the session's absolute end.
IdleEnd(m, absolute_end) ==
  IF m + IDLE <= absolute_end THEN m + IDLE ELSE absolute_end

NewRow(u, m) ==
  [user_id             |-> u,
   created_at          |-> m,
   last_seen_at        |-> m,
   absolute_expires_at |-> m + ABSOLUTE,
   idle_expires_at     |-> IdleEnd(m, m + ABSOLUTE),
   revoked_at          |-> NULL]

Revoked(row) == row.revoked_at # NULL

Ended(row, m) ==
  \/ Revoked(row)
  \/ row.absolute_expires_at <= m
  \/ row.idle_expires_at <= m

\* Ended more than KEEP_ENDED before m.
LongEnded(row, m) ==
  \/ Revoked(row) /\ row.revoked_at + KEEP_ENDED < m
  \/ row.absolute_expires_at + KEEP_ENDED < m
  \/ row.idle_expires_at + KEEP_ENDED < m

-----------------------------------------------------------------------------
(* The operations.                                                         *)

Check(table, sid, m) ==
  IF sid \notin DOMAIN table THEN "not_signed_in"
  ELSE IF Ended(table[sid], m) THEN "session_expired"
  ELSE "ok"

\* The columns a request made at m writes when it pushes the idle window of
\* the row it read: none within TOUCH_EVERY of the last time, and the window
\* itself only when its end moves.
TouchColumns(row, m) ==
  IF m - row.last_seen_at < TOUCH_EVERY THEN {}
  ELSE {"last_seen_at"} \cup
       (IF IdleEnd(m, row.absolute_expires_at) # row.idle_expires_at
        THEN {"idle_expires_at"} ELSE {})

\* Mutant: the row is written back whole, as it was when it was read.
TouchWholeRow(table, sid, m, columns) ==
  [table EXCEPT ![sid] =
     [@ EXCEPT !.last_seen_at = m, !.revoked_at = NULL,
               !.idle_expires_at = IdleEnd(m, table[sid].absolute_expires_at)]]

\* Mutant: a session in use never reaches its absolute end.
TouchSliding(table, sid, m, columns) ==
  [table EXCEPT ![sid] =
     [@ EXCEPT !.last_seen_at = m, !.idle_expires_at = m + IDLE,
               !.absolute_expires_at = m + ABSOLUTE]]

\* That UPDATE.  It names the row by its key, so whatever else was written to
\* the row since it was read stays.
Touch(table, sid, m, columns) ==
  LET row == table[sid]
      idle_end == IF "idle_expires_at" \in columns
                  THEN IdleEnd(m, row.absolute_expires_at) ELSE row.idle_expires_at
  IN  [table EXCEPT ![sid] = [row EXCEPT !.last_seen_at = m, !.idle_expires_at = idle_end]]

RevokeRow(row, m) ==
  IF Revoked(row) THEN row ELSE [row EXCEPT !.revoked_at = m]

\* Revoke the one session sid, if it has a row: sign-out, and what start does
\* to the session the browser held before.
End(table, sid, m) ==
  IF sid \in DOMAIN table
  THEN [table EXCEPT ![sid] = RevokeRow(@, m)]
  ELSE table

\* Mutant: sessions that have run out are passed over.
RevokeAllInForce(table, u, m) ==
  [s \in DOMAIN table |->
     IF table[s].user_id = u /\ ~Ended(table[s], m)
     THEN RevokeRow(table[s], m) ELSE table[s]]

RevokeAll(table, u, m) ==
  [s \in DOMAIN table |->
     IF table[s].user_id = u THEN RevokeRow(table[s], m) ELSE table[s]]

\* Mutant: an ended row is deleted at the next sign-in.
SweepAtOnce(table, m) ==
  [s \in {t \in DOMAIN table : ~Ended(table[t], m)} |-> table[s]]

Sweep(table, m) ==
  [s \in {t \in DOMAIN table : ~LongEnded(table[t], m)} |-> table[s]]

\* Mutant: the session the browser held is left alone.
StartKeepingPrevious(table, previous, sid, u, m) ==
  LET kept == Sweep(table, m)
  IN  [s \in DOMAIN kept \cup {sid} |->
         IF s = sid THEN NewRow(u, m) ELSE kept[s]]

\* A new session sid for u, presented by a browser that held `previous'.
Start(table, previous, sid, u, m) ==
  LET kept == Sweep(End(table, previous, m), m)
  IN  [s \in DOMAIN kept \cup {sid} |->
         IF s = sid THEN NewRow(u, m) ELSE kept[s]]

\* The rows that go with a deleted account (ON DELETE CASCADE).
DropUser(table, u) ==
  [s \in {t \in DOMAIN table : table[t].user_id # u} |-> table[s]]
=============================================================================
