------------------------------ MODULE Lockout -------------------------------
(***************************************************************************)
(* The sign-in lockout (backend/identity/lockout.py) as the login route    *)
(* drives it: failed sign-ins to one account, counted per client address.  *)
(* Rows of different accounts never meet, so the account is fixed and the  *)
(* `login_locks' table is a function from the addresses that have a row.   *)
(*                                                                         *)
(* A sign-in reads its row twice, once in locked() and once in             *)
(* record_failure(), and writes what it computed from the second reading.  *)
(* Each reading is an action and so is the write with its commit: another  *)
(* sign-in from the same address may come between.  One that resets an     *)
(* expired lock writes first and holds the row until it commits, so the    *)
(* rest of it is that one action.                                          *)
(***************************************************************************)
EXTENDS Integers

CONSTANTS
  Address,       \* client addresses
  Worker,        \* the threads serving requests
  NULL,
  LOCK_AFTER, LOCK_BASE, LOCK_CAP, FORGET_AFTER,
  MaxTime,       \* bound: the clock stops here
  MaxCount       \* bound: failures counted on each address's row

ASSUME LockoutAssumption ==
  /\ LOCK_AFTER \in Nat \ {0, 1}
  /\ LOCK_BASE \in Nat \ {0}
  /\ LOCK_CAP \in Nat \ {0}
  /\ FORGET_AFTER \in Nat
  /\ MaxTime \in Nat
  /\ MaxCount \in [Address -> Nat]
  /\ NULL \notin Int

VARIABLES
  now,           \* the clock
  locks,         \* the `login_locks' rows of the account
  answered,      \* failures answered 401 since the count last began (not stored)
  req,           \* the sign-ins in flight
  overlap        \* have two sign-ins ever been in flight at once? (history)

vars == <<now, locks, answered, req, overlap>>

Row == [failed_count : Nat,
        strikes      : Nat,
        locked_until : Nat \cup {NULL},
        updated_at   : Nat]

Request == [at      : {"idle", "judged", "counting"},
            address : Address \cup {NULL},
            moment  : Nat,
            hash_ok : BOOLEAN,
            saw     : Row \cup {NULL},   \* the row at its last reading
            stale   : BOOLEAN]           \* that row has been deleted since

Free == [at |-> "idle", address |-> NULL, moment |-> 0,
         hash_ok |-> FALSE, saw |-> NULL, stale |-> FALSE]

-----------------------------------------------------------------------------
(* lockout.py, on one row.                                                 *)

\* Mutant: the doubling has no end.
LockLengthUncapped(strikes) == LOCK_BASE * 2 ^ strikes

\* How long the lock that follows `strikes' earlier ones lasts.
LockLength(strikes) ==
  IF LOCK_BASE * 2 ^ strikes <= LOCK_CAP THEN LOCK_BASE * 2 ^ strikes ELSE LOCK_CAP

InForce(row, m) == row.locked_until # NULL /\ row.locked_until > m

Expired(row, m) == row.locked_until # NULL /\ row.locked_until <= m

NewRow(m) == [failed_count |-> 0, strikes |-> 0, locked_until |-> NULL, updated_at |-> m]

\* Neither locked nor recently used.
Quiet(row, m) ==
  /\ row.updated_at + FORGET_AFTER < m
  /\ row.locked_until = NULL \/ row.locked_until < m

\* Mutant: a failure during a lock starts it again.
StartsLockAgain(saw, m) == saw.failed_count + 1 >= LOCK_AFTER

\* Does a failure at m, counted on the row `saw', start a lock?
StartsLock(saw, m) == saw.failed_count + 1 >= LOCK_AFTER /\ ~InForce(saw, m)

\* What record_failure writes over the row as it is now, having read `saw'.
CountFailure(row, saw, m) ==
  [row EXCEPT !.failed_count = saw.failed_count + 1,
              !.updated_at   = m,
              !.locked_until = IF StartsLock(saw, m) THEN m + LockLength(saw.strikes)
                                  ELSE row.locked_until,
              !.strikes      = IF StartsLock(saw, m) THEN saw.strikes + 1 ELSE row.strikes]

\* Mutant: the lock goes and the count stays, as it did before the row had one
\* lock per address.
ResetExpiredKeepingCount(row, m) == [row EXCEPT !.locked_until = NULL, !.updated_at = m]

\* Mutant: the escalation is forgotten with the lock.
ResetExpiredAndStrikes(row, m) ==
  [row EXCEPT !.failed_count = 0, !.strikes = 0, !.locked_until = NULL, !.updated_at = m]

\* What locked() writes over a row whose lock has expired.
ResetExpired(row, m) ==
  [row EXCEPT !.failed_count = 0, !.locked_until = NULL, !.updated_at = m]

-----------------------------------------------------------------------------
(* The table.                                                              *)

Put(a, row) == [b \in DOMAIN locks \cup {a} |-> IF b = a THEN row ELSE locks[b]]

Only(S) == [b \in S |-> locks[b]]

\* The rows a failure at m finds left after _sweep.
Kept(m) == {b \in DOMAIN locks : ~Quiet(locks[b], m)}

\* Requests that had read a row of an address outside S now hold a row that
\* no longer exists.
Outdate(S) ==
  [v \in Worker |-> IF req[v].saw # NULL /\ req[v].address \notin S
                    THEN [req[v] EXCEPT !.stale = TRUE] ELSE req[v]]

-----------------------------------------------------------------------------
Init ==
  /\ now = 0
  /\ locks = [a \in {} |-> NULL]
  /\ answered = [a \in Address |-> 0]
  /\ req = [w \in Worker |-> Free]
  /\ overlap = FALSE

Tick ==
  /\ now < MaxTime
  /\ now' = now + 1
  /\ UNCHANGED <<locks, answered, req, overlap>>

\* login up to locked(): the password is checked, the row is read.
Attempt(w, a, hash_ok) ==
  /\ req[w] = Free
  /\ a \in DOMAIN locks => locks[a].failed_count < MaxCount[a]
  /\ req' = [req EXCEPT ![w] =
       [Free EXCEPT !.at = "judged", !.address = a, !.moment = now,
                    !.hash_ok = hash_ok,
                    !.saw = IF a \in DOMAIN locks THEN locks[a] ELSE NULL]]
  /\ overlap' = (overlap \/ \E v \in Worker \ {w} : req[v] # Free)
  /\ UNCHANGED <<now, locks, answered>>

\* The row exists and its lock has expired: locked() resets it, and whatever
\* comes next works on that row until the commit.
AfterExpiry(w) ==
  LET r == req[w]
      a == r.address
      S == Kept(r.moment) \cup {a}
  IN
  /\ r.at = "judged"
  /\ r.saw # NULL /\ ~r.stale
  /\ Expired(r.saw, r.moment)
  /\ IF r.hash_ok
     THEN /\ locks' = Only(DOMAIN locks \ {a})
          /\ answered' = [answered EXCEPT ![a] = 0]
          /\ req' = [Outdate(DOMAIN locks \ {a}) EXCEPT ![w] = Free]
     ELSE LET row == ResetExpired(locks[a], r.moment) IN
          /\ locks' = [b \in S |-> IF b = a THEN CountFailure(row, row, r.moment)
                                   ELSE locks[b]]
          /\ answered' = [b \in Address |->
               IF b = a THEN (IF Expired(locks[a], r.moment) THEN 1 ELSE answered[a] + 1)
               ELSE IF b \in S THEN answered[b] ELSE 0]
          /\ req' = [Outdate(S) EXCEPT ![w] = Free]
  /\ UNCHANGED <<now, overlap>>

\* The right password, and no lock in force when it was judged: lockout.clear.
Succeed(w) ==
  LET r == req[w]
      S == DOMAIN locks \ {r.address}
  IN
  /\ r.at = "judged"
  /\ r.hash_ok
  /\ r.saw # NULL => r.saw.locked_until = NULL
  /\ locks' = Only(S)
  /\ answered' = [answered EXCEPT ![r.address] = 0]
  /\ req' = [Outdate(S) EXCEPT ![w] = Free]
  /\ UNCHANGED <<now, overlap>>

\* A wrong password, or a lock in force: record_failure sweeps and reads.
Fail(w) ==
  LET r == req[w]
      S == Kept(r.moment)
  IN
  /\ r.at = "judged"
  /\ \/ ~r.hash_ok /\ (r.saw # NULL => r.saw.locked_until = NULL)
     \/ r.saw # NULL /\ InForce(r.saw, r.moment)
  /\ locks' = Only(S)
  /\ answered' = [b \in Address |-> IF b \in S THEN answered[b] ELSE 0]
  /\ req' = [Outdate(S) EXCEPT ![w] =
       [r EXCEPT !.at = "counting", !.stale = FALSE,
                 !.saw = IF r.address \in S THEN locks[r.address] ELSE NULL]]
  /\ UNCHANGED <<now, overlap>>

\* ... and writes and commits: an UPDATE of the row it read, or an INSERT that
\* a row written meanwhile turns away.
Record(w) ==
  LET r == req[w]
      a == r.address
  IN
  /\ r.at = "counting"
  /\ ~r.stale
  /\ IF r.saw = NULL
     THEN /\ a \notin DOMAIN locks
          /\ locks' = Put(a, CountFailure(NewRow(r.moment), NewRow(r.moment), r.moment))
     ELSE locks' = Put(a, CountFailure(locks[a], r.saw, r.moment))
  /\ answered' = [answered EXCEPT ![a] = @ + 1]
  /\ req' = [req EXCEPT ![w] = Free]
  /\ UNCHANGED <<now, overlap>>

\* The request dies without a commit: the row it read is gone, the row it
\* would insert exists, or the process stops.
Break(w) ==
  /\ req[w] # Free
  /\ req' = [req EXCEPT ![w] = Free]
  /\ UNCHANGED <<now, locks, answered, overlap>>

\* accounts.set_password, or the seed resetting one: a new password clears every
\* lock on the account.
NewPassword ==
  /\ DOMAIN locks # {}
  /\ locks' = Only({})
  /\ answered' = [a \in Address |-> 0]
  /\ req' = Outdate({})
  /\ UNCHANGED <<now, overlap>>

SignIn(w) ==
  \/ \E a \in Address, hash_ok \in BOOLEAN : Attempt(w, a, hash_ok)
  \/ AfterExpiry(w)
  \/ Succeed(w)
  \/ Fail(w)
  \/ Record(w)
  \/ Break(w)

Next == Tick \/ NewPassword \/ \E w \in Worker : SignIn(w)

Spec == Init /\ [][Next]_vars

\* Time passes.  Nothing else is promised: nobody has to sign in.
FairSpec == Spec /\ WF_vars(Tick)

-----------------------------------------------------------------------------
LockedNow(a) == a \in DOMAIN locks /\ InForce(locks[a], now)

\* lockout.py:3-5: no lock reaches further than LOCK_CAP from now, however
\* many the address has earned.
LockBounded ==
  \A a \in DOMAIN locks :
    locks[a].locked_until # NULL => locks[a].locked_until <= now + LOCK_CAP

\* The rows by their types, and no lock longer than LOCK_CAP (lockout.py:3-5).
TypeOK ==
  /\ now \in Nat
  /\ DOMAIN locks \subseteq Address
  /\ locks \in [DOMAIN locks -> Row]
  /\ answered \in [Address -> Nat]
  /\ req \in [Worker -> Request]
  /\ overlap \in BOOLEAN
  /\ LockBounded

-----------------------------------------------------------------------------
(* Whatever overlaps.                                                      *)

\* What happens at one address leaves the lock of every other address as it is.
\* Only a row nobody is locked by may be forgotten.
OthersUntouched ==
  \A w \in Worker : (req[w] # Free /\ req'[w].at # req[w].at) =>
    \A b \in DOMAIN locks \ {req[w].address} :
      \/ b \in DOMAIN locks' /\ locks'[b] = locks[b]
      \/ b \notin DOMAIN locks' /\ ~LockedNow(b)

\* lockout.py:10-14: however long somebody goes on failing, a lock ends.  It
\* is asked of locks that can end before the clock's bound.
LockEnds ==
  \A a \in Address :
    (LockedNow(a) /\ now + LOCK_CAP <= MaxTime) ~> ~LockedNow(a)

-----------------------------------------------------------------------------
(* Until two sign-ins overlap, and not beyond.                             *)

\* lockout.py:3-5, 10-12: the account is locked for an address exactly when
\* LOCK_AFTER failures have been answered since its count last began.
FailuresLock ==
  ~overlap =>
    \A a \in DOMAIN locks :
      answered[a] >= LOCK_AFTER <=> locks[a].locked_until # NULL

\* Failures during a lock never extend it.
LocksStand ==
  \A a \in Address :
    LockedNow(a) /\ LockedNow(a)' => locks'[a].locked_until <= locks[a].locked_until

\* Each lock from an address counts one more strike than the last, until a
\* sign-in or a new password clears the address.
StrikesEscalate ==
  \A a \in DOMAIN locks \cap DOMAIN locks' :
    /\ locks'[a].strikes >= locks[a].strikes
    /\ (locks[a].locked_until = NULL /\ locks'[a].locked_until # NULL)
         => locks'[a].strikes = locks[a].strikes + 1

\* lockout.py:3-19: a step of a sign-in leaves the locks of other addresses alone,
\* whatever overlaps; and, until sign-ins do, one in force stands as it is, and
\* the next one counts for more.
LocksMoveByTheRules ==
  [][OthersUntouched /\ (~overlap' => LocksStand /\ StrikesEscalate)]_vars
=============================================================================
