--------------------------- MODULE LockoutProofs ----------------------------
(***************************************************************************)
(* Proofs about Lockout, for any addresses, threads and lengths of locks:  *)
(* the rows keep their types and no lock reaches past the cap; while       *)
(* sign-ins do not overlap, the count of failures tells which address is   *)
(* locked; and locks move only by the rules.                               *)
(***************************************************************************)
EXTENDS Lockout, FiniteSetTheorems, TLAPS

-----------------------------------------------------------------------------
(* One row.                                                                *)

\* A power of two is a number: it counts the sets of a finite set.
LEMMA PowerType == ASSUME NEW n \in Nat PROVE 2 ^ n \in Nat
<1>1. IsFiniteSet(1..n) /\ Cardinality(1..n) = n
  BY FS_Interval
<1>2. IsFiniteSet(SUBSET (1..n)) /\ Cardinality(SUBSET (1..n)) = 2 ^ n
  BY <1>1, FS_SUBSET
<1>3. Cardinality(SUBSET (1..n)) \in Nat
  BY <1>2, FS_CardinalityType
<1> QED
  BY <1>2, <1>3

\* lockout.py:70-76: however many strikes, no lock is longer than the cap.
LEMMA LockLengthType ==
  ASSUME NEW n \in Nat
  PROVE  LockLength(n) \in Nat /\ LockLength(n) <= LOCK_CAP
<1>1. PICK p \in Nat : p = 2 ^ n
  BY PowerType
<1>2. LOCK_BASE * p \in Nat /\ LOCK_CAP \in Nat
  BY LockoutAssumption
<1>3. LockLength(n) = IF LOCK_BASE * p <= LOCK_CAP THEN LOCK_BASE * p ELSE LOCK_CAP
  BY <1>1 DEF LockLength
<1> QED
  BY <1>2, <1>3

\* A lock no further away than the cap.
Near(row, m) == row.locked_until # NULL => row.locked_until <= m + LOCK_CAP

\* lockout.py:126-139: what a failure writes over a row, having read `saw'.
LEMMA CountedRow ==
  ASSUME NEW row \in Row, NEW saw \in Row, NEW m \in Nat
  PROVE  /\ CountFailure(row, saw, m) \in Row
         /\ CountFailure(row, saw, m).failed_count = saw.failed_count + 1
         /\ StartsLock(saw, m) =>
              /\ CountFailure(row, saw, m).strikes = saw.strikes + 1
              /\ CountFailure(row, saw, m).locked_until = m + LockLength(saw.strikes)
              /\ CountFailure(row, saw, m).locked_until # NULL
         /\ ~StartsLock(saw, m) =>
              /\ CountFailure(row, saw, m).strikes = row.strikes
              /\ CountFailure(row, saw, m).locked_until = row.locked_until
<1> DEFINE strikes == IF StartsLock(saw, m) THEN saw.strikes + 1 ELSE row.strikes
           until   == IF StartsLock(saw, m) THEN m + LockLength(saw.strikes) ELSE row.locked_until
           one     == [row EXCEPT !.failed_count = saw.failed_count + 1]
           two     == [one EXCEPT !.updated_at = m]
           three   == [two EXCEPT !.locked_until = until]
           new     == CountFailure(row, saw, m)
<1>1. /\ saw.failed_count \in Nat /\ saw.strikes \in Nat /\ row.strikes \in Nat
      /\ row.locked_until \in Nat \cup {NULL}
  BY DEF Row
<1>2. LockLength(saw.strikes) \in Nat
  BY <1>1, LockLengthType
<1>3. new = [three EXCEPT !.strikes = strikes]
  BY DEF CountFailure
<1>4. /\ strikes \in Nat /\ until \in Nat \cup {NULL}
      /\ StartsLock(saw, m) => until # NULL
  BY <1>1, <1>2, LockoutAssumption
<1> HIDE DEF new, strikes, until
<1>5. one \in Row /\ one.failed_count = saw.failed_count + 1
  BY <1>1 DEF Row
<1> HIDE DEF one
<1>6. two \in Row /\ two.failed_count = saw.failed_count + 1
  BY <1>5 DEF Row
<1> HIDE DEF two
<1>7. three \in Row /\ three.locked_until = until /\ three.failed_count = saw.failed_count + 1
  BY <1>4, <1>6 DEF Row
<1> HIDE DEF three
<1>8. /\ new \in Row /\ new.locked_until = until /\ new.strikes = strikes
      /\ new.failed_count = saw.failed_count + 1
  BY <1>3, <1>4, <1>7 DEF Row
<1> QED
  BY <1>4, <1>8 DEF new, strikes, until

\* A row that says how many failures were answered, and is locked when they are
\* LOCK_AFTER, does so after the next.
LEMMA CountedAgrees ==
  ASSUME NEW row \in Row, NEW m \in Nat, NEW n \in Nat, row.failed_count = n,
         n >= LOCK_AFTER <=> row.locked_until # NULL,
         NEW new, new = CountFailure(row, row, m)
  PROVE  new.failed_count = n + 1 /\ (n + 1 >= LOCK_AFTER <=> new.locked_until # NULL)
<1>1. /\ new.failed_count = row.failed_count + 1
      /\ StartsLock(row, m) => new.locked_until # NULL
      /\ ~StartsLock(row, m) => new.locked_until = row.locked_until
  BY CountedRow
<1> QED
  BY <1>1, LockoutAssumption DEF StartsLock, InForce

LEMMA CountedNear ==
  ASSUME NEW row \in Row, NEW saw \in Row, NEW m \in Nat, NEW t \in Nat, m <= t, Near(row, t)
  PROVE  CountFailure(row, saw, m) \in Row /\ Near(CountFailure(row, saw, m), t)
<1>1. saw.strikes \in Nat
  BY DEF Row
<1>2. PICK k \in Nat : k = LockLength(saw.strikes) /\ k <= LOCK_CAP
  BY <1>1, LockLengthType
<1>3. PICK new \in Row : /\ new = CountFailure(row, saw, m)
                         /\ new.locked_until = m + k \/ new.locked_until = row.locked_until
  BY <1>2, CountedRow
<1> QED
  BY <1>2, <1>3, LockoutAssumption DEF Near

LEMMA NewRowType ==
  ASSUME NEW m \in Nat
  PROVE  /\ NewRow(m) \in Row /\ NewRow(m).locked_until = NULL
         /\ NewRow(m).failed_count = 0 /\ NewRow(m).strikes = 0
BY DEF NewRow, Row

LEMMA ResetRow ==
  ASSUME NEW row \in Row, NEW m \in Nat
  PROVE  /\ ResetExpired(row, m) \in Row /\ ResetExpired(row, m).locked_until = NULL
         /\ ResetExpired(row, m).failed_count = 0 /\ ResetExpired(row, m).strikes = row.strikes
BY DEF ResetExpired, Row

\* A lock that some moment no later than now finds gone holds nobody.
LEMMA QuietIsFree ==
  ASSUME NEW row \in Row, NEW m \in Nat, NEW t \in Nat, m <= t, Quiet(row, m) \/ Expired(row, m)
  PROVE  ~InForce(row, t)
BY LockoutAssumption DEF Quiet, Expired, InForce, Row

\* The first failure on a row begins no lock.
LEMMA FirstFailure ==
  ASSUME NEW row \in Row, row.failed_count = 0, NEW m PROVE ~StartsLock(row, m)
BY LockoutAssumption DEF StartsLock, Row

-----------------------------------------------------------------------------
(* The invariant.                                                          *)

TableOK(table, m) ==
  /\ DOMAIN table \subseteq Address
  /\ table \in [DOMAIN table -> Row]
  /\ \A a \in DOMAIN table : Near(table[a], m)

\* What a sign-in in flight has of its own.
InFlightOK(r, table, m) ==
  /\ r.at = "idle" <=> r = Free
  /\ r.at # "idle" => r.address \in Address /\ r.moment <= m
  /\ r.saw # NULL /\ ~r.stale => r.address \in DOMAIN table

Shape ==
  /\ now \in Nat
  /\ TableOK(locks, now)
  /\ answered \in [Address -> Nat]
  /\ req \in [Worker -> Request]
  /\ overlap \in BOOLEAN
  /\ \A w \in Worker : InFlightOK(req[w], locks, now)

\* Until sign-ins overlap there is one at most, and what it has read is so, but
\* for a row that has gone: a new password takes every one away.
Alone == \A v, w \in Worker : req[v] # Free /\ req[w] # Free => v = w

Current(r, table) ==
  r.at # "idle" =>
    IF r.address \in DOMAIN table
    THEN r.saw = table[r.address] /\ ~r.stale
    ELSE r.saw = NULL \/ r.stale

\* The count on a row is what has been answered, and the account is locked from
\* that address when it is LOCK_AFTER.
Agree(table, counts) ==
  \A a \in Address :
    IF a \in DOMAIN table
    THEN /\ table[a].failed_count = counts[a]
         /\ counts[a] >= LOCK_AFTER <=> table[a].locked_until # NULL
    ELSE counts[a] = 0

Serial ==
  ~overlap =>
    Alone /\ Agree(locks, answered) /\ \A w \in Worker : Current(req[w], locks)

Inv == Shape /\ Serial

LEMMA ShapeIsTyped == Shape => TypeOK
BY DEF Shape, TableOK, Near, TypeOK, LockBounded

LEMMA SerialCounts == Inv => FailuresLock
BY DEF Inv, Shape, Serial, TableOK, Agree, FailuresLock

LEMMA FreeType ==
  /\ Free \in Request /\ Free.at = "idle" /\ Free.saw = NULL
  /\ \A table, m : InFlightOK(Free, table, m) /\ Current(Free, table)
BY DEF Free, Request, InFlightOK, Current

LEMMA InitInv == Init => Inv
<1> SUFFICES ASSUME Init PROVE Inv
  OBVIOUS
<1>1. TableOK(locks, now) /\ DOMAIN locks = {}
  BY DEF Init, TableOK
<1>2. \A w \in Worker : req[w] = Free
  BY DEF Init
<1>3. Shape
  BY <1>1, <1>2, FreeType DEF Init, Shape
<1>4. Agree(locks, answered)
  BY <1>1 DEF Init, Agree
<1> QED
  BY <1>2, <1>3, <1>4, FreeType DEF Inv, Serial, Alone
-----------------------------------------------------------------------------
(* What rows that go leave of the others.                                  *)

LEMMA Outdated ==
  ASSUME Shape, NEW S, NEW v \in Worker
  PROVE  /\ Outdate(S)[v] \in Request
         /\ Outdate(S)[v].at = req[v].at /\ Outdate(S)[v].address = req[v].address
         /\ Outdate(S)[v].moment = req[v].moment /\ Outdate(S)[v].saw = req[v].saw
         /\ Outdate(S)[v].stale <=> req[v].stale \/ (req[v].saw # NULL /\ req[v].address \notin S)
         /\ Outdate(S)[v] = Free <=> req[v] = Free
<1>1. req[v] \in Request
  BY DEF Shape
<1>2. PICK b \in BOOLEAN : b = req[v].stale
  BY <1>1, Zenon DEF Request
<1>3. Outdate(S)[v] = IF req[v].saw # NULL /\ req[v].address \notin S
                      THEN [req[v] EXCEPT !.stale = TRUE] ELSE req[v]
  BY DEF Outdate
<1>4. CASE ~(req[v].saw # NULL /\ req[v].address \notin S)
  BY <1>1, <1>2, <1>3, <1>4
<1>5. CASE req[v].saw # NULL /\ req[v].address \notin S
  <2> DEFINE s == [req[v] EXCEPT !.stale = TRUE]
  <2>1. s \in Request /\ s.at = req[v].at /\ s.address = req[v].address /\ s.moment = req[v].moment
        /\ s.saw = req[v].saw /\ s.stale = TRUE
    BY <1>1 DEF Request
  <2>2. s # Free /\ req[v] # Free
    BY <1>5, <2>1, FreeType
  <2> HIDE DEF s
  <2> QED
    BY <1>3, <1>5, <2>1, <2>2 DEF s
<1> QED
  BY <1>4, <1>5

\* S is left of the table, which may gain rows, and w goes on as r.
LEMMA RequestsShape ==
  ASSUME Shape, now' = now, NEW S, S \subseteq DOMAIN locks',
         NEW w \in Worker, NEW r \in Request, InFlightOK(r, locks', now),
         req' = [Outdate(S) EXCEPT ![w] = r]
  PROVE  req' \in [Worker -> Request] /\ \A v \in Worker : InFlightOK(req'[v], locks', now')
<1>1. Outdate(S) \in [Worker -> Request]
  <2>1. \A v \in Worker : Outdate(S)[v] \in Request
    BY Outdated
  <2> QED
    BY <2>1 DEF Outdate
<1>2. ASSUME NEW v \in Worker PROVE InFlightOK(req'[v], locks', now')
  <2>1. CASE v = w
    BY <1>1, <2>1
  <2>2. CASE v # w
    <3>1. req'[v] = Outdate(S)[v]
      BY <1>1, <2>2
    <3>2. InFlightOK(req[v], locks, now)
      BY DEF Shape
    <3> QED
      BY <3>1, <3>2, Outdated DEF InFlightOK
  <2> QED
    BY <2>1, <2>2
<1> QED
  BY <1>1, <1>2

LEMMA OnlyTable ==
  ASSUME Shape, NEW S, S \subseteq DOMAIN locks
  PROVE  TableOK(Only(S), now) /\ DOMAIN Only(S) = S /\ \A b \in S : Only(S)[b] = locks[b]
BY DEF Shape, TableOK, Only

\* S without a is left of the table, and `row' is written at a.
LEMMA WrittenTable ==
  ASSUME Shape, NEW a \in Address, NEW row \in Row, Near(row, now),
         NEW S, a \in S, S \ {a} \subseteq DOMAIN locks,
         NEW table, table = [b \in S |-> IF b = a THEN row ELSE locks[b]]
  PROVE  /\ TableOK(table, now)
         /\ DOMAIN table = S /\ table[a] = row
         /\ \A b \in S \ {a} : table[b] = locks[b]
<1>1. DOMAIN table = S /\ table[a] = row /\ \A b \in S \ {a} : table[b] = locks[b]
  OBVIOUS
<1>2. S \subseteq Address
  BY DEF Shape, TableOK
<1>3. \A b \in S : table[b] \in Row /\ Near(table[b], now)
  BY <1>1 DEF Shape, TableOK
<1>4. table \in [S -> Row]
  BY <1>3
<1> QED
  BY <1>1, <1>2, <1>3, <1>4 DEF TableOK

\* The counts after rows have gone.
LEMMA OnlyAgree ==
  ASSUME Agree(locks, answered), NEW S, S \subseteq DOMAIN locks, DOMAIN locks \subseteq Address
  PROVE  Agree(Only(S), [b \in Address |-> IF b \in S THEN answered[b] ELSE 0])
BY DEF Agree, Only

\* Who is alone, and ends or goes on, still is.
LEMMA StaysAlone ==
  ASSUME Shape, Alone, NEW S, NEW w \in Worker, req[w] # Free, NEW r \in Request,
         req' = [Outdate(S) EXCEPT ![w] = r], Current(r, locks')
  PROVE  Alone' /\ \A v \in Worker : Current(req'[v], locks')
<1>1. req'[w] = r
  BY DEF Outdate
<1>2. ASSUME NEW v \in Worker, v # w PROVE req'[v] = Free
  <2>1. req[v] = Free
    BY <1>2 DEF Alone
  <2>2. req'[v] = Outdate(S)[v]
    BY <1>2 DEF Outdate
  <2> QED
    BY <2>1, <2>2, Outdated
<1> QED
  BY <1>1, <1>2, FreeType DEF Alone
-----------------------------------------------------------------------------
(* The steps, one lemma each.                                              *)

LEMMA TickStep == ASSUME Inv, Tick PROVE Inv'
<1>1. now \in Nat /\ now' = now + 1 /\ LOCK_CAP \in Nat /\ NULL \notin Int
  BY LockoutAssumption DEF Tick, Inv, Shape
<1>2. UNCHANGED <<locks, answered, req, overlap>>
  BY DEF Tick
<1>3. ASSUME NEW a \in DOMAIN locks PROVE Near(locks[a], now')
  <2>1. locks[a] \in Row /\ Near(locks[a], now)
    BY <1>3 DEF Inv, Shape, TableOK
  <2> QED
    BY <1>1, <2>1 DEF Near, Row
<1>4. TableOK(locks', now')
  BY <1>2, <1>3 DEF Inv, Shape, TableOK
<1>5. ASSUME NEW w \in Worker PROVE InFlightOK(req'[w], locks', now')
  <2>1. req[w] \in Request /\ InFlightOK(req[w], locks, now)
    BY DEF Inv, Shape
  <2> QED
    BY <1>1, <1>2, <2>1 DEF InFlightOK, Request
<1>6. Shape'
  BY <1>1, <1>2, <1>4, <1>5 DEF Inv, Shape
<1>7. Serial'
  BY <1>2 DEF Inv, Serial, Alone
<1> QED
  BY <1>6, <1>7 DEF Inv

LEMMA AttemptStep ==
  ASSUME Inv, NEW w \in Worker, NEW a \in Address, NEW hash_ok \in BOOLEAN,
         Attempt(w, a, hash_ok)
  PROVE  Inv'
<1> DEFINE saw == IF a \in DOMAIN locks THEN locks[a] ELSE NULL
           r   == [Free EXCEPT !.at = "judged", !.address = a, !.moment = now,
                               !.hash_ok = hash_ok, !.saw = saw]
<1>1. saw \in Row \cup {NULL} /\ now \in Nat
  BY DEF Inv, Shape, TableOK
<1>2. /\ r \in Request
      /\ r.at = "judged" /\ r.address = a /\ r.moment = now /\ r.saw = saw /\ ~r.stale
  <2> HIDE DEF saw
  <2> DEFINE one   == [Free EXCEPT !.at = "judged"]
             two   == [one EXCEPT !.address = a]
             three == [two EXCEPT !.moment = now]
             four  == [three EXCEPT !.hash_ok = hash_ok]
  <2>1. one \in Request /\ one.at = "judged" /\ ~one.stale
    BY DEF Free, Request
  <2> HIDE DEF one
  <2>2. two \in Request /\ two.at = "judged" /\ two.address = a /\ ~two.stale
    BY <2>1 DEF Request
  <2> HIDE DEF two
  <2>3. /\ three \in Request /\ three.at = "judged" /\ three.address = a /\ three.moment = now
        /\ ~three.stale
    BY <1>1, <2>2 DEF Request
  <2> HIDE DEF three
  <2>4. /\ four \in Request /\ four.at = "judged" /\ four.address = a /\ four.moment = now
        /\ ~four.stale
    BY <1>1, <2>3 DEF Request
  <2>5. r = [four EXCEPT !.saw = saw]
    BY DEF one, two, three
  <2> HIDE DEF four, r
  <2> QED
    BY <1>1, <2>4, <2>5 DEF Request
<1>3. /\ req' = [req EXCEPT ![w] = r] /\ req[w] = Free
      /\ overlap' = (overlap \/ \E v \in Worker \ {w} : req[v] # Free)
      /\ UNCHANGED <<now, locks, answered>>
  BY DEF Attempt
<1> HIDE DEF r
<1>4. r \in Request /\ r # Free
  BY <1>2, FreeType
<1>5. InFlightOK(r, locks, now) /\ Current(r, locks)
  BY <1>1, <1>2, <1>4 DEF InFlightOK, Current
<1>6. \A v \in Worker : req'[v] = IF v = w THEN r ELSE req[v]
  BY <1>3 DEF Inv, Shape
<1>7. Shape'
  BY <1>3, <1>4, <1>5, <1>6 DEF Inv, Shape
<1>8. ASSUME ~overlap' PROVE Alone' /\ \A v \in Worker : Current(req'[v], locks')
  <2>1. \A v \in Worker \ {w} : req'[v] = Free
    BY <1>3, <1>6, <1>8
  <2> QED
    BY <1>3, <1>5, <1>6, <2>1, FreeType DEF Alone
<1>9. Serial'
  BY <1>3, <1>8 DEF Inv, Serial
<1> QED
  BY <1>7, <1>9 DEF Inv

\* What a sign-in under way knows.
LEMMA Mine ==
  ASSUME Shape, NEW w \in Worker, req[w].at # "idle"
  PROVE  /\ req[w] \in Request /\ req[w] # Free /\ req[w].address \in Address
         /\ req[w].moment \in Nat /\ req[w].moment <= now
         /\ req[w].saw \in Row \cup {NULL} /\ req[w].hash_ok \in BOOLEAN
         /\ req[w].saw # NULL /\ ~req[w].stale =>
              /\ req[w].address \in DOMAIN locks
              /\ locks[req[w].address] \in Row /\ Near(locks[req[w].address], now)
<1>1. req[w] \in Request /\ InFlightOK(req[w], locks, now)
  BY DEF Shape
<1>2. req[w].hash_ok \in BOOLEAN
  BY <1>1, Zenon DEF Request
<1>3. req[w].moment \in Nat /\ req[w].saw \in Row \cup {NULL}
  BY <1>1 DEF Request
<1> QED
  BY <1>1, <1>2, <1>3 DEF InFlightOK, Shape, TableOK

\* A sign-in ends: S is left of the table.
LEMMA EndStep ==
  ASSUME Inv, NEW w \in Worker, req[w] # Free, NEW S, S \subseteq DOMAIN locks',
         req' = [Outdate(S) EXCEPT ![w] = Free],
         TableOK(locks', now), answered' \in [Address -> Nat],
         ~overlap => Agree(locks', answered'), UNCHANGED <<now, overlap>>
  PROVE  Inv'
<1>1. Shape /\ Serial
  BY DEF Inv
<1>2. req' \in [Worker -> Request] /\ \A v \in Worker : InFlightOK(req'[v], locks', now')
  BY <1>1, FreeType, RequestsShape
<1>3. Shape'
  BY <1>1, <1>2 DEF Shape
<1>4. ASSUME ~overlap PROVE Alone' /\ \A v \in Worker : Current(req'[v], locks')
  <2>1. Alone
    BY <1>1, <1>4 DEF Serial
  <2> QED
    BY <1>1, <2>1, FreeType, StaysAlone
<1>5. Serial'
  BY <1>4 DEF Serial
<1> QED
  BY <1>3, <1>5 DEF Inv

LEMMA SucceedStep == ASSUME Inv, NEW w \in Worker, Succeed(w) PROVE Inv'
<1> DEFINE a == req[w].address
           S == DOMAIN locks \ {a}
<1>1. /\ req[w].at # "idle" /\ locks' = Only(S) /\ answered' = [answered EXCEPT ![a] = 0]
      /\ req' = [Outdate(S) EXCEPT ![w] = Free] /\ UNCHANGED <<now, overlap>>
  BY DEF Succeed
<1>2. Shape /\ Serial
  BY DEF Inv
<1>3. req[w] # Free /\ a \in Address
  BY <1>1, <1>2, Mine
<1>4. TableOK(locks', now) /\ DOMAIN locks' = S /\ \A b \in S : locks'[b] = locks[b]
  BY <1>1, <1>2, OnlyTable
<1>5. answered' \in [Address -> Nat]
  BY <1>1, <1>2 DEF Shape
<1>6. ~overlap => Agree(locks', answered')
  BY <1>1, <1>2, <1>4 DEF Serial, Agree, Shape
<1> QED
  BY <1>1, <1>3, <1>4, <1>5, <1>6, EndStep

LEMMA NewPasswordStep == ASSUME Inv, NewPassword PROVE Inv'
<1>1. /\ locks' = Only({}) /\ answered' = [a \in Address |-> 0] /\ req' = Outdate({})
      /\ UNCHANGED <<now, overlap>>
  BY DEF NewPassword
<1>2. Shape /\ Serial
  BY DEF Inv
<1>3. TableOK(locks', now) /\ DOMAIN locks' = {}
  BY <1>1, <1>2 DEF Shape, TableOK, Only
<1>4. ASSUME NEW v \in Worker
      PROVE  /\ req'[v] \in Request /\ InFlightOK(req'[v], locks', now)
             /\ Current(req'[v], locks')
             /\ req'[v] = Free <=> req[v] = Free
  <2> DEFINE none == {}
  <2>1. req'[v] = Outdate(none)[v]
    BY <1>1
  <2>2. \A b : b \notin none
    OBVIOUS
  <2>3. InFlightOK(req[v], locks, now)
    BY <1>2 DEF Shape
  <2> HIDE DEF none
  <2> QED
    BY <1>2, <1>3, <2>1, <2>2, <2>3, Outdated DEF InFlightOK, Current
<1>5. req' \in [Worker -> Request]
  BY <1>1, <1>4 DEF Outdate
<1>6. Shape'
  BY <1>1, <1>2, <1>3, <1>4, <1>5 DEF Shape
<1>7. Agree(locks', answered')
  BY <1>1, <1>3 DEF Agree
<1>8. Serial'
  BY <1>1, <1>2, <1>4, <1>7 DEF Serial, Alone
<1> QED
  BY <1>6, <1>8 DEF Inv

LEMMA BreakStep == ASSUME Inv, NEW w \in Worker, Break(w) PROVE Inv'
<1>1. /\ req[w] # Free /\ req' = [req EXCEPT ![w] = Free]
      /\ UNCHANGED <<now, locks, answered, overlap>>
  BY DEF Break
<1>2. \A v \in Worker : req'[v] = IF v = w THEN Free ELSE req[v]
  BY <1>1 DEF Inv, Shape
<1>3. Shape'
  BY <1>1, <1>2, FreeType DEF Inv, Shape
<1>4. Serial'
  BY <1>1, <1>2, FreeType DEF Inv, Serial, Alone
<1> QED
  BY <1>3, <1>4 DEF Inv
LEMMA FailStep == ASSUME Inv, NEW w \in Worker, Fail(w) PROVE Inv'
<1> DEFINE a   == req[w].address
           S   == Kept(req[w].moment)
           saw == IF a \in S THEN locks[a] ELSE NULL
<1>1. /\ req[w].at = "judged" /\ locks' = Only(S)
      /\ answered' = [b \in Address |-> IF b \in S THEN answered[b] ELSE 0]
      /\ req' = [Outdate(S) EXCEPT ![w] =
                   [req[w] EXCEPT !.at = "counting", !.stale = FALSE, !.saw = saw]]
      /\ UNCHANGED <<now, overlap>>
  BY DEF Fail
<1>2. Shape /\ Serial /\ S \subseteq DOMAIN locks
  BY DEF Inv, Kept
<1>3. req[w] \in Request /\ req[w] # Free /\ a \in Address /\ req[w].moment <= now
  BY <1>1, <1>2, Mine
<1>4. TableOK(locks', now) /\ DOMAIN locks' = S /\ \A b \in S : locks'[b] = locks[b]
  BY <1>1, <1>2, OnlyTable
<1>5. saw \in Row \cup {NULL} /\ (a \in S => saw = locks'[a]) /\ (a \notin S => saw = NULL)
  BY <1>2, <1>4 DEF Shape, TableOK
<1> HIDE DEF S, saw
<1>6. PICK r : r = [req[w] EXCEPT !.at = "counting", !.stale = FALSE, !.saw = saw]
  OBVIOUS
<1>7. /\ r \in Request /\ r.at = "counting" /\ r.address = a /\ r.moment = req[w].moment
      /\ r.saw = saw /\ ~r.stale
  <2> DEFINE one == [req[w] EXCEPT !.at = "counting"]
             two == [one EXCEPT !.stale = FALSE]
  <2>1. one \in Request /\ one.at = "counting" /\ one.address = a /\ one.moment = req[w].moment
    BY <1>3 DEF Request
  <2>2. r = [two EXCEPT !.saw = saw]
    BY <1>6
  <2> HIDE DEF one
  <2>3. /\ two \in Request /\ two.at = "counting" /\ two.address = a /\ two.moment = req[w].moment
        /\ ~two.stale
    BY <2>1 DEF Request
  <2> HIDE DEF two
  <2> QED
    BY <1>5, <2>2, <2>3 DEF Request
<1>8. InFlightOK(r, locks', now) /\ Current(r, locks')
  BY <1>3, <1>4, <1>5, <1>7, FreeType DEF InFlightOK, Current
<1>9. req' = [Outdate(S) EXCEPT ![w] = r]
  BY <1>1, <1>6
<1>10. req' \in [Worker -> Request] /\ \A v \in Worker : InFlightOK(req'[v], locks', now')
  BY <1>1, <1>2, <1>4, <1>7, <1>8, <1>9, RequestsShape
<1>11. answered' \in [Address -> Nat]
  BY <1>1, <1>2 DEF Shape
<1>12. Shape'
  BY <1>1, <1>2, <1>4, <1>10, <1>11 DEF Shape
<1>13. ASSUME ~overlap PROVE Alone' /\ \A v \in Worker : Current(req'[v], locks')
  <2>1. Alone
    BY <1>2, <1>13 DEF Serial
  <2> QED
    BY <1>2, <1>3, <1>7, <1>8, <1>9, <2>1, StaysAlone
<1>14. ~overlap => Agree(locks', answered')
  BY <1>1, <1>2, OnlyAgree DEF Serial, Shape, TableOK
<1>15. Serial'
  BY <1>1, <1>13, <1>14 DEF Serial
<1> QED
  BY <1>12, <1>15 DEF Inv

\* lockout.py:126-139: the row a failure writes, over the one it read or a new one.
RecordedRow(w) ==
  LET r == req[w] IN
  IF r.saw = NULL THEN CountFailure(NewRow(r.moment), NewRow(r.moment), r.moment)
  ELSE CountFailure(locks[r.address], r.saw, r.moment)

LEMMA RecordEffect ==
  ASSUME Shape, NEW w \in Worker, Record(w)
  PROVE  LET a == req[w].address IN
         /\ a \in Address /\ RecordedRow(w) \in Row /\ Near(RecordedRow(w), now)
         /\ TableOK(locks', now) /\ DOMAIN locks' = DOMAIN locks \cup {a}
         /\ locks'[a] = RecordedRow(w) /\ \A b \in DOMAIN locks \ {a} : locks'[b] = locks[b]
         /\ req[w].saw = NULL => a \notin DOMAIN locks
         /\ req[w].saw # NULL => a \in DOMAIN locks
<1> DEFINE a == req[w].address
           m == req[w].moment
<1>1. req[w].at # "idle" /\ ~req[w].stale /\ locks' = Put(a, RecordedRow(w))
  BY DEF Record, RecordedRow
<1>2. /\ a \in Address /\ m \in Nat /\ m <= now /\ req[w].saw \in Row \cup {NULL}
      /\ req[w].saw # NULL => a \in DOMAIN locks /\ locks[a] \in Row /\ Near(locks[a], now)
  BY <1>1, Mine
<1>3. now \in Nat /\ DOMAIN locks \subseteq Address
  BY DEF Shape, TableOK
<1>4. NewRow(m) \in Row /\ Near(NewRow(m), now)
  BY <1>2, NewRowType DEF Near
<1>5. RecordedRow(w) \in Row /\ Near(RecordedRow(w), now)
  <2>1. CASE req[w].saw = NULL
    BY <1>2, <1>3, <1>4, <2>1, CountedNear DEF RecordedRow
  <2>2. CASE req[w].saw # NULL
    BY <1>2, <1>3, <2>2, CountedNear DEF RecordedRow
  <2> QED
    BY <2>1, <2>2
<1>6. locks' = [b \in DOMAIN locks \cup {a} |-> IF b = a THEN RecordedRow(w) ELSE locks[b]]
  BY <1>1 DEF Put
<1>7. /\ TableOK(locks', now) /\ DOMAIN locks' = DOMAIN locks \cup {a}
      /\ locks'[a] = RecordedRow(w)
      /\ \A b \in (DOMAIN locks \cup {a}) \ {a} : locks'[b] = locks[b]
  BY <1>2, <1>5, <1>6, WrittenTable
<1>8. req[w].saw = NULL => a \notin DOMAIN locks
  BY DEF Record
<1> QED
  BY <1>2, <1>5, <1>7, <1>8

LEMMA RecordStep == ASSUME Inv, NEW w \in Worker, Record(w) PROVE Inv'
<1> DEFINE a == req[w].address
           m == req[w].moment
<1>1. /\ req[w].at # "idle" /\ answered' = [answered EXCEPT ![a] = @ + 1]
      /\ req' = [req EXCEPT ![w] = Free] /\ UNCHANGED <<now, overlap>>
  BY DEF Record
<1>2. Shape /\ Serial
  BY DEF Inv
<1>3. req[w] # Free /\ m \in Nat
  BY <1>1, <1>2, Mine
<1>4. /\ a \in Address /\ TableOK(locks', now) /\ DOMAIN locks' = DOMAIN locks \cup {a}
      /\ locks'[a] = RecordedRow(w) /\ \A b \in DOMAIN locks \ {a} : locks'[b] = locks[b]
      /\ req[w].saw = NULL => a \notin DOMAIN locks
      /\ req[w].saw # NULL => a \in DOMAIN locks
  BY <1>2, RecordEffect
<1>5. answered' \in [Address -> Nat] /\ answered[a] \in Nat
  BY <1>1, <1>2, <1>4 DEF Shape
<1>6. \A v \in Worker : req'[v] = IF v = w THEN Free ELSE req[v]
  BY <1>1, <1>2 DEF Shape
<1>7. \A v \in Worker : InFlightOK(req[v], locks', now)
  BY <1>2, <1>4 DEF Shape, InFlightOK
<1>8. Shape'
  BY <1>1, <1>2, <1>4, <1>5, <1>6, <1>7, FreeType DEF Shape
<1>9. ASSUME ~overlap PROVE Agree(locks', answered')
  <2>1. Agree(locks, answered) /\ Current(req[w], locks)
    BY <1>2, <1>9 DEF Serial
  <2>2. ASSUME NEW b \in Address \ {a}
        PROVE  IF b \in DOMAIN locks'
               THEN /\ locks'[b].failed_count = answered'[b]
                    /\ answered'[b] >= LOCK_AFTER <=> locks'[b].locked_until # NULL
               ELSE answered'[b] = 0
    <3>1. answered'[b] = answered[b] /\ (b \in DOMAIN locks' <=> b \in DOMAIN locks)
      BY <1>1, <1>2, <1>4 DEF Shape
    <3>2. b \in DOMAIN locks => locks'[b] = locks[b]
      BY <1>4
    <3> QED
      BY <2>1, <3>1, <3>2 DEF Agree
  <2>3. answered'[a] = answered[a] + 1
    BY <1>1, <1>2, <1>4 DEF Shape
  <2>4. CASE req[w].saw = NULL
    <3>1. answered[a] = 0
      BY <1>4, <2>1, <2>4 DEF Agree
    <3>2. PICK row : row = NewRow(m)
      OBVIOUS
    <3>3. row \in Row /\ row.failed_count = 0 /\ row.locked_until = NULL
      BY <1>3, <3>2, NewRowType
    <3>4. ~(0 >= LOCK_AFTER)
      BY LockoutAssumption
    <3>5. PICK new : new = CountFailure(row, row, m)
      OBVIOUS
    <3>6. new.failed_count = 0 + 1 /\ (0 + 1 >= LOCK_AFTER <=> new.locked_until # NULL)
      BY <1>3, <3>3, <3>4, <3>5, CountedAgrees
    <3>7. locks'[a] = new
      BY <1>4, <2>4, <3>2, <3>5 DEF RecordedRow
    <3> QED
      BY <1>4, <2>2, <2>3, <3>1, <3>6, <3>7 DEF Agree
  <2>5. CASE req[w].saw # NULL
    <3>1. req[w].saw = locks[a] /\ ~req[w].stale
      BY <1>1, <1>4, <2>1, <2>5 DEF Current
    <3>2. PICK row : row = locks[a]
      OBVIOUS
    <3>3. row \in Row
      BY <1>2, <1>4, <2>5, <3>2 DEF Shape, TableOK
    <3>4. row.failed_count = answered[a] /\ (answered[a] >= LOCK_AFTER <=> row.locked_until # NULL)
      BY <1>4, <2>1, <2>5, <3>2 DEF Agree
    <3>5. PICK new : new = CountFailure(row, row, m)
      OBVIOUS
    <3>6. /\ new.failed_count = answered[a] + 1
          /\ answered[a] + 1 >= LOCK_AFTER <=> new.locked_until # NULL
      BY <1>3, <1>5, <3>3, <3>4, <3>5, CountedAgrees
    <3>7. locks'[a] = new
      BY <1>4, <2>5, <3>1, <3>2, <3>5 DEF RecordedRow
    <3> QED
      BY <1>4, <2>2, <2>3, <3>6, <3>7 DEF Agree
  <2> QED
    BY <2>4, <2>5
<1>10. Serial'
  BY <1>1, <1>2, <1>6, <1>9, FreeType DEF Serial, Alone
<1> QED
  BY <1>8, <1>10 DEF Inv
\* lockout.py:101-110, 126-139: the row a failure leaves whose lock had expired.
BegunAgain(w) ==
  LET row == ResetExpired(locks[req[w].address], req[w].moment) IN
  CountFailure(row, row, req[w].moment)

\* The first failure of a new count, and as many strikes as before.
LEMMA FirstCounted ==
  ASSUME NEW row \in Row, row.failed_count = 0, row.locked_until = NULL, NEW m \in Nat,
         NEW new, new = CountFailure(row, row, m)
  PROVE  /\ new \in Row
         /\ new.failed_count = 1 /\ new.locked_until = NULL /\ new.strikes = row.strikes
<1>1. ~StartsLock(row, m)
  BY FirstFailure
<1>2. new \in Row /\ new.failed_count = row.failed_count + 1
  BY CountedRow
<1>3. new.strikes = row.strikes /\ new.locked_until = row.locked_until
  BY <1>1, CountedRow
<1> QED
  BY <1>2, <1>3

LEMMA BegunAgainRow ==
  ASSUME NEW row \in Row, NEW m \in Nat,
         NEW new, new = CountFailure(ResetExpired(row, m), ResetExpired(row, m), m)
  PROVE  /\ new \in Row
         /\ new.failed_count = 1 /\ new.locked_until = NULL /\ new.strikes = row.strikes
<1> DEFINE begun == ResetExpired(row, m)
<1>1. /\ begun \in Row /\ begun.failed_count = 0 /\ begun.locked_until = NULL
      /\ begun.strikes = row.strikes
  BY ResetRow
<1>2. new = CountFailure(begun, begun, m)
  OBVIOUS
<1> HIDE DEF begun
<1> QED
  BY <1>1, <1>2, FirstCounted

\* What either end of such a sign-in does to the table: rows of S are left, and
\* that of its own address is gone or begun again.
LEMMA AfterExpiryEffect ==
  ASSUME Shape, NEW w \in Worker, AfterExpiry(w)
  PROVE  LET a == req[w].address
             S == IF req[w].hash_ok THEN DOMAIN locks \ {a} ELSE Kept(req[w].moment) \cup {a}
         IN
         /\ req[w] # Free /\ a \in DOMAIN locks /\ a \in Address
         /\ S \subseteq DOMAIN locks /\ DOMAIN locks' = S /\ TableOK(locks', now)
         /\ \A b \in S \ {a} : locks'[b] = locks[b]
         /\ req[w].hash_ok => a \notin S
         /\ ~req[w].hash_ok =>
              /\ locks'[a].failed_count = 1 /\ locks'[a].locked_until = NULL
              /\ locks'[a].strikes = locks[a].strikes
<1> DEFINE a == req[w].address
           m == req[w].moment
           S == IF req[w].hash_ok THEN DOMAIN locks \ {a} ELSE Kept(m) \cup {a}
<1>1. req[w].at # "idle" /\ req[w].saw # NULL /\ ~req[w].stale
  BY DEF AfterExpiry
<1>2. /\ req[w] # Free /\ a \in Address /\ m \in Nat /\ m <= now /\ a \in DOMAIN locks
      /\ locks[a] \in Row /\ now \in Nat
  BY <1>1, Mine DEF Shape
<1>3. S \subseteq DOMAIN locks
  BY <1>2 DEF Kept
<1>4. CASE req[w].hash_ok
  <2>1. PICK T : T = DOMAIN locks \ {a}
    OBVIOUS
  <2>2. S = T /\ locks' = Only(T) /\ T \subseteq DOMAIN locks
    BY <1>4, <2>1 DEF AfterExpiry
  <2>3. TableOK(locks', now) /\ DOMAIN locks' = T /\ \A b \in T : locks'[b] = locks[b]
    BY <2>2, OnlyTable
  <2> QED
    BY <1>2, <1>3, <1>4, <2>1, <2>2, <2>3
<1>5. CASE ~req[w].hash_ok
  <2>1. PICK T : T = Kept(m) \cup {a}
    OBVIOUS
  <2>2. PICK new : new = BegunAgain(w)
    OBVIOUS
  <2>3. S = T /\ locks' = [b \in T |-> IF b = a THEN new ELSE locks[b]]
    BY <1>5, <2>1, <2>2 DEF AfterExpiry, BegunAgain
  <2>4. /\ new \in Row /\ Near(new, now)
        /\ new.failed_count = 1 /\ new.locked_until = NULL /\ new.strikes = locks[a].strikes
    BY <1>2, <2>2, BegunAgainRow DEF BegunAgain, Near
  <2>5. a \in T /\ T \ {a} \subseteq DOMAIN locks
    BY <1>3, <2>1, <2>3
  <2>6. /\ TableOK(locks', now) /\ DOMAIN locks' = T /\ locks'[a] = new
        /\ \A b \in T \ {a} : locks'[b] = locks[b]
    BY <1>2, <2>3, <2>4, <2>5, WrittenTable
  <2> QED
    BY <1>2, <1>3, <1>5, <2>3, <2>4, <2>6
<1>6. req[w].hash_ok \in BOOLEAN
  BY <1>1, Mine
<1> QED
  BY <1>4, <1>5, <1>6

LEMMA AfterExpiryStep == ASSUME Inv, NEW w \in Worker, AfterExpiry(w) PROVE Inv'
<1> DEFINE a == req[w].address
           m == req[w].moment
<1>0. Shape /\ Serial
  BY DEF Inv
<1>1. PICK S : S = IF req[w].hash_ok THEN DOMAIN locks \ {a} ELSE Kept(m) \cup {a}
  OBVIOUS
<1>2. /\ req[w] # Free /\ a \in DOMAIN locks /\ a \in Address
      /\ S \subseteq DOMAIN locks /\ DOMAIN locks' = S /\ TableOK(locks', now)
      /\ \A b \in S \ {a} : locks'[b] = locks[b]
      /\ req[w].hash_ok => a \notin S
      /\ ~req[w].hash_ok => locks'[a].failed_count = 1 /\ locks'[a].locked_until = NULL
  BY <1>0, <1>1, AfterExpiryEffect
<1>3. /\ req' = [Outdate(S) EXCEPT ![w] = Free] /\ UNCHANGED <<now, overlap>>
      /\ req[w].saw # NULL /\ ~req[w].stale /\ Expired(req[w].saw, m) /\ req[w].at = "judged"
  BY <1>1 DEF AfterExpiry
<1>4. answered \in [Address -> Nat]
  BY <1>0 DEF Shape
<1>5. CASE req[w].hash_ok
  <2>1. answered' = [answered EXCEPT ![a] = 0] /\ S = DOMAIN locks \ {a}
    BY <1>1, <1>5 DEF AfterExpiry
  <2>2. answered' \in [Address -> Nat]
    BY <1>4, <2>1
  <2>3. ~overlap => Agree(locks', answered')
    BY <1>0, <1>2, <1>4, <2>1 DEF Serial, Agree
  <2> QED
    BY <1>2, <1>3, <2>2, <2>3, EndStep
<1>6. CASE ~req[w].hash_ok
  <2>1. /\ answered' = [b \in Address |->
             IF b = a THEN (IF Expired(locks[a], m) THEN 1 ELSE answered[a] + 1)
             ELSE IF b \in S THEN answered[b] ELSE 0]
        /\ a \in S
    BY <1>1, <1>6 DEF AfterExpiry
  <2>2. answered' \in [Address -> Nat]
    BY <1>2, <1>4, <2>1
  <2>3. ASSUME ~overlap PROVE Agree(locks', answered')
    <3>1. Agree(locks, answered) /\ req[w].saw = locks[a]
      BY <1>0, <1>2, <1>3, <2>3 DEF Serial, Current
    <3>2. answered'[a] = 1
      BY <1>2, <1>3, <2>1, <3>1
    <3>3. \A b \in Address \ {a} : answered'[b] = IF b \in S THEN answered[b] ELSE 0
      BY <2>1
    <3>4. ~(1 >= LOCK_AFTER)
      BY LockoutAssumption
    <3> QED
      BY <1>2, <1>6, <2>1, <3>1, <3>2, <3>3, <3>4 DEF Agree
  <2> QED
    BY <1>2, <1>3, <2>2, <2>3, EndStep
<1>7. req[w].hash_ok \in BOOLEAN
  BY <1>0, <1>3, Mine
<1> QED
  BY <1>5, <1>6, <1>7

LEMMA InvStep == Inv /\ [Next]_vars => Inv'
<1> SUFFICES ASSUME Inv, [Next]_vars PROVE Inv'
  OBVIOUS
<1>1. CASE Tick
  BY <1>1, TickStep
<1>2. CASE NewPassword
  BY <1>2, NewPasswordStep
<1>3. ASSUME NEW w \in Worker, SignIn(w) PROVE Inv'
  BY <1>3, AttemptStep, AfterExpiryStep, SucceedStep, FailStep, RecordStep, BreakStep DEF SignIn
<1>4. CASE UNCHANGED vars
  BY <1>4 DEF vars, Inv, Shape, Serial, Alone
<1> QED
  BY <1>1, <1>2, <1>3, <1>4 DEF Next

\* lockout.py:3-5, 61-76: whatever overlaps, the rows keep their types and no lock
\* reaches further than the cap from now, however many strikes it counts.
THEOREM TypeCorrect == Spec => []TypeOK
<1> QED
  BY InitInv, InvStep, ShapeIsTyped, PTL DEF Spec, Inv

\* lockout.py:3-5, 10-12: until sign-ins overlap, the account is locked for an address
\* exactly when LOCK_AFTER failures have been answered since its count last began.
THEOREM FailuresAreCounted == Spec => []FailuresLock
<1> QED
  BY InitInv, InvStep, SerialCounts, PTL DEF Spec
-----------------------------------------------------------------------------
(* What a step does to locks.                                              *)

\* A step that moves a sign-in on is a step of that one.
LEMMA MoverActs ==
  ASSUME Shape, Next, NEW v \in Worker, req'[v].at # req[v].at
  PROVE  SignIn(v)
<1>1. req \in [Worker -> Request] /\ \A S : Outdate(S)[v].at = req[v].at
  BY Outdated DEF Shape
<1>2. ~Tick
  BY DEF Tick
<1>3. ~NewPassword
  BY <1>1 DEF NewPassword
<1>4. PICK w \in Worker : SignIn(w)
  BY <1>2, <1>3 DEF Next
<1>5. ASSUME w # v PROVE req'[v].at = req[v].at
  <2>1. \A S, r : [Outdate(S) EXCEPT ![w] = r][v] = Outdate(S)[v]
    BY <1>5 DEF Outdate
  <2>2. ASSUME AfterExpiry(w) \/ Succeed(w) \/ Fail(w)
        PROVE  req'[v].at = req[v].at
    <3>1. \E S, r : req' = [Outdate(S) EXCEPT ![w] = r]
      BY <2>2, Zenon DEF AfterExpiry, Succeed, Fail
    <3>2. PICK S, r : req' = [Outdate(S) EXCEPT ![w] = r]
      BY <3>1
    <3>3. req'[v] = Outdate(S)[v]
      BY <2>1, <3>2
    <3> QED
      BY <1>1, <3>3
  <2>4. CASE Record(w) \/ Break(w) \/ \E a \in Address, h \in BOOLEAN : Attempt(w, a, h)
    BY <1>1, <1>5, <2>4 DEF Record, Break, Attempt
  <2> QED
    BY <1>4, <2>2, <2>4 DEF SignIn
<1> QED
  BY <1>4, <1>5

\* A row of another address stays, or goes and locked nobody.
Untouched(b) ==
  \/ b \in DOMAIN locks' /\ locks'[b] = locks[b]
  \/ b \notin DOMAIN locks' /\ ~LockedNow(b)

LEMMA KeptOrFree ==
  ASSUME Shape, NEW m \in Nat, m <= now, NEW b \in DOMAIN locks, b \notin Kept(m)
  PROVE  ~LockedNow(b)
<1>1. locks[b] \in Row /\ now \in Nat /\ Quiet(locks[b], m)
  BY DEF Shape, TableOK, Kept
<1> QED
  BY <1>1, QuietIsFree DEF LockedNow

LEMMA LeavesOthers ==
  ASSUME Shape, NEW w \in Worker, SignIn(w), NEW b \in DOMAIN locks, b # req[w].address
  PROVE  Untouched(b)
<1>1. CASE Break(w) \/ \E a \in Address, h \in BOOLEAN : Attempt(w, a, h)
  BY <1>1 DEF Break, Attempt, Untouched
<1>2. CASE Record(w)
  BY <1>2, RecordEffect DEF Untouched
<1>3. CASE Succeed(w)
  BY <1>3 DEF Succeed, Only, Untouched
<1>4. CASE Fail(w)
  <2>1. req[w].moment \in Nat /\ req[w].moment <= now
    BY <1>4, Mine DEF Fail
  <2> QED
    BY <1>4, <2>1, KeptOrFree DEF Fail, Only, Untouched
<1>5. CASE AfterExpiry(w)
  <2>1. req[w].moment \in Nat /\ req[w].moment <= now /\ req[w].hash_ok \in BOOLEAN
    BY <1>5, Mine DEF AfterExpiry
  <2>2. PICK S : S = IF req[w].hash_ok THEN DOMAIN locks \ {req[w].address}
                     ELSE Kept(req[w].moment) \cup {req[w].address}
    OBVIOUS
  <2>3. DOMAIN locks' = S /\ \A c \in S \ {req[w].address} : locks'[c] = locks[c]
    BY <1>5, <2>2, AfterExpiryEffect
  <2> QED
    BY <2>1, <2>2, <2>3, KeptOrFree DEF Untouched
<1> QED
  BY <1>1, <1>2, <1>3, <1>4, <1>5 DEF SignIn

\* A row that stays: its lock no later while in force, its strikes as many or, with
\* a new lock, one more.
Moves(row, new, m) ==
  /\ InForce(row, m) => new.locked_until <= row.locked_until
  /\ new.strikes >= row.strikes
  /\ row.locked_until = NULL /\ new.locked_until # NULL => new.strikes = row.strikes + 1

LEMMA Stands == ASSUME NEW row \in Row, NEW m \in Nat PROVE Moves(row, row, m)
BY LockoutAssumption DEF Moves, InForce, Row

LEMMA CountedMoves ==
  ASSUME NEW row \in Row, NEW m \in Nat, NEW t \in Nat, m <= t,
         NEW new, new = CountFailure(row, row, m)
  PROVE  Moves(row, new, t)
<1>1. /\ StartsLock(row, m) => new.strikes = row.strikes + 1 /\ new.locked_until # NULL
      /\ ~StartsLock(row, m) => new.strikes = row.strikes /\ new.locked_until = row.locked_until
  BY CountedRow
<1>2. row.strikes \in Nat /\ row.locked_until \in Nat \cup {NULL}
  BY DEF Row
<1>3. CASE StartsLock(row, m)
  <2>1. ~InForce(row, t)
    BY <1>2, <1>3, LockoutAssumption DEF StartsLock, InForce
  <2> QED
    BY <1>1, <1>2, <1>3, <2>1 DEF Moves
<1>4. CASE ~StartsLock(row, m)
  BY <1>1, <1>2, <1>4, LockoutAssumption DEF Moves, InForce
<1> QED
  BY <1>3, <1>4

LEMMA RowsMove ==
  ASSUME Inv, Next, ~overlap', NEW a \in DOMAIN locks, a \in DOMAIN locks'
  PROVE  Moves(locks[a], locks'[a], now)
<1>1. Shape /\ locks[a] \in Row /\ now \in Nat
  BY DEF Inv, Shape, TableOK
<1>2. CASE locks'[a] = locks[a]
  BY <1>1, <1>2, Stands
<1>3. CASE locks'[a] # locks[a]
  <2>1. ~Tick
    BY <1>3 DEF Tick
  <2>2. ~NewPassword
    BY DEF NewPassword, Only
  <2>3. PICK w \in Worker : SignIn(w)
    BY <2>1, <2>2 DEF Next
  <2>4. a = req[w].address
    BY <1>1, <1>3, <2>3, LeavesOthers DEF Untouched
  <2>5. CASE Record(w)
    <3>1. /\ req[w].at # "idle" /\ ~overlap
          /\ req[w].moment \in Nat /\ req[w].moment <= now
      BY <1>1, <2>5, Mine DEF Record
    <3>2. req[w].saw # NULL /\ locks'[a] = RecordedRow(w)
      BY <1>1, <2>4, <2>5, RecordEffect
    <3>3. req[w].saw = locks[a]
      BY <2>4, <3>1 DEF Inv, Serial, Current
    <3>4. locks'[a] = CountFailure(locks[a], locks[a], req[w].moment)
      BY <2>4, <3>2, <3>3 DEF RecordedRow
    <3>5. PICK row, new, m : row = locks[a] /\ new = locks'[a] /\ m = req[w].moment
      OBVIOUS
    <3> QED
      BY <1>1, <3>1, <3>4, <3>5, CountedMoves
  <2>6. CASE AfterExpiry(w)
    <3>1. /\ req[w].at # "idle" /\ ~overlap /\ Expired(req[w].saw, req[w].moment)
          /\ req[w].moment \in Nat /\ req[w].moment <= now /\ req[w].hash_ok \in BOOLEAN
      BY <1>1, <2>6, Mine DEF AfterExpiry
    <3>2. req[w].saw = locks[a]
      BY <2>4, <3>1 DEF Inv, Serial, Current
    <3>3. ~InForce(locks[a], now)
      BY <1>1, <3>1, <3>2, QuietIsFree
    <3>4. locks'[a].locked_until = NULL /\ locks'[a].strikes = locks[a].strikes
      BY <1>1, <2>4, <2>6, <3>1, AfterExpiryEffect
    <3>5. locks[a].strikes \in Nat
      BY <1>1 DEF Row
    <3> QED
      BY <3>3, <3>4, <3>5 DEF Moves
  <2>7. ~Succeed(w) /\ ~Fail(w)
    BY <1>3 DEF Succeed, Fail, Only
  <2>8. ~Break(w) /\ \A b \in Address, h \in BOOLEAN : ~Attempt(w, b, h)
    BY <1>3 DEF Break, Attempt
  <2> QED
    BY <2>3, <2>5, <2>6, <2>7, <2>8 DEF SignIn
<1> QED
  BY <1>2, <1>3

\* lockout.py:3-19: for any instance, LocksMoveByTheRules: a step of a sign-in leaves the
\* locks of other addresses alone, and, until sign-ins overlap, a lock in force is not
\* extended and the next counts one more.
THEOREM LocksMove == Spec => LocksMoveByTheRules
<1> DEFINE Act == OthersUntouched /\ (~overlap' => LocksStand /\ StrikesEscalate)
<1>1. ASSUME Inv, Next PROVE Act
  <2>1. Shape
    BY <1>1 DEF Inv
  <2>2. OthersUntouched
    BY <1>1, <2>1, MoverActs, LeavesOthers DEF OthersUntouched, Untouched
  <2>3. ASSUME ~overlap' PROVE LocksStand
    <3>1. SUFFICES ASSUME NEW a \in Address, LockedNow(a), LockedNow(a)'
                   PROVE  locks'[a].locked_until <= locks[a].locked_until
      BY DEF LocksStand
    <3>2. a \in DOMAIN locks /\ InForce(locks[a], now) /\ a \in DOMAIN locks'
      BY <3>1 DEF LockedNow
    <3> QED
      BY <1>1, <2>3, <3>2, RowsMove DEF Moves
  <2>4. ASSUME ~overlap' PROVE StrikesEscalate
    BY <1>1, <2>4, RowsMove DEF StrikesEscalate, Moves
  <2> QED
    BY <2>2, <2>3, <2>4
<1>2. Inv /\ [Next]_vars => [Act]_vars
  BY <1>1
<1> QED
  BY <1>2, InitInv, InvStep, PTL DEF Spec, LocksMoveByTheRules
=============================================================================
