--------------------------- MODULE AccountsProofs ---------------------------
(***************************************************************************)
(* What Accounts promises, for any people, rows, requests and number of     *)
(* seats.  Types hold whatever overlaps.  The rules hold until two requests *)
(* overlap: until then what a request has read is still what there is when  *)
(* it writes, so that what the rule allowed it is allowed still.            *)
(***************************************************************************)
EXTENDS Accounts, FiniteSetTheorems, TLAPS

-----------------------------------------------------------------------------
(* Types.                                                                   *)

\* What a request in flight has of its own, whatever others do.
InFlightOK(r) ==
  /\ r.op # "none" => r.target \in User
  /\ r.op \in Op => r.actor \in User /\ r.read \in Person
  /\ r.op = "seed" => r.target \in Bootstrap

Shape ==
  /\ TypeOK
  /\ IsFiniteSet(seats)
  /\ \A w \in Worker : InFlightOK(req[w])

-----------------------------------------------------------------------------
(* Until requests overlap.                                                  *)

Alone == \A v, w \in Worker : req[v] # Free /\ req[w] # Free => v = w

\* What the request has read, and what the rule has allowed it, is so.
Current(r) ==
  /\ r.op \in Op =>
       /\ IsGlobalAdmin(r.actor) /\ Exists(r.target) /\ r.read = people[r.target]
       /\ r.op = "revoke" =>
            /\ r.grant \in DOMAIN grants
            /\ grants[r.grant] = [user |-> r.target, role |-> r.role]
       /\ r.at = "decided" => Allowed(r)
  /\ r.op = "seed" => ("role" \in r.adds => ~Granted(r.target, "global_admin"))

Rules ==
  /\ SomebodyAdministers
  /\ SEATS # NULL => Cardinality(seats \ given) <= SEATS
  /\ \A g, h \in DOMAIN grants : grants[g] = grants[h] => g = h

Serial == ~overlap => Alone /\ Rules /\ \A w \in Worker : Current(req[w])

-----------------------------------------------------------------------------
(* What the steps have in common.                                           *)

LEMMA FreeType == Free \in Request /\ InFlightOK(Free)
BY DEF Free, Request, InFlightOK, Role, Op

LEMMA NotFree == \A r : r.op # "none" => r # Free
BY DEF Free

LEMMA NoGrants == NULL \notin GrantId
BY AccountsAssumption

\* One request moves on to r.
LEMMA ReqMoves ==
  ASSUME Shape, NEW w \in Worker, NEW r \in Request, InFlightOK(r), req' = [req EXCEPT ![w] = r]
  PROVE  /\ req' \in [Worker -> Request] /\ \A v \in Worker : InFlightOK(req'[v])
         /\ req'[w] = r /\ \A v \in Worker \ {w} : req'[v] = req[v]
BY DEF Shape, TypeOK

LEMMA DoneMoves ==
  ASSUME Shape, NEW w \in Worker, Done(w)
  PROVE  /\ req' \in [Worker -> Request] /\ \A v \in Worker : InFlightOK(req'[v])
         /\ req'[w] = Free /\ \A v \in Worker \ {w} : req'[v] = req[v]
         /\ requests' \in 0..MaxRequests /\ overlap' \in BOOLEAN
BY FreeType, ReqMoves DEF Done, Shape, TypeOK

LEMMA ArrivesType ==
  ASSUME Shape, NEW w \in Worker, Arrives(w)
  PROVE  requests' \in 0..MaxRequests /\ overlap' \in BOOLEAN
<1>1. requests' \in 0..MaxRequests
  BY AccountsAssumption DEF Shape, TypeOK, Arrives
<1>2. overlap' \in BOOLEAN
  BY DEF Shape, TypeOK, Arrives
<1> QED
  BY <1>1, <1>2

\* A request that is ready to write has a target that exists, and updates its row.
LEMMA BumpedIs ==
  ASSUME Shape, NEW w \in Worker, req[w].op \in Op
  PROVE  LET r == req[w] IN
         /\ r.target \in User /\ r.read.version \in Nat
         /\ Bumped(r) \in [User -> Person]
         /\ \A u \in User : Bumped(r)[u].status = people[u].status
         /\ \A u \in User \ {r.target} : Bumped(r)[u] = people[u]
         /\ Bumped(r)[r.target].version = r.read.version + 1
<1> DEFINE r == req[w]
<1>1. r.target \in User /\ r.read \in Person /\ people \in [User -> Person]
  BY DEF Shape, TypeOK, InFlightOK, Op
<1>2. r.read.version + 1 \in Nat /\ r.read.version \in Nat
  BY <1>1 DEF Person
<1> QED
  BY <1>1, <1>2 DEF Bumped, Person

LEMMA InsertIs ==
  ASSUME Shape, NEW g \in GrantId \ drawn, NEW u \in User, NEW role \in Role
  PROVE  /\ DOMAIN Insert(g, u, role) = DOMAIN grants \cup {g} /\ g \notin DOMAIN grants
         /\ Insert(g, u, role) \in [DOMAIN grants \cup {g} -> Grant]
         /\ Insert(g, u, role)[g] = [user |-> u, role |-> role]
         /\ \A h \in DOMAIN grants : Insert(g, u, role)[h] = grants[h]
         /\ drawn \cup {g} \in SUBSET GrantId
BY DEF Insert, Shape, TypeOK, Grant

LEMMA WithoutIs ==
  ASSUME Shape, NEW G
  PROVE  /\ DOMAIN Without(G) = DOMAIN grants \ G
         /\ Without(G) \in [DOMAIN grants \ G -> Grant]
         /\ \A h \in DOMAIN grants \ G : Without(G)[h] = grants[h]
BY DEF Without, Shape, TypeOK

LEMMA SeatsFinite ==
  ASSUME IsFiniteSet(seats), NEW u PROVE IsFiniteSet(seats \cup {u}) /\ IsFiniteSet(seats \ {u})
BY FS_AddElement, FS_RemoveElement

-----------------------------------------------------------------------------
(* Types, whatever overlaps.                                                *)

LEMMA BeginShape ==
  ASSUME Shape, NEW w \in Worker, NEW op \in Op, NEW actor \in User, NEW target \in User,
         NEW role \in Role, NEW g \in GrantId \cup {NULL}, Begin(w, op, actor, target, role, g)
  PROVE  Shape'
<1> DEFINE r == [op |-> op, at |-> "begun", actor |-> actor, target |-> target,
                 role |-> role, grant |-> g, read |-> people[target], adds |-> {}]
<1>1. r \in Request /\ InFlightOK(r)
  <2>1. people[target] \in Person
    BY DEF Shape, TypeOK
  <2>2. op # "seed"
    BY DEF Op
  <2> QED
    BY <2>1, <2>2 DEF Request, InFlightOK
<1>2. req' = [req EXCEPT ![w] = r] /\ Arrives(w) /\ UNCHANGED <<people, grants, drawn, seats, given>>
  BY DEF Begin
<1> HIDE DEF r
<1> QED
  BY <1>1, <1>2, ReqMoves, ArrivesType DEF Shape, TypeOK, NothingOutlivesAccount, Exists

LEMMA DecideShape ==
  ASSUME Shape, NEW w \in Worker, Decide(w) PROVE Shape'
<1> DEFINE r == [req[w] EXCEPT !.at = "decided"]
<1>1. req[w] \in Request /\ InFlightOK(req[w])
  BY DEF Shape, TypeOK
<1>2. r \in Request /\ InFlightOK(r)
  BY <1>1 DEF Request, InFlightOK
<1>3. req' = [req EXCEPT ![w] = r]
      /\ UNCHANGED <<people, grants, drawn, seats, given, requests, overlap>>
  BY DEF Decide
<1> HIDE DEF r
<1> QED
  BY <1>2, <1>3, ReqMoves DEF Shape, TypeOK, NothingOutlivesAccount, Exists

LEMMA RefuseShape ==
  ASSUME Shape, NEW w \in Worker, Refuse(w) PROVE Shape'
BY DoneMoves DEF Refuse, Shape, TypeOK, NothingOutlivesAccount, Exists

LEMMA GrantRoleShape ==
  ASSUME Shape, NEW w \in Worker, NEW g \in GrantId, GrantRole(w, g) PROVE Shape'
<1> DEFINE r == req[w]
<1>1. /\ r.op \in Op /\ Exists(r.target) /\ g \in GrantId \ drawn
      /\ grants' = Insert(g, r.target, r.role) /\ drawn' = drawn \cup {g}
      /\ people' = Bumped(r) /\ UNCHANGED <<seats, given>> /\ Done(w)
  BY DEF GrantRole, Ready, Op
<1>2. r.role \in Role
  BY DEF Shape, TypeOK, Request
<1>3. /\ people' \in [User -> Person] /\ r.target \in User
      /\ \A u \in User : people'[u].status = people[u].status
  BY <1>1, BumpedIs
<1>4. /\ DOMAIN grants' = DOMAIN grants \cup {g} /\ grants' \in [DOMAIN grants' -> Grant]
      /\ grants'[g] = [user |-> r.target, role |-> r.role]
      /\ \A h \in DOMAIN grants : grants'[h] = grants[h]
      /\ drawn' \in SUBSET GrantId /\ DOMAIN grants' \subseteq drawn'
  <2>1. /\ DOMAIN grants' = DOMAIN grants \cup {g} /\ grants' \in [DOMAIN grants \cup {g} -> Grant]
        /\ grants'[g] = [user |-> r.target, role |-> r.role]
        /\ \A h \in DOMAIN grants : grants'[h] = grants[h]
        /\ drawn' \in SUBSET GrantId
    <3> DEFINE after == Insert(g, r.target, r.role)
    <3>1. g \in GrantId \ drawn /\ r.target \in User /\ r.role \in Role
      BY <1>1, <1>2, <1>3
    <3>2. /\ DOMAIN after = DOMAIN grants \cup {g} /\ after \in [DOMAIN grants \cup {g} -> Grant]
          /\ after[g] = [user |-> r.target, role |-> r.role]
          /\ \A h \in DOMAIN grants : after[h] = grants[h]
          /\ drawn \cup {g} \in SUBSET GrantId
      BY <3>1, InsertIs
    <3>3. grants' = after /\ drawn' = drawn \cup {g}
      BY <1>1
    <3> HIDE DEF after
    <3> QED
      BY <3>2, <3>3
  <2>2. DOMAIN grants \subseteq drawn
    BY DEF Shape, TypeOK
  <2> QED
    BY <1>1, <2>1, <2>2
<1>5. \A u \in User : Exists(u)' <=> Exists(u)
  BY <1>3 DEF Exists
<1>6. \A h \in DOMAIN grants : grants[h].user \in User
  BY DEF Shape, TypeOK, Grant
<1>7. NothingOutlivesAccount'
  BY <1>1, <1>3, <1>4, <1>5, <1>6 DEF Shape, TypeOK, NothingOutlivesAccount
<1> QED
  BY <1>1, <1>3, <1>4, <1>5, <1>7, AccountsAssumption, DoneMoves DEF Shape, TypeOK

\* A write that leaves every account as it is but for its version, and takes grants
\* and seats or gives them to somebody there.
LEMMA UpdateShape ==
  ASSUME Shape, NEW w \in Worker, req[w].op \in Op, Done(w), people' = Bumped(req[w]),
         drawn' = drawn, NEW G, grants' = Without(G),
         IsFiniteSet(seats)', given' \subseteq seats',
         \A u \in seats' : u \in User /\ Exists(u)
  PROVE  Shape'
<1>1. /\ people' \in [User -> Person]
      /\ \A u \in User : people'[u].status = people[u].status
  BY BumpedIs
<1>2. \A u \in User : Exists(u)' <=> Exists(u)
  BY <1>1 DEF Exists
<1>3. \A h \in DOMAIN grants : grants[h].user \in User
  BY DEF Shape, TypeOK, Grant
<1>4. NothingOutlivesAccount'
  <2>1. \A h \in DOMAIN grants' : h \in DOMAIN grants /\ grants'[h] = grants[h]
    BY WithoutIs
  <2>2. \A h \in DOMAIN grants : Exists(grants[h].user)
    BY DEF Shape, TypeOK, NothingOutlivesAccount
  <2>3. \A h \in DOMAIN grants' : people'[grants'[h].user].status \in {"active", "suspended"}
    BY <1>2, <1>3, <2>1, <2>2 DEF Exists
  <2>4. \A u \in seats' : people'[u].status \in {"active", "suspended"}
    BY <1>2 DEF Exists
  <2> QED
    BY <2>3, <2>4 DEF NothingOutlivesAccount, Exists
<1>5. grants' \in [DOMAIN grants' -> Grant] /\ DOMAIN grants' \subseteq drawn' /\ drawn' \subseteq GrantId
  BY WithoutIs DEF Shape, TypeOK
<1> QED
  BY <1>1, <1>2, <1>4, <1>5, AccountsAssumption, DoneMoves DEF Shape, TypeOK

LEMMA AllKept == ASSUME Shape PROVE grants = Without({})
BY DEF Without, Shape, TypeOK

LEMMA SeatsExist == ASSUME Shape PROVE \A u \in seats : u \in User /\ Exists(u)
BY DEF Shape, TypeOK, NothingOutlivesAccount

LEMMA RevokeShape ==
  ASSUME Shape, NEW w \in Worker, RevokeRole(w) PROVE Shape'
BY UpdateShape, SeatsExist DEF RevokeRole, Ready, Op, Shape, TypeOK

LEMMA AssignShape ==
  ASSUME Shape, NEW w \in Worker, AssignLicense(w) PROVE Shape'
<1>1. /\ req[w].op \in Op /\ Exists(req[w].target) /\ Done(w) /\ people' = Bumped(req[w])
      /\ drawn' = drawn /\ grants' = Without({}) /\ given' = given
      /\ seats' = seats \cup {req[w].target}
  BY AllKept DEF AssignLicense, Ready, Op
<1>2. req[w].target \in User
  BY <1>1, BumpedIs
<1>3. IsFiniteSet(seats)'
  BY <1>1, SeatsFinite DEF Shape
<1> QED
  BY <1>1, <1>2, <1>3, UpdateShape, SeatsExist DEF Shape, TypeOK

LEMMA RemoveShape ==
  ASSUME Shape, NEW w \in Worker, RemoveLicense(w) PROVE Shape'
<1>1. /\ req[w].op \in Op /\ Done(w) /\ people' = Bumped(req[w])
      /\ drawn' = drawn /\ grants' = Without({}) /\ given' = given \ {req[w].target}
      /\ seats' = seats \ {req[w].target}
  BY AllKept DEF RemoveLicense, Ready, Op
<1>2. IsFiniteSet(seats)'
  BY <1>1, SeatsFinite DEF Shape
<1> QED
  BY <1>1, <1>2, UpdateShape, SeatsExist DEF Shape, TypeOK

LEMMA StatusShape ==
  ASSUME Shape, NEW w \in Worker, SetUserStatus(w) PROVE Shape'
<1> DEFINE r == req[w]
           status == IF r.op = "suspend" THEN "suspended" ELSE "active"
<1>1. /\ r.op \in Op /\ Exists(r.target) /\ Done(w)
      /\ people' = [Bumped(r) EXCEPT ![r.target].status = status]
      /\ UNCHANGED <<grants, drawn, seats, given>>
  BY DEF SetUserStatus, Ready, Op
<1>2. status \in {"active", "suspended"}
  OBVIOUS
<1> HIDE DEF status
<1>3. /\ Bumped(r) \in [User -> Person] /\ r.target \in User
      /\ \A u \in User : Bumped(r)[u].status = people[u].status
  BY <1>1, BumpedIs
<1>4. /\ people' \in [User -> Person] /\ people'[r.target].status = status
      /\ \A u \in User \ {r.target} : people'[u].status = people[u].status
  BY <1>1, <1>2, <1>3 DEF Person
<1>5. \A u \in User : Exists(u)' <=> Exists(u)
  BY <1>1, <1>2, <1>4 DEF Exists
<1>6. \A h \in DOMAIN grants : grants[h].user \in User
  BY DEF Shape, TypeOK, Grant
<1>7. NothingOutlivesAccount'
  BY <1>1, <1>5, <1>6 DEF Shape, TypeOK, NothingOutlivesAccount
<1> QED
  BY <1>1, <1>4, <1>5, <1>7, AccountsAssumption, DoneMoves DEF Shape, TypeOK

LEMMA DeleteShape ==
  ASSUME Shape, NEW w \in Worker, DeleteUser(w) PROVE Shape'
<1> DEFINE u == req[w].target
           G == {g \in DOMAIN grants : grants[g].user = u}
<1>1. /\ req[w].op \in Op /\ Done(w) /\ people' = [people EXCEPT ![u].status = "deleted"]
      /\ grants' = Without(G) /\ seats' = seats \ {u} /\ given' = given \ {u} /\ drawn' = drawn
  BY DEF DeleteUser, Ready, Op
<1>2. u \in User /\ people \in [User -> Person]
  BY <1>1, BumpedIs DEF Shape, TypeOK
<1>3. /\ people' \in [User -> Person]
      /\ \A v \in User \ {u} : people'[v].status = people[v].status
      /\ people'[u].status = "deleted"
  BY <1>1, <1>2 DEF Person
<1>4. \A v \in User : Exists(v)' <=> v # u /\ Exists(v)
  BY <1>3 DEF Exists
<1>5. \A h \in DOMAIN grants : grants[h].user \in User /\ (h \notin G => grants[h].user # u)
  BY DEF Shape, TypeOK, Grant
<1> HIDE DEF G
<1>6. /\ DOMAIN grants' = DOMAIN grants \ G /\ grants' \in [DOMAIN grants' -> Grant]
      /\ \A h \in DOMAIN grants' : grants'[h] = grants[h] /\ grants[h].user # u
  BY <1>1, <1>5, WithoutIs
<1>7. IsFiniteSet(seats)'
  BY <1>1, SeatsFinite DEF Shape
<1>8. NothingOutlivesAccount'
  BY <1>1, <1>4, <1>5, <1>6 DEF Shape, TypeOK, NothingOutlivesAccount
<1>9. /\ DOMAIN grants' \subseteq drawn' /\ drawn' \subseteq GrantId
      /\ given' \subseteq seats' /\ seats' \subseteq User
      /\ \A x, y \in Bootstrap : Exists(x)' /\ Exists(y)' => x = y
  BY <1>1, <1>4, <1>6, AccountsAssumption DEF Shape, TypeOK
<1> QED
  BY <1>3, <1>6, <1>7, <1>8, <1>9, DoneMoves, <1>1 DEF Shape, TypeOK

\* An account is created: it is the only one of its address, and had nothing.
LEMMA CreatedIs ==
  ASSUME Shape, NEW u \in User, Creatable(u), NEW status \in {"active", "suspended"},
         people' = [people EXCEPT ![u] = New(status)]
  PROVE  /\ people' \in [User -> Person] /\ people'[u] = [status |-> status, version |-> 1]
         /\ \A v \in User \ {u} : people'[v] = people[v]
         /\ \A v \in User : Exists(v)' <=> v = u \/ Exists(v)
         /\ ~Exists(u)
         /\ \A x, y \in Bootstrap : Exists(x)' /\ Exists(y)' => x = y
<1>1. /\ people' \in [User -> Person] /\ people'[u] = [status |-> status, version |-> 1]
      /\ \A v \in User \ {u} : people'[v] = people[v]
  BY DEF Shape, TypeOK, New, Person
<1>2. ~Exists(u) /\ \A v \in User : Exists(v)' <=> v = u \/ Exists(v)
  BY <1>1 DEF Exists, Creatable
<1>3. \A x, y \in Bootstrap : Exists(x)' /\ Exists(y)' => x = y
  BY <1>2, AccountsAssumption DEF Creatable, Shape, TypeOK
<1> QED
  BY <1>1, <1>2, <1>3

LEMMA CreateShape ==
  ASSUME Shape, NEW w \in Worker, NEW u \in User, NEW status \in {"active", "suspended"},
         CreateUser(w, u, status)
  PROVE  Shape'
<1>1. /\ Creatable(u) /\ people' = [people EXCEPT ![u] = New(status)] /\ Arrives(w)
      /\ UNCHANGED <<grants, drawn, seats, given, req>>
  BY DEF CreateUser
<1>2. /\ people' \in [User -> Person]
      /\ \A v \in User : Exists(v)' <=> v = u \/ Exists(v)
      /\ \A x, y \in Bootstrap : Exists(x)' /\ Exists(y)' => x = y
  BY <1>1, CreatedIs
<1>3. \A h \in DOMAIN grants : grants[h].user \in User
  BY DEF Shape, TypeOK, Grant
<1>4. NothingOutlivesAccount'
  BY <1>1, <1>2, <1>3 DEF Shape, TypeOK, NothingOutlivesAccount
<1> QED
  BY <1>1, <1>2, <1>4, ArrivesType DEF Shape, TypeOK

LEMMA SeedReadShape ==
  ASSUME Shape, NEW w \in Worker, NEW u \in Bootstrap, SeedRead(w, u) PROVE Shape'
<1> DEFINE adds == {a \in Seeded :
                      CASE a = "account" -> ~Exists(u)
                        [] a = "role"    -> ~Granted(u, "global_admin")
                        [] a = "seat"    -> u \notin seats}
           r == [Free EXCEPT !.op = "seed", !.at = "decided", !.target = u, !.adds = adds]
<1>1. adds \in SUBSET Seeded
  OBVIOUS
<1>2. req' = [req EXCEPT ![w] = r] /\ Arrives(w) /\ UNCHANGED <<people, grants, drawn, seats, given>>
  BY DEF SeedRead
<1> HIDE DEF adds
<1>3. r \in Request /\ InFlightOK(r)
  BY <1>1, AccountsAssumption DEF Free, Request, Role, InFlightOK, Op
<1> HIDE DEF r
<1> QED
  BY <1>2, <1>3, ReqMoves, ArrivesType DEF Shape, TypeOK, NothingOutlivesAccount, Exists

\* What a run of the seed commits.
LEMMA SeedCommitIs ==
  ASSUME Shape, NEW w \in Worker, NEW g \in GrantId \cup {NULL}, SeedCommit(w, g)
  PROVE  LET u == req[w].target IN
         /\ u \in User /\ req[w].op = "seed" /\ Done(w)
         /\ people' \in [User -> Person]
         /\ \A v \in User \ {u} : people'[v] = people[v]
         /\ \/ people' = people /\ Exists(u)
            \/ people'[u].status = "active" /\ ~Exists(u)
         /\ \A v \in User : Exists(v)' <=> v = u \/ Exists(v)
         /\ \A x, y \in Bootstrap : Exists(x)' /\ Exists(y)' => x = y
         /\ \/ UNCHANGED <<grants, drawn>>
            \/ /\ "role" \in req[w].adds /\ g \in GrantId \ drawn
               /\ grants' = Insert(g, u, "global_admin") /\ drawn' = drawn \cup {g}
         /\ \/ UNCHANGED <<seats, given>>
            \/ u \notin seats /\ seats' = seats \cup {u} /\ given' = given \cup {u}
<1> DEFINE adds == req[w].adds
<1>0. PICK u \in User : u = req[w].target
  BY AccountsAssumption DEF SeedCommit, Shape, InFlightOK
<1>1. req[w].op = "seed" /\ Done(w)
  BY DEF SeedCommit
<1>2. /\ people' \in [User -> Person]
      /\ \A v \in User \ {u} : people'[v] = people[v]
      /\ \/ people' = people /\ Exists(u)
         \/ people'[u].status = "active" /\ ~Exists(u)
      /\ \A v \in User : Exists(v)' <=> v = u \/ Exists(v)
      /\ \A x, y \in Bootstrap : Exists(x)' /\ Exists(y)' => x = y
  <2>1. CASE "account" \in adds
    <3>1. Creatable(u) /\ people' = [people EXCEPT ![u] = New("active")]
      BY <1>0, <2>1 DEF SeedCommit
    <3>2. "active" \in {"active", "suspended"} /\ New("active").status = "active"
      BY DEF New
    <3> QED
      BY <3>1, <3>2, CreatedIs
  <2>2. CASE "account" \notin adds
    <3>1. people' = people /\ Exists(u)
      BY <1>0, <2>2 DEF SeedCommit
    <3>2. \A v \in User : Exists(v)' <=> Exists(v)
      BY <3>1 DEF Exists
    <3> QED
      BY <3>1, <3>2, AccountsAssumption DEF Shape, TypeOK
  <2> QED
    BY <2>1, <2>2
<1>3. \/ UNCHANGED <<grants, drawn>>
      \/ /\ "role" \in adds /\ g \in GrantId \ drawn
         /\ grants' = Insert(g, u, "global_admin") /\ drawn' = drawn \cup {g}
  BY <1>0 DEF SeedCommit
<1>4. \/ UNCHANGED <<seats, given>>
      \/ u \notin seats /\ seats' = seats \cup {u} /\ given' = given \cup {u}
  BY <1>0 DEF SeedCommit
<1> QED
  BY <1>0, <1>1, <1>2, <1>3, <1>4

LEMMA SeedCommitShape ==
  ASSUME Shape, NEW w \in Worker, NEW g \in GrantId \cup {NULL}, SeedCommit(w, g)
  PROVE  Shape'
<1>0. PICK u \in User :
        /\ Done(w) /\ people' \in [User -> Person]
        /\ \A v \in User : Exists(v)' <=> v = u \/ Exists(v)
        /\ \A x, y \in Bootstrap : Exists(x)' /\ Exists(y)' => x = y
        /\ \/ UNCHANGED <<grants, drawn>>
           \/ /\ g \in GrantId \ drawn
              /\ grants' = Insert(g, u, "global_admin") /\ drawn' = drawn \cup {g}
        /\ \/ UNCHANGED <<seats, given>>
           \/ u \notin seats /\ seats' = seats \cup {u} /\ given' = given \cup {u}
  BY SeedCommitIs
<1>1. Exists(u)' /\ \A v \in User : Exists(v) => Exists(v)'
  BY <1>0
<1>2. /\ grants' \in [DOMAIN grants' -> Grant] /\ DOMAIN grants' \subseteq drawn'
      /\ drawn' \subseteq GrantId
      /\ \A h \in DOMAIN grants' :
           grants'[h].user = u \/ (h \in DOMAIN grants /\ grants'[h] = grants[h])
  <2>1. CASE UNCHANGED <<grants, drawn>>
    BY <2>1 DEF Shape, TypeOK
  <2>2. CASE /\ g \in GrantId \ drawn
             /\ grants' = Insert(g, u, "global_admin") /\ drawn' = drawn \cup {g}
    <3> DEFINE after == Insert(g, u, "global_admin")
    <3>1. /\ DOMAIN after = DOMAIN grants \cup {g} /\ after \in [DOMAIN grants \cup {g} -> Grant]
          /\ after[g] = [user |-> u, role |-> "global_admin"]
          /\ \A h \in DOMAIN grants : after[h] = grants[h]
          /\ drawn \cup {g} \in SUBSET GrantId
      <4>1. "global_admin" \in Role
        BY DEF Role
      <4> QED
        BY <2>2, <4>1, InsertIs
    <3> HIDE DEF after
    <3>2. DOMAIN grants \subseteq drawn /\ grants' = after /\ drawn' = drawn \cup {g}
      BY <2>2 DEF after, Shape, TypeOK
    <3>3. DOMAIN grants' = DOMAIN grants \cup {g} /\ grants' \in [DOMAIN grants' -> Grant]
      BY <3>1, <3>2
    <3>4. \A h \in DOMAIN grants' :
           grants'[h].user = u \/ (h \in DOMAIN grants /\ grants'[h] = grants[h])
      BY <3>1, <3>2, <3>3
    <3>5. DOMAIN grants' \subseteq drawn'
      <4>1. DOMAIN grants' = DOMAIN grants \cup {g}
        BY <3>3
      <4> QED
        BY <3>2, <4>1
    <3>6. drawn' \subseteq GrantId
      <4>1. drawn \cup {g} \subseteq GrantId
        BY <3>1
      <4> QED
        BY <3>2, <4>1
    <3> QED
      BY <3>3, <3>4, <3>5, <3>6
  <2> QED
    BY <1>0, <2>1, <2>2
<1>3. \A h \in DOMAIN grants : grants[h].user \in User /\ Exists(grants[h].user)
  BY DEF Shape, TypeOK, Grant, NothingOutlivesAccount
<1>4. /\ IsFiniteSet(seats)' /\ given' \subseteq seats' /\ seats' \subseteq User
      /\ \A v \in seats' : v = u \/ v \in seats
  BY <1>0, SeatsFinite DEF Shape, TypeOK
<1>5. NothingOutlivesAccount'
  <2>1. \A h \in DOMAIN grants' : people'[grants'[h].user].status \in {"active", "suspended"}
    BY <1>1, <1>2, <1>3 DEF Exists
  <2>2. \A v \in seats' : people'[v].status \in {"active", "suspended"}
    BY <1>1, <1>4 DEF Exists, Shape, TypeOK, NothingOutlivesAccount
  <2> QED
    BY <2>1, <2>2 DEF NothingOutlivesAccount, Exists
<1> QED
  BY <1>0, <1>2, <1>4, <1>5, DoneMoves DEF Shape, TypeOK

LEMMA ShapeInit == ASSUME Init PROVE Shape
<1>1. people \in [User -> Person]
  BY DEF Init, New, Person
<1>2. PICK G \in SUBSET GrantId :
        grants \in [G -> {[user |-> u, role |-> "global_admin"] : u \in {v \in User : Exists(v)}}]
  BY DEF Init
<1>3. grants \in [DOMAIN grants -> Grant] /\ DOMAIN grants \subseteq drawn /\ drawn \subseteq GrantId
  BY <1>2 DEF Init, Grant, Role
<1>4. NothingOutlivesAccount
  BY <1>2 DEF Init, NothingOutlivesAccount
<1>5. \A u, v \in Bootstrap : Exists(u) /\ Exists(v) => u = v
  BY DEF Init
<1>6. seats = {} /\ given = {} /\ IsFiniteSet(seats)
  BY FS_EmptySet DEF Init
<1>7. req \in [Worker -> Request] /\ \A w \in Worker : InFlightOK(req[w])
  BY FreeType DEF Init
<1>8. requests \in 0..MaxRequests /\ overlap \in BOOLEAN
  <2>1. requests = 0 /\ overlap = FALSE
    BY DEF Init
  <2>2. 0 \in 0..MaxRequests /\ FALSE \in BOOLEAN
    BY AccountsAssumption
  <2> QED
    BY <2>1, <2>2
<1> QED
  BY <1>1, <1>3, <1>4, <1>5, <1>6, <1>7, <1>8 DEF Shape, TypeOK

LEMMA ShapeStep == ASSUME Shape, [Next]_vars PROVE Shape'
<1>1. CASE UNCHANGED vars
  BY <1>1 DEF vars, Shape, TypeOK, NothingOutlivesAccount, Exists
<1>2. ASSUME NEW w \in Worker, Serve(w) PROVE Shape'
  BY <1>2, BeginShape, DecideShape, RefuseShape, GrantRoleShape, RevokeShape, StatusShape,
     DeleteShape, AssignShape, RemoveShape, CreateShape, SeedReadShape, SeedCommitShape
     DEF Serve
<1> QED
  BY <1>1, <1>2 DEF Next

LEMMA ShapeAlways == Spec => []Shape
BY ShapeInit, ShapeStep, PTL DEF Spec

-----------------------------------------------------------------------------
(* What each rule is kept by.                                               *)

LEMMA HolderHas ==
  ASSUME NEW u \in Holders
  PROVE  /\ u \in User /\ people[u].status = "active"
         /\ \E g \in DOMAIN grants : grants[g] = [user |-> u, role |-> "global_admin"]
BY DEF Holders, IsGlobalAdmin, Granted

LEMMA Administers ==
  ASSUME NEW u \in User, people'[u].status = "active", NEW g \in DOMAIN grants',
         grants'[g] = [user |-> u, role |-> "global_admin"]
  PROVE  SomebodyAdministers'
BY DEF SomebodyAdministers, Holders, IsGlobalAdmin, Granted

\* Nobody who administers loses anything.
LEMMA AdministersStill ==
  ASSUME SomebodyAdministers,
         \A u \in User : people[u].status = "active" => people'[u].status = "active",
         \A g \in DOMAIN grants : g \in DOMAIN grants' /\ grants'[g] = grants[g]
  PROVE  SomebodyAdministers'
<1>1. PICK u \in Holders : TRUE
  BY DEF SomebodyAdministers
<1>2. PICK g \in DOMAIN grants : grants[g] = [user |-> u, role |-> "global_admin"]
  BY HolderHas
<1> QED
  BY <1>2, HolderHas, Administers

\* What the rule of accounts.py:69-76 asks is whether anybody else administers.
LEMMA Another ==
  ASSUME SomebodyAdministers, NEW r, r.actor \in User, r.target \in User,
         IsGlobalAdmin(r.actor), r.read = people[r.target], ~WouldRemoveLastAdmin(r)
  PROVE  \E u \in Holders : u # r.target
<1>1. HoldersSeen(r) = Holders
  BY DEF HoldersSeen, Holders, IsGlobalAdmin
<1> QED
  BY <1>1 DEF SomebodyAdministers, WouldRemoveLastAdmin

LEMMA UniqueWithout ==
  ASSUME Shape, Rules, NEW G, grants' = Without(G)
  PROVE  \A g, h \in DOMAIN grants' : grants'[g] = grants'[h] => g = h
<1>1. \A h \in DOMAIN grants' : h \in DOMAIN grants /\ grants'[h] = grants[h]
  BY WithoutIs
<1> QED
  BY <1>1 DEF Rules

LEMMA UniqueInsert ==
  ASSUME Shape, Rules, NEW g \in GrantId \ drawn, NEW u \in User, NEW role \in Role,
         ~Granted(u, role), grants' = Insert(g, u, role)
  PROVE  /\ \A f, h \in DOMAIN grants' : grants'[f] = grants'[h] => f = h
         /\ \A h \in DOMAIN grants : h \in DOMAIN grants' /\ grants'[h] = grants[h]
<1>1. /\ DOMAIN grants' = DOMAIN grants \cup {g}
      /\ grants'[g] = [user |-> u, role |-> role]
      /\ \A h \in DOMAIN grants : grants'[h] = grants[h]
  BY InsertIs
<1>2. \A h \in DOMAIN grants : grants'[h] # grants'[g]
  BY <1>1 DEF Granted
<1> QED
  BY <1>1, <1>2 DEF Rules

LEMMA PaidStill ==
  ASSUME Shape, Rules, (seats \ given)' \subseteq seats \ given
  PROVE  SEATS # NULL => Cardinality(seats \ given)' <= SEATS
<1>1. IsFiniteSet(seats \ given)
  BY FS_Subset DEF Shape
<1>2. Cardinality((seats \ given)') <= Cardinality(seats \ given)
      /\ Cardinality((seats \ given)') \in Nat /\ Cardinality(seats \ given) \in Nat
  BY <1>1, FS_Subset, FS_CardinalityType
<1> QED
  BY <1>2, AccountsAssumption DEF Rules

LEMMA FreeCurrent == Current(Free) /\ Current(Free)'
<1>1. Free.op \notin Op /\ Free.op # "seed"
  BY DEF Free, Op
<1> QED
  BY <1>1 DEF Current

\* The only request there is ends, and the rules hold.
LEMMA SerialDone ==
  ASSUME Shape, Serial, NEW w \in Worker, req[w] # Free, Done(w), ~overlap => Rules'
  PROVE  Serial'
<1>1. CASE overlap
  BY <1>1 DEF Done, Serial
<1>2. CASE ~overlap
  <2>1. \A v \in Worker \ {w} : req[v] = Free
    BY <1>2 DEF Serial, Alone
  <2>2. \A v \in Worker : req'[v] = Free
    BY <2>1, DoneMoves
  <2>3. Alone'
    BY <2>2 DEF Alone
  <2>4. (\A v \in Worker : Current(req[v]))'
    BY <2>2, FreeCurrent
  <2> QED
    BY <1>2, <2>3, <2>4 DEF Serial
<1> QED
  BY <1>1, <1>2

\* A request begins, alone, or goes on, and nothing else changes.
LEMMA SerialReads ==
  ASSUME Shape, NEW w \in Worker, NEW r, req' = [req EXCEPT ![w] = r],
         overlap' \/ \A v \in Worker \ {w} : req[v] = Free,
         UNCHANGED <<people, grants, drawn, seats, given>>,
         ~overlap' => Rules /\ Current(r)
  PROVE  Serial'
<1>1. CASE overlap'
  BY <1>1 DEF Serial
<1>2. CASE ~overlap'
  <2>1. \A v \in Worker : req'[v] = IF v = w THEN r ELSE Free
    BY <1>2 DEF Shape, TypeOK
  <2>2. Alone'
    BY <2>1 DEF Alone
  <2>3. Rules'
    BY <1>2 DEF Rules, SomebodyAdministers, Holders, IsGlobalAdmin, Granted
  <2>4. ASSUME NEW q, Current(q) PROVE Current(q)'
    BY <2>4 DEF Current, IsGlobalAdmin, Exists, Granted, Allowed, Repeated,
                WouldRemoveLastAdmin, HoldersSeen, SeatFree
  <2>5. ASSUME NEW v \in Worker PROVE Current(req[v])'
    <3>1. PICK q : q = req'[v]
      OBVIOUS
    <3>2. Current(q)
      BY <1>2, <2>1, <3>1, FreeCurrent
    <3>3. Current(q)'
      BY <2>4, <3>2
    <3> QED
      BY <3>1, <3>3
  <2> QED
    BY <2>2, <2>3, <2>5 DEF Serial
<1> QED
  BY <1>1, <1>2

-----------------------------------------------------------------------------
(* The rules, until requests overlap.                                       *)

LEMMA ArrivesAlone ==
  ASSUME NEW w \in Worker, Arrives(w), Serial, Shape
  PROVE  /\ overlap' \/ \A v \in Worker \ {w} : req[v] = Free
         /\ ~overlap' => ~overlap /\ Rules
BY DEF Arrives, Serial, Shape, TypeOK

LEMMA BeginSerial ==
  ASSUME Shape, Serial, NEW w \in Worker, NEW op \in Op, NEW actor \in User, NEW target \in User,
         NEW role \in Role, NEW g \in GrantId \cup {NULL}, Begin(w, op, actor, target, role, g)
  PROVE  Serial'
<1> DEFINE r == [op |-> op, at |-> "begun", actor |-> actor, target |-> target,
                 role |-> role, grant |-> g, read |-> people[target], adds |-> {}]
<1>1. req' = [req EXCEPT ![w] = r] /\ Arrives(w) /\ UNCHANGED <<people, grants, drawn, seats, given>>
  BY DEF Begin
<1>2. /\ r.op = op /\ r.at = "begun" /\ r.actor = actor /\ r.target = target /\ r.role = role
      /\ r.grant = g /\ r.read = people[target]
  OBVIOUS
<1> HIDE DEF r
<1>3. IsGlobalAdmin(actor) /\ Exists(target)
  BY DEF Begin
<1>4. op = "revoke" => g \in DOMAIN grants /\ grants[g] = [user |-> target, role |-> role]
  BY DEF Begin
<1>5. op # "seed"
  BY DEF Op
<1>6. Current(r)
  BY <1>2, <1>3, <1>4, <1>5 DEF Current
<1> QED
  BY <1>1, <1>6, ArrivesAlone, SerialReads

LEMMA DecideSerial ==
  ASSUME Shape, Serial, NEW w \in Worker, Decide(w) PROVE Serial'
<1> DEFINE q == req[w]
           r == [q EXCEPT !.at = "decided"]
<1>1. /\ q \in Request /\ q.at = "begun" /\ Allowed(q) /\ req' = [req EXCEPT ![w] = r]
      /\ UNCHANGED <<people, grants, drawn, seats, given, requests, overlap>>
  BY DEF Decide, Shape, TypeOK
<1>2. /\ r.op = q.op /\ r.at = "decided" /\ r.actor = q.actor /\ r.target = q.target
      /\ r.role = q.role /\ r.grant = q.grant /\ r.read = q.read /\ r.adds = q.adds
  BY <1>1 DEF Request
<1> HIDE DEF r
<1>3. Allowed(r)
  BY <1>1, <1>2 DEF Allowed, Repeated, WouldRemoveLastAdmin, HoldersSeen
<1>4. ~overlap => Rules /\ Current(r)
  BY <1>2, <1>3 DEF Serial, Current
<1>5. overlap' \/ \A v \in Worker \ {w} : req[v] = Free
  <2>1. q # Free
    BY <1>1 DEF Free
  <2> QED
    BY <1>1, <2>1 DEF Serial, Alone
<1> QED
  BY <1>1, <1>4, <1>5, SerialReads

LEMMA RefuseSerial ==
  ASSUME Shape, Serial, NEW w \in Worker, Refuse(w) PROVE Serial'
<1>1. Done(w) /\ req[w] # Free /\ UNCHANGED <<people, grants, drawn, seats, given>>
  BY DEF Refuse
<1>2. Rules => Rules'
  BY <1>1 DEF Rules, SomebodyAdministers, Holders, IsGlobalAdmin, Granted
<1> QED
  BY <1>1, <1>2, SerialDone DEF Serial

\* What is known of a request that writes, until requests overlap.
LEMMA Writes ==
  ASSUME Shape, Serial, NEW w \in Worker, NEW op \in Op, Ready(w, op)
  PROVE  LET r == req[w] IN
         /\ r.op = op /\ r # Free /\ r.target \in User /\ r.actor \in User /\ r.role \in Role
         /\ ~overlap => /\ Rules /\ Current(r) /\ Allowed(r)
                        /\ IsGlobalAdmin(r.actor) /\ r.read = people[r.target]
<1>1. req[w].op = op /\ req[w].at = "decided"
  BY DEF Ready
<1>2. req[w] # Free /\ req[w].target \in User /\ req[w].actor \in User /\ req[w].role \in Role
  BY <1>1 DEF Free, Op, Shape, InFlightOK, TypeOK, Request
<1> QED
  BY <1>1, <1>2 DEF Serial, Current

LEMMA GrantRoleSerial ==
  ASSUME Shape, Serial, NEW w \in Worker, NEW g \in GrantId, GrantRole(w, g) PROVE Serial'
<1> DEFINE r == req[w]
<1>1. /\ Ready(w, "grant") /\ "grant" \in Op /\ g \in GrantId \ drawn
      /\ grants' = Insert(g, r.target, r.role)
      /\ people' = Bumped(r) /\ UNCHANGED <<seats, given>> /\ Done(w)
  BY DEF GrantRole, Op
<1>2. ASSUME ~overlap PROVE Rules'
  <2>1. /\ Rules /\ ~Granted(r.target, r.role) /\ r.target \in User /\ r.role \in Role
        /\ r.op \in Op
    BY <1>1, <1>2, Writes DEF Allowed, Repeated
  <2>2. \A u \in User : people'[u].status = people[u].status
    BY <1>1, <2>1, BumpedIs
  <2>3. /\ \A f, h \in DOMAIN grants' : grants'[f] = grants'[h] => f = h
        /\ \A h \in DOMAIN grants : h \in DOMAIN grants' /\ grants'[h] = grants[h]
    BY <1>1, <2>1, UniqueInsert
  <2>4. SomebodyAdministers'
    BY <2>1, <2>2, <2>3, AdministersStill DEF Rules
  <2>5. SEATS # NULL => Cardinality(seats \ given)' <= SEATS
    BY <1>1, <2>1, PaidStill
  <2> QED
    BY <2>3, <2>4, <2>5 DEF Rules
<1>3. req[w] # Free
  BY <1>1, Writes
<1> QED
  BY <1>1, <1>2, <1>3, SerialDone

LEMMA RevokeSerial ==
  ASSUME Shape, Serial, NEW w \in Worker, RevokeRole(w) PROVE Serial'
<1> DEFINE r == req[w]
<1>1. /\ Ready(w, "revoke") /\ "revoke" \in Op /\ grants' = Without({r.grant})
      /\ people' = Bumped(r) /\ UNCHANGED <<seats, given>> /\ Done(w)
  BY DEF RevokeRole, Op
<1>2. ASSUME ~overlap PROVE Rules'
  <2>1. /\ Rules /\ Current(r) /\ r.op = "revoke" /\ r.target \in User /\ r.actor \in User
        /\ IsGlobalAdmin(r.actor) /\ r.read = people[r.target]
        /\ r.role = "global_admin" => ~WouldRemoveLastAdmin(r)
    BY <1>1, <1>2, Writes DEF Allowed
  <2>2. r.grant \in DOMAIN grants /\ grants[r.grant] = [user |-> r.target, role |-> r.role]
    BY <1>1, <2>1 DEF Current
  <2>3. \A u \in User : people'[u].status = people[u].status
    BY <1>1, <2>1, BumpedIs
  <2>4. \E u \in Holders : r.role = "global_admin" => u # r.target
    BY <2>1, Another DEF Rules, SomebodyAdministers
  <2>5. PICK u \in Holders : r.role = "global_admin" => u # r.target
    BY <2>4
  <2>6. PICK g \in DOMAIN grants : grants[g] = [user |-> u, role |-> "global_admin"]
    BY HolderHas
  <2>7. g # r.grant
    <3>1. CASE r.role = "global_admin"
      BY <2>2, <2>5, <2>6, <3>1
    <3>2. CASE r.role # "global_admin"
      BY <2>2, <2>6, <3>2
    <3> QED
      BY <3>1, <3>2
  <2>8. g \in DOMAIN grants' /\ grants'[g] = grants[g]
    BY <1>1, <2>6, <2>7, WithoutIs
  <2>9. SomebodyAdministers'
    BY <2>3, <2>6, <2>8, HolderHas, Administers
  <2>10. \A f, h \in DOMAIN grants' : grants'[f] = grants'[h] => f = h
    BY <1>1, <2>1, UniqueWithout
  <2>11. SEATS # NULL => Cardinality(seats \ given)' <= SEATS
    BY <1>1, <2>1, PaidStill
  <2> QED
    BY <2>9, <2>10, <2>11 DEF Rules
<1>3. req[w] # Free
  BY <1>1, Writes
<1> QED
  BY <1>1, <1>2, <1>3, SerialDone

LEMMA StatusSerial ==
  ASSUME Shape, Serial, NEW w \in Worker, SetUserStatus(w) PROVE Serial'
<1> DEFINE r == req[w]
           status == IF r.op = "suspend" THEN "suspended" ELSE "active"
<1>1. PICK op \in {"suspend", "activate"} : Ready(w, op)
  BY DEF SetUserStatus
<1>2. /\ op \in Op /\ r.op = op /\ Done(w)
      /\ people' = [Bumped(r) EXCEPT ![r.target].status = status]
      /\ UNCHANGED <<grants, seats, given>>
  BY <1>1 DEF SetUserStatus, Ready, Op
<1>3. ASSUME ~overlap PROVE Rules'
  <2>1. /\ Rules /\ r.target \in User /\ r.actor \in User
        /\ IsGlobalAdmin(r.actor) /\ r.read = people[r.target]
        /\ r.op = "suspend" => ~WouldRemoveLastAdmin(r)
    BY <1>1, <1>2, <1>3, Writes DEF Allowed
  <2>2. /\ Bumped(r) \in [User -> Person]
        /\ \A u \in User : Bumped(r)[u].status = people[u].status
    BY <1>2, BumpedIs
  <2>3. /\ people'[r.target].status = status
        /\ \A u \in User \ {r.target} : people'[u].status = people[u].status
    BY <1>2, <2>1, <2>2 DEF Person
  <2>4. \E u \in Holders : r.op = "suspend" => u # r.target
    BY <2>1, Another DEF Rules, SomebodyAdministers
  <2>5. PICK u \in Holders : r.op = "suspend" => u # r.target
    BY <2>4
  <2>6. people'[u].status = "active"
    BY <2>3, <2>5, HolderHas
  <2>7. SomebodyAdministers'
    BY <1>2, <2>6, HolderHas, Administers
  <2>8. \A f, h \in DOMAIN grants' : grants'[f] = grants'[h] => f = h
    BY <1>2, <2>1 DEF Rules
  <2>9. SEATS # NULL => Cardinality(seats \ given)' <= SEATS
    BY <1>2, <2>1, PaidStill
  <2> QED
    BY <2>7, <2>8, <2>9 DEF Rules
<1>4. req[w] # Free
  BY <1>1, <1>2, Writes
<1> QED
  BY <1>2, <1>3, <1>4, SerialDone

LEMMA DeleteSerial ==
  ASSUME Shape, Serial, NEW w \in Worker, DeleteUser(w) PROVE Serial'
<1> DEFINE r == req[w]
           G == {g \in DOMAIN grants : grants[g].user = r.target}
<1>1. /\ Ready(w, "delete") /\ "delete" \in Op /\ Done(w)
      /\ people' = [people EXCEPT ![r.target].status = "deleted"]
      /\ grants' = Without(G) /\ seats' = seats \ {r.target} /\ given' = given \ {r.target}
  BY DEF DeleteUser, Op
<1>2. ASSUME ~overlap PROVE Rules'
  <2>1. /\ Rules /\ r.target \in User /\ r.actor \in User /\ r.op = "delete"
        /\ IsGlobalAdmin(r.actor) /\ r.read = people[r.target] /\ ~WouldRemoveLastAdmin(r)
    BY <1>1, <1>2, Writes DEF Allowed
  <2>2. PICK u \in Holders : u # r.target
    BY <2>1, Another DEF Rules
  <2>3. PICK g \in DOMAIN grants : grants[g] = [user |-> u, role |-> "global_admin"]
    BY HolderHas
  <2>4. g \notin G
    BY <2>2, <2>3
  <2> HIDE DEF G
  <2>5. g \in DOMAIN grants' /\ grants'[g] = grants[g]
    BY <1>1, <2>3, <2>4, WithoutIs
  <2>6. people'[u].status = "active"
    BY <1>1, <2>2, HolderHas DEF Shape, TypeOK
  <2>7. SomebodyAdministers'
    BY <2>3, <2>5, <2>6, HolderHas, Administers
  <2>8. \A f, h \in DOMAIN grants' : grants'[f] = grants'[h] => f = h
    BY <1>1, <2>1, UniqueWithout
  <2>9. SEATS # NULL => Cardinality(seats \ given)' <= SEATS
    <3>1. (seats \ given)' \subseteq seats \ given
      BY <1>1
    <3> QED
      BY <2>1, <3>1, PaidStill
  <2> QED
    BY <2>7, <2>8, <2>9 DEF Rules
<1>3. req[w] # Free
  BY <1>1, Writes
<1> QED
  BY <1>1, <1>2, <1>3, SerialDone

LEMMA AssignSerial ==
  ASSUME Shape, Serial, NEW w \in Worker, AssignLicense(w) PROVE Serial'
<1> DEFINE r == req[w]
<1>1. /\ Ready(w, "assign") /\ "assign" \in Op /\ Done(w) /\ people' = Bumped(r)
      /\ seats' = seats \cup {r.target} /\ UNCHANGED <<grants, given>>
  BY DEF AssignLicense, Op
<1>2. ASSUME ~overlap PROVE Rules'
  <2>1. Rules /\ r.op = "assign" /\ r.target \notin seats /\ SeatFree
    BY <1>1, <1>2, Writes DEF Allowed
  <2>2. \A u \in User : people'[u].status = people[u].status
    BY <1>1, <2>1, BumpedIs
  <2>3. SomebodyAdministers'
    BY <1>1, <2>1, <2>2, AdministersStill DEF Rules
  <2>4. SEATS # NULL => Cardinality(seats \ given)' <= SEATS
    <3>1. /\ IsFiniteSet(seats) /\ Cardinality(seats) \in Nat /\ IsFiniteSet(seats')
          /\ Cardinality(seats') = Cardinality(seats) + 1
      BY <1>1, <2>1, FS_AddElement, FS_CardinalityType DEF Shape
    <3>2. (seats \ given)' \subseteq seats'
      OBVIOUS
    <3>3. Cardinality((seats \ given)') <= Cardinality(seats') /\ Cardinality((seats \ given)') \in Nat
      BY <3>1, <3>2, FS_Subset, FS_CardinalityType
    <3> QED
      BY <2>1, <3>1, <3>3, AccountsAssumption DEF SeatFree
  <2> QED
    BY <1>1, <2>1, <2>3, <2>4 DEF Rules
<1>3. req[w] # Free
  BY <1>1, Writes
<1> QED
  BY <1>1, <1>2, <1>3, SerialDone

LEMMA RemoveSerial ==
  ASSUME Shape, Serial, NEW w \in Worker, RemoveLicense(w) PROVE Serial'
<1> DEFINE r == req[w]
<1>1. /\ Ready(w, "remove") /\ "remove" \in Op /\ Done(w) /\ people' = Bumped(r)
      /\ seats' = seats \ {r.target} /\ given' = given \ {r.target} /\ UNCHANGED grants
  BY DEF RemoveLicense, Op
<1>2. ASSUME ~overlap PROVE Rules'
  <2>1. Rules /\ r.op = "remove"
    BY <1>1, <1>2, Writes
  <2>2. \A u \in User : people'[u].status = people[u].status
    BY <1>1, <2>1, BumpedIs
  <2>3. SomebodyAdministers'
    BY <1>1, <2>1, <2>2, AdministersStill DEF Rules
  <2>4. SEATS # NULL => Cardinality(seats \ given)' <= SEATS
    <3>1. (seats \ given)' \subseteq seats \ given
      BY <1>1
    <3> QED
      BY <2>1, <3>1, PaidStill
  <2> QED
    BY <1>1, <2>1, <2>3, <2>4 DEF Rules
<1>3. req[w] # Free
  BY <1>1, Writes
<1> QED
  BY <1>1, <1>2, <1>3, SerialDone

LEMMA CreateSerial ==
  ASSUME Shape, Serial, NEW w \in Worker, NEW u \in User, NEW status \in {"active", "suspended"},
         CreateUser(w, u, status)
  PROVE  Serial'
<1>1. /\ Creatable(u) /\ people' = [people EXCEPT ![u] = New(status)] /\ Arrives(w)
      /\ req[w] = Free /\ UNCHANGED <<grants, seats, given, req>>
  BY DEF CreateUser
<1>2. CASE overlap'
  BY <1>2 DEF Serial
<1>3. CASE ~overlap'
  <2>1. Rules /\ \A v \in Worker : req'[v] = Free
    BY <1>1, <1>3, ArrivesAlone
  <2>2. Alone' /\ (\A v \in Worker : Current(req[v]))'
    BY <2>1, FreeCurrent DEF Alone
  <2>3. people[u].status = "absent" /\ \A v \in User \ {u} : people'[v] = people[v]
    BY <1>1 DEF Creatable, Shape, TypeOK
  <2>4. SomebodyAdministers'
    BY <1>1, <2>1, <2>3, AdministersStill DEF Rules
  <2>5. Rules'
    BY <1>1, <2>1, <2>4 DEF Rules
  <2> QED
    BY <2>2, <2>5 DEF Serial
<1> QED
  BY <1>2, <1>3

LEMMA SeedReadSerial ==
  ASSUME Shape, Serial, NEW w \in Worker, NEW u \in Bootstrap, SeedRead(w, u) PROVE Serial'
<1> DEFINE adds == {a \in Seeded :
                      CASE a = "account" -> ~Exists(u)
                        [] a = "role"    -> ~Granted(u, "global_admin")
                        [] a = "seat"    -> u \notin seats}
           r == [Free EXCEPT !.op = "seed", !.at = "decided", !.target = u, !.adds = adds]
<1>1. "role" \in adds => ~Granted(u, "global_admin")
  OBVIOUS
<1>2. req' = [req EXCEPT ![w] = r] /\ Arrives(w) /\ UNCHANGED <<people, grants, drawn, seats, given>>
  BY DEF SeedRead
<1> HIDE DEF adds
<1>3. r.op = "seed" /\ r.target = u /\ r.adds = adds
  BY DEF Free
<1> HIDE DEF r
<1>4. r.op \notin Op
  BY <1>3 DEF Op
<1>5. Current(r)
  BY <1>1, <1>3, <1>4 DEF Current
<1> QED
  BY <1>2, <1>5, ArrivesAlone, SerialReads

LEMMA SeedCommitSerial ==
  ASSUME Shape, Serial, NEW w \in Worker, NEW g \in GrantId \cup {NULL}, SeedCommit(w, g)
  PROVE  Serial'
<1>0. PICK u \in User : u = req[w].target
  BY SeedCommitIs
<1>1. req[w].op = "seed" /\ Done(w) /\ req[w] # Free
  BY SeedCommitIs, NotFree
<1>2. ASSUME ~overlap PROVE Rules'
  <2>1. Rules /\ ("role" \in req[w].adds => ~Granted(u, "global_admin"))
    BY <1>0, <1>1, <1>2 DEF Serial, Current
  <2>2. \A v \in User : people[v].status = "active" => people'[v].status = "active"
    BY <1>0, SeedCommitIs
  <2>3. /\ \A f, h \in DOMAIN grants' : grants'[f] = grants'[h] => f = h
        /\ \A h \in DOMAIN grants : h \in DOMAIN grants' /\ grants'[h] = grants[h]
    <3>1. CASE grants' = grants
      BY <2>1, <3>1 DEF Rules
    <3>2. CASE /\ "role" \in req[w].adds /\ g \in GrantId \ drawn
               /\ grants' = Insert(g, u, "global_admin")
      <4>1. "global_admin" \in Role
        BY DEF Role
      <4> QED
        BY <2>1, <3>2, <4>1, UniqueInsert
    <3> QED
      BY <1>0, <3>1, <3>2, SeedCommitIs
  <2>4. SomebodyAdministers'
    BY <2>1, <2>2, <2>3, AdministersStill DEF Rules
  <2>5. (seats \ given)' \subseteq seats \ given
    BY <1>0, SeedCommitIs
  <2>6. SEATS # NULL => Cardinality(seats \ given)' <= SEATS
    BY <2>1, <2>5, PaidStill
  <2> QED
    BY <2>3, <2>4, <2>6 DEF Rules
<1> QED
  BY <1>1, <1>2, SerialDone

LEMMA SerialInit == ASSUME Init PROVE Serial
<1>1. \A w \in Worker : req[w] = Free
  BY DEF Init
<1>2. PICK u \in Bootstrap : Exists(u)
  BY DEF Init
<1>3. SomebodyAdministers
  BY <1>2 DEF Init, SomebodyAdministers
<1>4. SEATS # NULL => Cardinality(seats \ given) <= SEATS
  <2>1. seats \ given = {}
    BY DEF Init
  <2>2. Cardinality(seats \ given) = 0
    BY <2>1, FS_EmptySet
  <2> QED
    BY <2>2, AccountsAssumption
<1> QED
  BY <1>1, <1>3, <1>4, FreeCurrent DEF Init, Serial, Alone, Rules

LEMMA SerialStep == ASSUME Shape, Serial, [Next]_vars PROVE Serial'
<1>1. CASE UNCHANGED vars
  BY <1>1 DEF vars, Serial, Alone, Rules, Current, SomebodyAdministers, Holders, IsGlobalAdmin,
              Granted, Exists, Allowed, Repeated, WouldRemoveLastAdmin, HoldersSeen, SeatFree
<1>2. ASSUME NEW w \in Worker, Serve(w) PROVE Serial'
  BY <1>2, BeginSerial, DecideSerial, RefuseSerial, GrantRoleSerial, RevokeSerial, StatusSerial,
     DeleteSerial, AssignSerial, RemoveSerial, CreateSerial, SeedReadSerial, SeedCommitSerial
     DEF Serve
<1> QED
  BY <1>1, <1>2 DEF Next

LEMMA SerialAlways == Spec => [](Shape /\ Serial)
<1>1. Init => Shape /\ Serial
  BY ShapeInit, SerialInit
<1>2. Shape /\ Serial /\ [Next]_vars => (Shape /\ Serial)'
  BY ShapeStep, SerialStep
<1> QED
  BY <1>1, <1>2, PTL DEF Spec

-----------------------------------------------------------------------------
(* The permissions version.                                                 *)

\* What may be different of somebody, without a version that moved.
AsBefore(u) ==
  /\ people'[u].status = people[u].status
  /\ \A role \in Role : Granted(u, role)' <=> Granted(u, role)
  /\ u \in seats' <=> u \in seats

Moved(u) == ~Exists(u) \/ ~Exists(u)' \/ people'[u].version > people[u].version

\* A write of a request that nobody overlaps moves the version of its target, and
\* nothing else is of anybody else.
LEMMA BumpMoves ==
  ASSUME Shape, Serial, ~overlap, NEW w \in Worker, NEW op \in Op, Ready(w, op),
         people' = Bumped(req[w]),
         \A u \in User \ {req[w].target} :
           /\ \A role \in Role : Granted(u, role)' <=> Granted(u, role)
           /\ u \in seats' <=> u \in seats
  PROVE  \A u \in User : AsBefore(u) \/ Moved(u)
<1> DEFINE r == req[w]
<1>1. r.op \in Op /\ r.read = people[r.target]
  BY Writes
<1>2. /\ r.target \in User /\ r.read.version \in Nat
      /\ people'[r.target].version = r.read.version + 1
      /\ \A u \in User : people'[u].status = people[u].status
  BY <1>1, BumpedIs
<1>3. people'[r.target].version > people[r.target].version
  BY <1>1, <1>2
<1> QED
  BY <1>2, <1>3 DEF AsBefore, Moved

\* Rows of one person's come and go without a change for another.
LEMMA OthersInsert ==
  ASSUME Shape, NEW g \in GrantId \ drawn, NEW t \in User, NEW role \in Role,
         grants' = Insert(g, t, role)
  PROVE  \A u \in User \ {t} : \A any \in Role : Granted(u, any)' <=> Granted(u, any)
<1>1. /\ DOMAIN grants' = DOMAIN grants \cup {g}
      /\ grants'[g] = [user |-> t, role |-> role]
      /\ \A h \in DOMAIN grants : grants'[h] = grants[h]
  BY InsertIs
<1>2. ASSUME NEW u \in User \ {t}, NEW any \in Role
      PROVE  Granted(u, any)' <=> Granted(u, any)
  <2>1. grants'[g] # [user |-> u, role |-> any]
    BY <1>1
  <2> QED
    BY <1>1, <2>1 DEF Granted
<1> QED
  BY <1>2

LEMMA OthersWithout ==
  ASSUME Shape, NEW G, NEW t, \A g \in G : grants[g].user = t, grants' = Without(G)
  PROVE  \A u \in User \ {t} : \A any \in Role : Granted(u, any)' <=> Granted(u, any)
<1>1. /\ DOMAIN grants' = DOMAIN grants \ G
      /\ \A h \in DOMAIN grants \ G : grants'[h] = grants[h]
  BY WithoutIs
<1>2. ASSUME NEW u \in User \ {t}, NEW any \in Role
      PROVE  Granted(u, any)' <=> Granted(u, any)
  <2>1. \A g \in G : grants[g] # [user |-> u, role |-> any]
    BY <1>2
  <2> QED
    BY <1>1, <2>1 DEF Granted
<1> QED
  BY <1>2

LEMMA VersionStep ==
  ASSUME Shape, Serial, [Next]_vars, ~overlap', ~BySeed
  PROVE  \A u \in User : AsBefore(u) \/ Moved(u)
<1>1. CASE UNCHANGED <<people, grants, seats>>
  BY <1>1 DEF AsBefore, Granted
<1> SUFFICES ASSUME NEW w \in Worker, Serve(w) PROVE \A u \in User : AsBefore(u) \/ Moved(u)
  BY <1>1 DEF Next, vars
<1>2. ASSUME NEW op \in Op, NEW actor \in User, NEW target \in User, NEW role \in Role,
             NEW g \in GrantId \cup {NULL}, Begin(w, op, actor, target, role, g)
      PROVE  UNCHANGED <<people, grants, seats>>
  BY <1>2 DEF Begin
<1>3. CASE Decide(w) \/ Refuse(w)
  BY <1>1, <1>3 DEF Decide, Refuse
<1>4. ASSUME NEW g \in GrantId, GrantRole(w, g)
      PROVE  \A u \in User : AsBefore(u) \/ Moved(u)
  <2>1. /\ Ready(w, "grant") /\ "grant" \in Op /\ ~overlap /\ people' = Bumped(req[w])
        /\ seats' = seats /\ g \in GrantId \ drawn
        /\ grants' = Insert(g, req[w].target, req[w].role)
    BY <1>4 DEF GrantRole, Op, Done
  <2>2. req[w].target \in User /\ req[w].role \in Role
    BY <2>1, Writes
  <2>3. \A u \in User \ {req[w].target} : \A any \in Role : Granted(u, any)' <=> Granted(u, any)
    BY <2>1, <2>2, OthersInsert
  <2> QED
    BY <2>1, <2>3, BumpMoves
<1>5. CASE RevokeRole(w)
  <2>1. /\ Ready(w, "revoke") /\ "revoke" \in Op /\ ~overlap /\ people' = Bumped(req[w])
        /\ seats' = seats /\ grants' = Without({req[w].grant})
    BY <1>5 DEF RevokeRole, Op, Done
  <2>2. Current(req[w]) /\ req[w].op = "revoke"
    BY <2>1, Writes
  <2>3. \A h \in {req[w].grant} : grants[h].user = req[w].target
    BY <2>2 DEF Current, Op
  <2>4. \A u \in User \ {req[w].target} : \A any \in Role : Granted(u, any)' <=> Granted(u, any)
    BY <2>1, <2>3, OthersWithout
  <2> QED
    BY <2>1, <2>4, BumpMoves
<1>6. CASE SetUserStatus(w)
  <2> DEFINE r == req[w]
             status == IF r.op = "suspend" THEN "suspended" ELSE "active"
  <2>1. PICK op \in {"suspend", "activate"} : Ready(w, op)
    BY <1>6 DEF SetUserStatus
  <2>2. /\ op \in Op /\ r.op = op /\ ~overlap
        /\ people' = [Bumped(r) EXCEPT ![r.target].status = status]
        /\ UNCHANGED <<grants, seats>>
    BY <1>6, <2>1 DEF SetUserStatus, Ready, Op, Done
  <2> HIDE DEF status
  <2>3. r.read = people[r.target]
    BY <2>1, <2>2, Writes
  <2>4. /\ r.target \in User /\ r.read.version \in Nat /\ Bumped(r) \in [User -> Person]
        /\ Bumped(r)[r.target].version = r.read.version + 1
        /\ \A u \in User \ {r.target} : Bumped(r)[u] = people[u]
    BY <2>2, BumpedIs
  <2>5. people'[r.target].version = r.read.version + 1
    BY <2>2, <2>4 DEF Person
  <2>6. \A u \in User \ {r.target} : people'[u] = people[u]
    BY <2>2, <2>4
  <2>7. people'[r.target].version > people[r.target].version
    BY <2>3, <2>4, <2>5
  <2> QED
    BY <2>2, <2>6, <2>7 DEF AsBefore, Moved, Granted
<1>7. CASE DeleteUser(w)
  <2> DEFINE r == req[w]
             G == {h \in DOMAIN grants : grants[h].user = r.target}
  <2>1. /\ Ready(w, "delete") /\ "delete" \in Op
        /\ people' = [people EXCEPT ![r.target].status = "deleted"]
        /\ grants' = Without(G) /\ seats' = seats \ {r.target}
    BY <1>7 DEF DeleteUser, Op
  <2>2. r.target \in User /\ people \in [User -> Person]
    BY <2>1, Writes DEF Shape, TypeOK
  <2>3. people'[r.target].status = "deleted"
        /\ \A u \in User \ {r.target} : people'[u] = people[u]
    BY <2>1, <2>2 DEF Person
  <2>4. \A h \in G : grants[h].user = r.target
    OBVIOUS
  <2> HIDE DEF G
  <2>5. \A u \in User \ {r.target} : \A any \in Role : Granted(u, any)' <=> Granted(u, any)
    BY <2>1, <2>4, OthersWithout
  <2>6. \A u \in User \ {r.target} : AsBefore(u)
    BY <2>1, <2>3, <2>5 DEF AsBefore
  <2>7. \A u \in {r.target} : Moved(u)
    BY <2>3 DEF Moved, Exists
  <2> QED
    BY <2>6, <2>7
<1>8. CASE AssignLicense(w)
  <2>1. /\ Ready(w, "assign") /\ "assign" \in Op /\ ~overlap /\ people' = Bumped(req[w])
        /\ seats' = seats \cup {req[w].target} /\ UNCHANGED grants
    BY <1>8 DEF AssignLicense, Op, Done
  <2>2. \A u \in User \ {req[w].target} :
          /\ \A any \in Role : Granted(u, any)' <=> Granted(u, any)
          /\ u \in seats' <=> u \in seats
    BY <2>1 DEF Granted
  <2> QED
    BY <2>1, <2>2, BumpMoves
<1>9. CASE RemoveLicense(w)
  <2>1. /\ Ready(w, "remove") /\ "remove" \in Op /\ ~overlap /\ people' = Bumped(req[w])
        /\ seats' = seats \ {req[w].target} /\ UNCHANGED grants
    BY <1>9 DEF RemoveLicense, Op, Done
  <2>2. \A u \in User \ {req[w].target} :
          /\ \A any \in Role : Granted(u, any)' <=> Granted(u, any)
          /\ u \in seats' <=> u \in seats
    BY <2>1 DEF Granted
  <2> QED
    BY <2>1, <2>2, BumpMoves
<1>10. ASSUME NEW u \in User, NEW status \in {"active", "suspended"}, CreateUser(w, u, status)
       PROVE  \A v \in User : AsBefore(v) \/ Moved(v)
  <2>1. people[u].status = "absent" /\ \A v \in User \ {u} : people'[v] = people[v]
    BY <1>10 DEF CreateUser, Creatable, Shape, TypeOK
  <2>2. UNCHANGED <<grants, seats>>
    BY <1>10 DEF CreateUser
  <2>3. ~Exists(u)
    BY <2>1 DEF Exists
  <2> QED
    BY <2>1, <2>2, <2>3 DEF AsBefore, Moved, Granted
<1>11. ASSUME NEW u \in Bootstrap, SeedRead(w, u)
       PROVE  UNCHANGED <<people, grants, seats>>
  BY <1>11 DEF SeedRead
<1>12. ASSUME NEW g \in GrantId \cup {NULL}, SeedCommit(w, g) PROVE FALSE
  <2>1. req[w].op = "seed" /\ req'[w] = Free
    BY <1>12, DoneMoves DEF SeedCommit
  <2> QED
    BY <2>1 DEF BySeed
<1> QED
  BY <1>1, <1>2, <1>3, <1>4, <1>5, <1>6, <1>7, <1>8, <1>9, <1>10, <1>11, <1>12 DEF Serve

-----------------------------------------------------------------------------
(* The theorems.                                                            *)

\* models.py:332-366, accounts.py:248-263: the rows keep their types and refer to rows
\* there are, whatever overlaps: no grant and no seat outlives its account, even one
\* that was being given as it was deleted.
THEOREM TypeCorrect == Spec => []TypeOK
BY ShapeAlways, PTL DEF Shape

\* accounts.py:7-10, 69-76, 205-211, 227-233, 250-255: until requests overlap,
\* somebody administers.
THEOREM SomebodyAlways == Spec => []SomeGlobalAdmin
<1>1. Shape /\ Serial => SomeGlobalAdmin
  BY DEF Serial, Rules, SomeGlobalAdmin
<1> QED
  BY <1>1, SerialAlways, PTL

\* accounts.py:11, 417-419: until requests overlap, there are no more seats than are
\* paid for, those the seed gave back aside.
THEOREM SeatsBounded == Spec => []SeatsPaidFor
<1>1. Shape /\ Serial => SeatsPaidFor
  BY DEF Serial, Rules, SeatsPaidFor
<1> QED
  BY <1>1, SerialAlways, PTL

\* accounts.py:160-172: until requests overlap, nobody has a role twice at one scope,
\* at platform scope too, which the unique constraint does not see.
THEOREM GrantsUnique == Spec => []OneGrantPerScope
<1>1. Shape /\ Serial => OneGrantPerScope
  BY DEF Serial, Rules, OneGrantPerScope
<1> QED
  BY <1>1, SerialAlways, PTL

\* models.py:79-81, permissions.py:320-328: until requests overlap, whatever changes what
\* somebody may do, but for a run of the seed, moves the version of theirs.
THEOREM VersionsMove == Spec => VersionMovesWithAccess
<1> DEFINE Step ==
      ~overlap' /\ ~BySeed =>
        \A u \in User :
          LET rolesBefore == {role \in Role : Granted(u, role)}
              rolesAfter  == {role \in Role : Granted(u, role)'}
          IN  (Exists(u) /\ Exists(u)' /\
               (rolesAfter # rolesBefore \/ (u \in seats') # (u \in seats)
                \/ people'[u].status # people[u].status))
              => people'[u].version > people[u].version
<1>1. Shape /\ Serial /\ [Next]_vars => [Step]_vars
  <2> SUFFICES ASSUME Shape, Serial, [Next]_vars, ~overlap', ~BySeed, NEW u \in User,
                      Exists(u), Exists(u)', ~(people'[u].version > people[u].version)
               PROVE  /\ {role \in Role : Granted(u, role)'} = {role \in Role : Granted(u, role)}
                      /\ (u \in seats') = (u \in seats)
                      /\ people'[u].status = people[u].status
    BY Zenon
  <2>1. AsBefore(u)
    BY VersionStep DEF Moved
  <2> QED
    BY <2>1 DEF AsBefore
<1> QED
  BY <1>1, SerialAlways, PTL DEF Spec, VersionMovesWithAccess
=============================================================================
