---------------------------- MODULE ImportProofs ----------------------------
(***************************************************************************)
(* What ImportUsers promises, and what the modules it is composed of do:    *)
(* for any people, roles, files, batches, requests and runs.  Types, what   *)
(* a batch carries out and whose passwords are in the file hold whatever    *)
(* overlaps; that nobody holds a role that goes, until requests overlap.    *)
(***************************************************************************)
EXTENDS ImportUsers, FiniteSetTheorems, TLAPS

-----------------------------------------------------------------------------
(* What requests in flight have of their own.                               *)

Touched(r) == r.create \cup r.add \cup r.seat

InFlightOK(r) ==
  /\ r.op = "patch" =>
       /\ r.role \in Role /\ r.wanted \in RoleRow /\ r.wanted.key = r.read.key
       /\ \A p \in DOMAIN r.holders : r.holders[p] \in Version
  /\ r.op = "delete" => r.role \in Role \ Builtin
  /\ r.op = "validate" => r.file \in File /\ r.keys \in [DOMAIN r.file -> Name \cup {Null}]
  /\ r.op \in {"commit", "mismatch", "apply", "applied"} =>
       r.batch \in Batch /\ batches[r.batch] # Null
  /\ r.op = "commit" => r.keys \in [DOMAIN batches[r.batch].file -> Name \cup {Null}]
  /\ r.op = "apply" => r.rows = batches[r.batch].preview /\ r.rows # {}
  /\ r.op = "applied" => applied[r.batch] > 0
  /\ r.op \in {"planned", "written"} =>
       /\ r.file \in CliFile /\ Touched(r) \subseteq DOMAIN r.file
       /\ r = [op |-> r.op, file |-> r.file, create |-> r.create, add |-> r.add, seat |-> r.seat]
  /\ r.op = "written" => r.create \cap people = {} /\ r.add \cup r.seat \subseteq people

\* No two transactions have written to one account.
Apart ==
  \A v, w \in Worker :
    v # w /\ req[v].op = "written" /\ req[w].op = "written" =>
      Touched(req[v]) \cap Touched(req[w]) = {}

\* A preview has an address once, and nothing is carried out but previews.
BatchesOK ==
  \A b \in Batch :
    /\ batches[b] = Null => applied[b] = 0
    /\ batches[b] # Null =>
         \A r, s \in batches[b].preview : r.email = s.email => r = s

Requests ==
  /\ req = [w \in Worker |-> req[w]]
  /\ \A w \in Worker : InFlightOK(req[w])
  /\ Apart

Shape == TypeOK /\ Requests /\ BatchesOK

-----------------------------------------------------------------------------
(* What a batch says.                                                       *)

Told ==
  \A b \in Batch : batches[b] # Null /\ batches[b].status \in {"success", "warnings"} =>
    applied[b] > 0 /\ (batches[b].status = "success" <=> Whole(b))

\* Commits of one batch that do not overlap, and are not cut off, come one after
\* the other, whatever else is in flight.
OneByOne(b) ==
  /\ \A v, w \in Worker : CommitOf(v, b) /\ CommitOf(w, b) => v = w
  /\ \A w \in Worker : CommitOf(w, b) =>
       /\ batches[b].status = "pending"
       /\ applied[b] = IF req[w].op = "applied" THEN 1 ELSE 0
  /\ applied[b] <= 1
  /\ batches[b] # Null /\ batches[b].status \in {"pending", "failed"} =>
       \/ applied[b] = 0
       \/ \E w \in Worker : req[w].op = "applied" /\ req[w].batch = b

Orderly == \A b \in Batch : b \notin contested => OneByOne(b)

-----------------------------------------------------------------------------
(* Whose passwords are in the file.                                         *)

\* A run that has written, and not committed, has a file of its own.
Writing(r) == r.op = "written" /\ TemporaryOf(r) # {}

FileIsOfRun ==
  /\ \A w \in Worker : Writing(req[w]) =>
       disk = [p \in Person |-> IF p \in TemporaryOf(req[w]) THEN runs ELSE 0]
  /\ \A v, w \in Worker : Writing(req[v]) /\ Writing(req[w]) => v = w

\* The file says of nobody a password that is not theirs.
FileIsTrue ==
  \A p \in Person : temp[p] # 0 =>
    p \in people /\ (disk # Null => disk[p] \in {0, temp[p]})

\* A temporary password is where it can be found, or its run was not told of it.
Found ==
  \A p \in people : temp[p] # 0 =>
    \/ temp[p] \in lost
    \/ temp[p] = handed[p]
    \/ disk # Null /\ disk[p] = temp[p]

Kept == FileIsOfRun /\ FileIsTrue /\ Found

-----------------------------------------------------------------------------
(* Until requests overlap.                                                  *)

Alone == \A v, w \in Worker : req[v] # Free /\ req[w] # Free => v = w

Current(r) ==
  /\ r.op = "patch" =>
       /\ r.role \in Existing /\ r.read = roles[r.role]
       /\ r.holders = [p \in HoldersOf(r.role) |-> version[p]]
  /\ r.op = "delete" => HoldersOf(r.role) = {}

Serial == ~overlap => Alone /\ \A w \in Worker : Current(req[w])

Inv == Shape /\ Told /\ Orderly /\ Kept /\ Serial

-----------------------------------------------------------------------------
(* Requests: those an action leaves alone, and the one it moves.            *)

\* What no action undoes.
BatchesKept ==
  \A b \in Batch : batches[b] # Null =>
    /\ batches'[b] # Null
    /\ batches'[b].file = batches[b].file /\ batches'[b].preview = batches[b].preview
    /\ applied'[b] >= applied[b]

\* What a transaction has written to is as it found it.
WrittenKept(v) ==
  req[v].op = "written" =>
    req[v].create \cap people' = {} /\ req[v].add \cup req[v].seat \subseteq people'

LEMMA RequestKept ==
  ASSUME NEW q, InFlightOK(q), BatchesKept, applied \in [Batch -> Int], applied' \in [Batch -> Int],
         q.op = "written" => q.create \cap people' = {} /\ q.add \cup q.seat \subseteq people'
  PROVE  InFlightOK(q)'
<1>1. /\ q.op = "patch" =>
           /\ q.role \in Role /\ q.wanted \in RoleRow /\ q.wanted.key = q.read.key
           /\ \A p \in DOMAIN q.holders : q.holders[p] \in Version
      /\ q.op = "delete" => q.role \in Role \ Builtin
      /\ q.op = "validate" => q.file \in File /\ q.keys \in [DOMAIN q.file -> Name \cup {Null}]
  BY DEF InFlightOK
<1>2. q.op \in {"commit", "mismatch", "apply", "applied"} =>
        /\ q.batch \in Batch /\ batches[q.batch] # Null /\ batches'[q.batch] # Null
        /\ batches'[q.batch].file = batches[q.batch].file
        /\ batches'[q.batch].preview = batches[q.batch].preview
        /\ applied'[q.batch] >= applied[q.batch]
  BY DEF InFlightOK, BatchesKept
<1>3. /\ q.op = "commit" => q.keys \in [DOMAIN batches'[q.batch].file -> Name \cup {Null}]
      /\ q.op = "apply" => q.rows = batches'[q.batch].preview /\ q.rows # {}
  BY <1>2 DEF InFlightOK
<1>4. q.op = "applied" => applied'[q.batch] > 0
  <2> SUFFICES ASSUME q.op = "applied" PROVE applied'[q.batch] > 0
    OBVIOUS
  <2>1. q.batch \in Batch /\ applied'[q.batch] >= applied[q.batch] /\ applied[q.batch] > 0
    BY <1>2 DEF InFlightOK
  <2> QED
    BY <2>1
<1>5. /\ q.op \in {"planned", "written"} =>
           /\ q.file \in CliFile /\ Touched(q) \subseteq DOMAIN q.file
           /\ q = [op |-> q.op, file |-> q.file, create |-> q.create, add |-> q.add, seat |-> q.seat]
      /\ q.op = "written" => q.create \cap people' = {} /\ q.add \cup q.seat \subseteq people'
  BY DEF InFlightOK
<1> QED
  BY <1>1, <1>2, <1>3, <1>4, <1>5 DEF InFlightOK

\* Requests that stand are as they were; one that moves has written nothing yet.
LEMMA RequestsKept ==
  ASSUME Requests, BatchesKept, applied \in [Batch -> Int], applied' \in [Batch -> Int],
         req' = [v \in Worker |-> req'[v]],
         \A v \in Worker :
           (req'[v] = req[v] /\ WrittenKept(v)) \/ (req'[v].op # "written" /\ InFlightOK(req[v])')
  PROVE  Requests'
<1>1. ASSUME NEW v \in Worker PROVE InFlightOK(req[v])'
  <2>1. CASE req'[v] = req[v] /\ WrittenKept(v)
    <3>1. PICK q : q = req[v]
      OBVIOUS
    <3>2. InFlightOK(q)
      BY <3>1 DEF Requests
    <3>3. InFlightOK(q)'
      BY <2>1, <3>1, <3>2, RequestKept DEF WrittenKept
    <3> QED
      BY <2>1, <3>1, <3>3
  <2> QED
    BY <2>1
<1>2. Apart'
  BY DEF Requests, Apart, Touched
<1> QED
  BY <1>1, <1>2 DEF Requests

\* Put, of a request that has not written.
LEMMA PutKept ==
  ASSUME Requests, BatchesKept, applied \in [Batch -> Int], applied' \in [Batch -> Int],
         NEW w \in Worker, NEW r, req' = [req EXCEPT ![w] = r],
         r.op # "written", InFlightOK(r)', \A v \in Worker \ {w} : WrittenKept(v)
  PROVE  Requests'
<1>1. req' = [v \in Worker |-> req'[v]] /\ req'[w] = r /\ \A v \in Worker \ {w} : req'[v] = req[v]
  BY DEF Requests
<1>2. req'[w].op # "written" /\ InFlightOK(req[w])'
  BY <1>1
<1>3. ASSUME NEW v \in Worker
      PROVE  (req'[v] = req[v] /\ WrittenKept(v)) \/ (req'[v].op # "written" /\ InFlightOK(req[v])')
  BY <1>1, <1>2
<1> QED
  BY <1>1, <1>3, RequestsKept

-----------------------------------------------------------------------------
(* The roles: what each request leaves.                                     *)

Base == ImportTypeOK /\ Requests /\ BatchesOK

\* The batches' part of it, where no batch changes.
LEMMA BaseOfRoles ==
  ASSUME Base, RolesTypeOK', Requests', UNCHANGED <<batches, applied, contested>>
  PROVE  Base'
  BY DEF Base, ImportTypeOK, BatchesOK

LEMMA NothingMoves ==
  ASSUME Base, UNCHANGED <<batches, applied>>
  PROVE  BatchesKept /\ applied \in [Batch -> Int] /\ applied' \in [Batch -> Int]
<1>1. applied \in [Batch -> 0..MaxApplied] /\ MaxApplied = 2
  BY DEF Base, ImportTypeOK, MaxApplied
<1>2. applied \in [Batch -> Int]
  BY <1>1
<1> QED
  BY <1>2 DEF BatchesKept

\* A request at once leaves those in flight.
LEMMA AtOnceKept ==
  ASSUME Base, AtOnce, UNCHANGED <<batches, applied>>, \A v \in Worker : WrittenKept(v)
  PROVE  Requests'
<1>1. req' = req /\ req' = [v \in Worker |-> req'[v]]
  BY DEF AtOnce, Base, Requests
<1> QED
  BY <1>1, NothingMoves, RequestsKept DEF Base

\* Where the people stay, what was written stays as it was found.
LEMMA WrittenStays ==
  ASSUME Requests, people' = people
  PROVE  \A v \in Worker : WrittenKept(v)
  BY DEF Requests, InFlightOK, WrittenKept

LEMMA FreeKept ==
  ASSUME Base, NEW w \in Worker, req' = [req EXCEPT ![w] = Free],
         BatchesKept, applied' \in [Batch -> Int],
         \A v \in Worker \ {w} : WrittenKept(v)
  PROVE  Requests'
<1>1. PICK r : r = Free
  OBVIOUS
<1>2. r.op = "none"
  BY <1>1 DEF Free
<1>3. r.op # "written" /\ InFlightOK(r)'
  BY <1>2 DEF InFlightOK
<1>4. applied \in [Batch -> 0..MaxApplied] /\ MaxApplied = 2
  BY DEF Base, ImportTypeOK, MaxApplied
<1>5. applied \in [Batch -> Int]
  BY <1>4
<1> QED
  BY <1>1, <1>3, <1>5, PutKept DEF Base

LEMMA Overlaps ==
  ASSUME overlap \in BOOLEAN
  PROVE  /\ \A w, r : Put(w, r) => overlap' \in BOOLEAN /\ (overlap => overlap')
         /\ AtOnce => overlap' \in BOOLEAN /\ (overlap => overlap')
  BY DEF Put, AtOnce

LEMMA Counted ==
  ASSUME requests \in 0..MaxRequests, Count
  PROVE  requests' \in 0..MaxRequests
  BY RolesAssumption DEF Count

LEMMA Bumped ==
  ASSUME version \in [Person -> Version], NEW S, Bump(S)
  PROVE  version' \in [Person -> Version]
  BY RolesAssumption DEF Bump, Version

LEMMA CreateRoleKeeps ==
  ASSUME Base, NEW r \in Role, NEW name \in Name, NEW source \in Existing \cup {Null},
         CreateRole(r, name, source), UNCHANGED <<batches, applied, contested>>
  PROVE  Base'
<1> DEFINE row == [key |-> name, name |-> name,
                   allows |-> IF source = Null THEN FALSE ELSE roles[source].allows]
<1>1. RolesTypeOK
  BY DEF Base, ImportTypeOK
<1>2. row \in RoleRow /\ row.key = name
  <2>1. PICK b \in BOOLEAN : b = IF source = Null THEN FALSE ELSE roles[source].allows
    <3>1. CASE source = Null
      BY <3>1
    <3>2. CASE source # Null
      <4>1. roles[source] \in RoleRow
        BY <3>2, <1>1 DEF RolesTypeOK
      <4>2. roles[source].allows \in BOOLEAN
        BY <4>1 DEF RoleRow
      <4> QED
        BY <3>2, <4>2, Zenon
    <3> QED
      BY <3>1, <3>2
  <2>2. row = [key |-> name, name |-> name, allows |-> b]
    BY <2>1
  <2> QED
    BY <2>2 DEF RoleRow
<1>3. roles' = [s \in Existing \cup {r} |-> IF s # r THEN roles[s] ELSE row]
  BY DEF CreateRole
<1> HIDE DEF row
<1>4. Existing' = Existing \cup {r} /\ r \notin Existing
  BY <1>1, <1>3 DEF Existing, CreateRole, RolesTypeOK
<1>5. /\ roles' \in [Existing' -> RoleRow]
      /\ roles'[r].key = name /\ \A s \in Existing : roles'[s] = roles[s]
  BY <1>1, <1>2, <1>3, <1>4 DEF RolesTypeOK
<1>6. \A s \in Existing : roles[s].key # name
  <2>1. \A s \in Existing \ Builtin : roles[s].key # name
    BY DEF CreateRole, Custom
  <2>2. \A s \in Builtin : roles[s].key # name
    BY DEF CreateRole, LooksBuiltin
  <2> QED
    BY <2>1, <2>2
<1>7. \A s, t \in Existing' : roles'[s].key = roles'[t].key => s = t
  BY <1>1, <1>4, <1>5, <1>6 DEF RolesTypeOK
<1>8. requests' \in 0..MaxRequests /\ overlap' \in BOOLEAN
  BY <1>1, Counted, Overlaps DEF CreateRole, AtOnce, RolesTypeOK
<1>9. RolesTypeOK'
  <2>1. Builtin \subseteq Existing' /\ Existing' \subseteq drawn' /\ drawn' \subseteq Role
    BY <1>1, <1>4 DEF RolesTypeOK, CreateRole
  <2>2. grants' \subseteq people' \X Existing' /\ people' \subseteq Person
    BY <1>1, <1>4 DEF RolesTypeOK, CreateRole
  <2>3. /\ version' \in [Person -> Version] /\ DOMAIN rules' \subseteq Group
        /\ \A g \in DOMAIN rules' : rules'[g] \in Existing'
    BY <1>1, <1>4 DEF RolesTypeOK, CreateRole
  <2> QED
    BY <1>5, <1>7, <1>8, <2>1, <2>2, <2>3 DEF RolesTypeOK
<1>10. Requests'
  BY WrittenStays, AtOnceKept DEF CreateRole, Base
<1> QED
  BY <1>9, <1>10, BaseOfRoles

\* The request that a role's change begins with.
LEMMA PatchReadKeeps ==
  ASSUME Base, NEW w \in Worker, NEW r \in Custom, NEW name \in Name, NEW allows \in BOOLEAN,
         PatchRead(w, r, name, allows), UNCHANGED <<batches, applied, contested>>
  PROVE  Base'
<1>1. RolesTypeOK
  BY DEF Base, ImportTypeOK
<1>2. roles[r] \in RoleRow /\ r \in Role
  BY <1>1 DEF RolesTypeOK, Custom
<1>3. PICK wanted : wanted = [roles[r] EXCEPT !.name = name, !.allows = allows]
  OBVIOUS
<1>4. wanted \in RoleRow /\ wanted.key = roles[r].key
  BY <1>2, <1>3 DEF RoleRow
<1>5. PICK holders : holders = [p \in HoldersOf(r) |-> version[p]]
  OBVIOUS
<1>6. \A p \in DOMAIN holders : holders[p] \in Version
  BY <1>1, <1>5 DEF RolesTypeOK, HoldersOf
<1>7. PICK q : q = [op |-> "patch", role |-> r, read |-> roles[r],
                    wanted |-> wanted, holders |-> holders]
  OBVIOUS
<1>8. Begin(w, q)
  BY <1>3, <1>5, <1>7 DEF PatchRead
<1>9. /\ q.op = "patch" /\ q.role = r /\ q.read = roles[r] /\ q.wanted = wanted
      /\ q.holders = holders
  BY <1>7
<1>10. InFlightOK(q)'
  BY <1>2, <1>4, <1>6, <1>9 DEF InFlightOK
<1>11. q.op # "written"
  BY <1>9
<1>12. Requests'
  BY <1>8, <1>10, <1>11, NothingMoves, WrittenStays, PutKept DEF Begin, Put, tables, Base
<1>13. RolesTypeOK'
  BY <1>1, <1>8, Counted, Overlaps DEF Begin, tables, RolesTypeOK, Existing
<1> QED
  BY <1>12, <1>13, BaseOfRoles

\* Whatever is written onto a row, its key stays.
LEMMA WrittenKeepsKey ==
  ASSUME NEW row \in RoleRow, NEW wanted \in RoleRow, NEW read, wanted.key = read.key
  PROVE  Written(row, read, wanted) \in RoleRow /\ Written(row, read, wanted).key = row.key
<1>1. PICK f : f = Written(row, read, wanted)
  OBVIOUS
<1>2. f = [c \in {"key", "name", "allows"} |-> IF wanted[c] # read[c] THEN wanted[c] ELSE row[c]]
  BY <1>1 DEF Written
<1>3. f.key = row.key /\ f.key \in Name
  BY <1>2 DEF RoleRow
<1>4. f.name \in Name
  BY <1>2 DEF RoleRow
<1>5. f.allows \in BOOLEAN
  <2>1. f.allows = IF wanted.allows # read.allows THEN wanted.allows ELSE row.allows
    BY <1>2
  <2>2. wanted.allows \in BOOLEAN /\ row.allows \in BOOLEAN
    BY DEF RoleRow
  <2> QED
    BY <2>1, <2>2, Zenon
<1>6. f = [key |-> f.key, name |-> f.name, allows |-> f.allows]
  BY <1>2
<1>7. f \in RoleRow
  <2>1. PICK k \in Name, n \in Name, b \in BOOLEAN : k = f.key /\ n = f.name /\ b = f.allows
    BY <1>3, <1>4, <1>5, Zenon
  <2>2. f = [key |-> k, name |-> n, allows |-> b]
    BY <1>6, <2>1, Zenon
  <2> QED
    BY <2>2 DEF RoleRow
<1> QED
  BY <1>1, <1>3, <1>7
LEMMA PatchCommitKeeps ==
  ASSUME Base, NEW w \in Worker, PatchCommit(w), UNCHANGED <<batches, applied, contested>>
  PROVE  Base'
<1>1. RolesTypeOK
  BY DEF Base, ImportTypeOK
<1>2. PICK q : q = req[w]
  OBVIOUS
<1>3. /\ q.role \in Existing /\ q.wanted \in RoleRow /\ q.wanted.key = q.read.key
      /\ \A p \in DOMAIN q.holders : q.holders[p] \in Version
  BY <1>2 DEF PatchCommit, Base, Requests, InFlightOK
<1>4. PICK row : row = Written(roles[q.role], q.read, q.wanted)
  OBVIOUS
<1>5. roles[q.role] \in RoleRow
  BY <1>1, <1>3 DEF RolesTypeOK
<1>6. row \in RoleRow /\ row.key = roles[q.role].key
  BY <1>3, <1>4, <1>5, WrittenKeepsKey
<1>7. roles' = [roles EXCEPT ![q.role] = row]
  BY <1>2, <1>4 DEF PatchCommit
<1>8. /\ Existing' = Existing /\ roles' \in [Existing' -> RoleRow]
      /\ \A s \in Existing : roles'[s].key = roles[s].key
  BY <1>1, <1>3, <1>6, <1>7 DEF RolesTypeOK, Existing
<1>9. version' \in [Person -> Version]
  <2>1. /\ version' = [p \in Person |->
             IF p \in DOMAIN q.holders THEN q.holders[p] + 1 ELSE version[p]]
        /\ \A p \in DOMAIN q.holders : q.holders[p] < MaxVersion
    BY <1>2 DEF PatchCommit
  <2> QED
    BY <1>1, <1>3, <2>1, RolesAssumption DEF RolesTypeOK, Version
<1>10. Put(w, Free) /\ people' = people /\ UNCHANGED <<grants, rules, drawn, requests>>
  BY DEF PatchCommit
<1>11. overlap' \in BOOLEAN
  BY <1>1, <1>10, Overlaps DEF RolesTypeOK
<1>12. RolesTypeOK'
  BY <1>1, <1>8, <1>9, <1>10, <1>11 DEF RolesTypeOK
<1>13. Requests'
  BY <1>10, NothingMoves, WrittenStays, FreeKept DEF Put, Base
<1> QED
  BY <1>12, <1>13, BaseOfRoles

LEMMA DeleteReadKeeps ==
  ASSUME Base, NEW w \in Worker, NEW r \in Custom, DeleteRead(w, r), UNCHANGED <<batches, applied, contested>>
  PROVE  Base'
<1>1. RolesTypeOK
  BY DEF Base, ImportTypeOK
<1>2. PICK q : q = [op |-> "delete", role |-> r]
  OBVIOUS
<1>3. Begin(w, q) /\ q.op = "delete" /\ q.role = r /\ r \in Role \ Builtin
  BY <1>1, <1>2 DEF DeleteRead, Custom, RolesTypeOK
<1>4. InFlightOK(q)' /\ q.op # "written"
  BY <1>3 DEF InFlightOK
<1>5. Requests'
  BY <1>3, <1>4, NothingMoves, WrittenStays, PutKept DEF Begin, Put, tables, Base
<1>6. RolesTypeOK'
  BY <1>1, <1>3, Counted, Overlaps DEF Begin, tables, RolesTypeOK, Existing
<1> QED
  BY <1>5, <1>6, BaseOfRoles

\* What refers to the role goes with it.
LEMMA DeleteCommitKeeps ==
  ASSUME Base, NEW w \in Worker, DeleteCommit(w), UNCHANGED <<batches, applied, contested>>
  PROVE  Base'
<1>1. RolesTypeOK
  BY DEF Base, ImportTypeOK
<1>2. PICK r : r = req[w].role
  OBVIOUS
<1>3. r \in Existing \ Builtin
  BY <1>2 DEF DeleteCommit, Base, Requests, InFlightOK
<1>4. /\ roles' = [s \in Existing \ {r} |-> roles[s]]
      /\ grants' = {g \in grants : g[2] # r}
      /\ rules' = [g \in {h \in DOMAIN rules : rules[h] # r} |-> rules[g]]
      /\ Put(w, Free) /\ UNCHANGED <<people, version, drawn, requests>>
  BY <1>2 DEF DeleteCommit
<1>5. Existing' = Existing \ {r}
  BY <1>4 DEF Existing
<1>6. /\ roles' \in [Existing' -> RoleRow]
      /\ \A s, t \in Existing' : roles'[s].key = roles'[t].key => s = t
  BY <1>1, <1>4, <1>5 DEF RolesTypeOK
<1>7. grants' \subseteq people' \X Existing'
  BY <1>1, <1>4, <1>5 DEF RolesTypeOK
<1>8. DOMAIN rules' \subseteq Group /\ \A g \in DOMAIN rules' : rules'[g] \in Existing'
  BY <1>1, <1>4, <1>5 DEF RolesTypeOK
<1>9. overlap' \in BOOLEAN
  BY <1>1, <1>4, Overlaps DEF RolesTypeOK
<1>10. RolesTypeOK'
  <2>1. Builtin \subseteq Existing' /\ Existing' \subseteq drawn' /\ drawn' \subseteq Role
    BY <1>1, <1>3, <1>4, <1>5 DEF RolesTypeOK
  <2>2. people' \subseteq Person /\ version' \in [Person -> Version] /\ requests' \in 0..MaxRequests
    BY <1>1, <1>4 DEF RolesTypeOK
  <2> QED
    BY <1>6, <1>7, <1>8, <1>9, <2>1, <2>2 DEF RolesTypeOK
<1>11. Requests'
  BY <1>4, NothingMoves, WrittenStays, FreeKept DEF Put, Base
<1> QED
  BY <1>10, <1>11, BaseOfRoles

LEMMA RefuseRoleKeeps ==
  ASSUME Base, NEW w \in Worker, RefuseRole(w), UNCHANGED <<batches, applied, contested>>
  PROVE  Base'
<1>1. Put(w, Free) /\ UNCHANGED <<tables, drawn, requests>> /\ RolesTypeOK
  BY DEF RefuseRole, Step, Base, ImportTypeOK
<1>2. RolesTypeOK'
  BY <1>1, Overlaps DEF tables, RolesTypeOK, Existing
<1>3. Requests'
  BY <1>1, NothingMoves, WrittenStays, FreeKept DEF Put, tables, Base
<1> QED
  BY <1>2, <1>3, BaseOfRoles

LEMMA GrantRoleKeeps ==
  ASSUME Base, NEW p \in Person, NEW r \in Existing, GrantRole(p, r) \/ RevokeRole(p, r),
         UNCHANGED <<batches, applied, contested>>
  PROVE  Base'
<1>1. RolesTypeOK
  BY DEF Base, ImportTypeOK
<1>2. /\ AtOnce /\ Bump({p}) /\ UNCHANGED <<roles, people, rules, drawn>>
      /\ grants' \subseteq people \X Existing
  BY <1>1 DEF GrantRole, RevokeRole, RolesTypeOK
<1>3. version' \in [Person -> Version]
  BY <1>1, <1>2, Bumped DEF RolesTypeOK
<1>4. requests' \in 0..MaxRequests /\ overlap' \in BOOLEAN
  BY <1>1, <1>2, Counted, Overlaps DEF AtOnce, RolesTypeOK
<1>5. RolesTypeOK'
  BY <1>1, <1>2, <1>3, <1>4 DEF RolesTypeOK, Existing
<1>6. Requests'
  BY <1>2, WrittenStays, AtOnceKept DEF Base
<1> QED
  BY <1>5, <1>6, BaseOfRoles

\* An account appears, or goes with its grants, where no transaction has written.
LEMMA UserKeeps ==
  ASSUME Base, NEW p \in Person, CreateUser(p) \/ DeleteUser(p), UNCHANGED <<batches, applied, contested>>
  PROVE  Base'
<1>1. RolesTypeOK
  BY DEF Base, ImportTypeOK
<1>2. /\ AtOnce /\ Untouched(p) /\ UNCHANGED <<roles, version, rules, drawn>>
      /\ people' \subseteq Person /\ grants' \subseteq people' \X Existing
      /\ people \ {p} \subseteq people' /\ people' \subseteq people \cup {p}
  BY <1>1 DEF CreateUser, DeleteUser, RolesTypeOK
<1>3. requests' \in 0..MaxRequests /\ overlap' \in BOOLEAN
  BY <1>1, <1>2, Counted, Overlaps DEF AtOnce, RolesTypeOK
<1>4. RolesTypeOK'
  BY <1>1, <1>2, <1>3 DEF RolesTypeOK, Existing
<1>5. \A v \in Worker : WrittenKept(v)
  BY <1>2 DEF Base, Requests, InFlightOK, WrittenKept, Untouched
<1>6. Requests'
  BY <1>2, <1>5, AtOnceKept
<1> QED
  BY <1>4, <1>6, BaseOfRoles

LEMMA PutRuleKeeps ==
  ASSUME Base, NEW g \in Group, NEW r \in Existing, PutRule(g, r), UNCHANGED <<batches, applied, contested>>
  PROVE  Base'
<1>1. RolesTypeOK
  BY DEF Base, ImportTypeOK
<1>2. requests' \in 0..MaxRequests /\ overlap' \in BOOLEAN
  BY <1>1, Counted, Overlaps DEF PutRule, AtOnce, RolesTypeOK
<1>3. DOMAIN rules' \subseteq Group /\ \A h \in DOMAIN rules' : rules'[h] \in Existing
  BY <1>1 DEF PutRule, RolesTypeOK
<1>4. RolesTypeOK'
  BY <1>1, <1>2, <1>3 DEF PutRule, RolesTypeOK, Existing
<1>5. Requests'
  BY WrittenStays, AtOnceKept DEF PutRule, Base
<1> QED
  BY <1>4, <1>5, BaseOfRoles

LEMMA NextRolesKeeps ==
  ASSUME Base, NextRoles, UNCHANGED <<batches, applied, contested>>
  PROVE  Base'
<1>1. CASE \E r \in Role, name \in Name, source \in Existing \cup {Null} : CreateRole(r, name, source)
  BY <1>1, CreateRoleKeeps
<1>2. ASSUME NEW w \in Worker,
             (\E r \in Custom, name \in Name, allows \in BOOLEAN : PatchRead(w, r, name, allows))
               \/ PatchCommit(w) \/ (\E r \in Custom : DeleteRead(w, r)) \/ DeleteCommit(w)
               \/ RefuseRole(w)
      PROVE  Base'
  BY <1>2, PatchReadKeeps, PatchCommitKeeps, DeleteReadKeeps, DeleteCommitKeeps, RefuseRoleKeeps
<1>3. ASSUME NEW p \in Person,
             (\E r \in Existing : GrantRole(p, r) \/ RevokeRole(p, r)) \/ CreateUser(p) \/ DeleteUser(p)
      PROVE  Base'
  BY <1>3, GrantRoleKeeps, UserKeeps
<1>4. CASE \E g \in Group, r \in Existing : PutRule(g, r)
  BY <1>4, PutRuleKeeps
<1> QED
  BY <1>1, <1>2, <1>3, <1>4 DEF NextRoles
-----------------------------------------------------------------------------
(* Batches: what the steps of an import leave.                              *)

\* The roles' tables, where they stay.
LEMMA RolesStay ==
  ASSUME RolesTypeOK, UNCHANGED <<tables, drawn>>,
         requests' \in 0..MaxRequests, overlap' \in BOOLEAN
  PROVE  RolesTypeOK' /\ Existing' = Existing
  BY DEF tables, RolesTypeOK, Existing

LEMMA OkRowsPlanned ==
  ASSUME NEW file \in File, NEW keys \in [DOMAIN file -> Name \cup {Null}]
  PROVE  /\ OkRows(file, keys) \subseteq Planned
         /\ \A r, s \in OkRows(file, keys) : r.email = s.email => r = s
         /\ \A r \in OkRows(file, keys) : r.email \notin people
<1> DEFINE ok == {j \in DOMAIN file :
                    /\ keys[j] # Null
                    /\ file[j].email \notin people
                    /\ \A k \in 1..(j - 1) : file[k].email # file[j].email}
           row(i) == [email |-> file[i].email, key |-> keys[i]]
<1>1. /\ DOMAIN file = 1..Len(file) /\ Len(file) \in Nat
      /\ \A i \in DOMAIN file : file[i] \in [email : Person, wants : Name]
  <2>1. PICK S : S = [email : Person, wants : Name]
    OBVIOUS
  <2>2. file \in Seq(S)
    BY <2>1, FileAssumption
  <2>3. DOMAIN file = 1..Len(file) /\ Len(file) \in Nat /\ \A i \in 1..Len(file) : file[i] \in S
    BY <2>2
  <2> QED
    BY <2>1, <2>3
<1>2. OkRows(file, keys) = {row(i) : i \in ok}
  BY DEF OkRows
<1>3. \A i \in ok : file[i].email \in Person /\ keys[i] \in Name /\ file[i].email \notin people
  <2> SUFFICES ASSUME NEW i \in ok
               PROVE  file[i].email \in Person /\ keys[i] \in Name /\ file[i].email \notin people
    OBVIOUS
  <2>1. i \in DOMAIN file /\ keys[i] # Null /\ file[i].email \notin people
    OBVIOUS
  <2>2. file[i].email \in Person
    BY <1>1, <2>1
  <2>3. keys[i] \in Name \cup {Null}
    BY <2>1
  <2> QED
    BY <2>1, <2>2, <2>3
<1>4. \A i \in ok : row(i) \in Planned /\ row(i).email = file[i].email
  BY <1>3 DEF Planned
<1>5. \A i, j \in ok : file[i].email = file[j].email => i = j
  <2> SUFFICES ASSUME NEW i \in ok, NEW j \in ok, file[i].email = file[j].email, i # j
               PROVE  FALSE
    OBVIOUS
  <2>1. i \in 1..Len(file) /\ j \in 1..Len(file) /\ Len(file) \in Nat
    BY <1>1
  <2>2. i \in 1..(j - 1) \/ j \in 1..(i - 1)
    BY <2>1
  <2> QED
    BY <2>2
<1> HIDE DEF ok, row
<1>6. \A r, s \in OkRows(file, keys) : r.email = s.email => r = s
  BY <1>2, <1>4, <1>5
<1> QED
  BY <1>2, <1>3, <1>4, <1>6

LEMMA ValidateKeeps ==
  ASSUME Base, NEW w \in Worker, NEW file \in File, Validate(w, file)
  PROVE  Base'
<1>1. RolesTypeOK /\ UNCHANGED <<batches, applied, contested>>
  BY DEF Base, ImportTypeOK, Validate
<1>2. PICK keys \in Resolved(file) :
        Begin(w, [op |-> "validate", file |-> file, keys |-> keys])
  BY DEF Validate
<1>3. PICK q : q = [op |-> "validate", file |-> file, keys |-> keys]
  OBVIOUS
<1>4. Begin(w, q) /\ q.op = "validate" /\ q.file = file /\ q.keys = keys
  BY <1>2, <1>3
<1>5. keys \in [DOMAIN file -> Name \cup {Null}]
  BY DEF Resolved
<1>6. InFlightOK(q)' /\ q.op # "written"
  BY <1>4, <1>5 DEF InFlightOK
<1>7. Requests'
  BY <1>1, <1>4, <1>6, NothingMoves, WrittenStays, PutKept DEF Begin, Put, tables, Base
<1>8. RolesTypeOK'
  BY <1>1, <1>4, Counted, Overlaps, RolesStay DEF Begin, RolesTypeOK
<1> QED
  BY <1>1, <1>7, <1>8, BaseOfRoles

\* What the roles' part and the requests are after a step of a request that ends
\* there.
LEMMA StepFree ==
  ASSUME Base, NEW w \in Worker, req' = [req EXCEPT ![w] = Free], BatchesKept,
         applied' \in [Batch -> Int], UNCHANGED <<tables, drawn, requests>>, overlap' \in BOOLEAN
  PROVE  RolesTypeOK' /\ Requests'
<1>1. RolesTypeOK /\ Requests
  BY DEF Base, ImportTypeOK
<1>2. RolesTypeOK'
  BY <1>1, RolesStay DEF RolesTypeOK
<1>3. Requests'
  BY <1>1, WrittenStays, FreeKept DEF tables
<1> QED
  BY <1>2, <1>3

LEMMA AppliedInt ==
  ASSUME NEW f \in [Batch -> 0..MaxApplied]
  PROVE  f \in [Batch -> Int]
  BY DEF MaxApplied

LEMMA StorePreviewKeeps ==
  ASSUME Base, NEW w \in Worker, NEW b \in Batch, StorePreview(w, b)
  PROVE  Base'
<1>1. PICK q : q = req[w]
  OBVIOUS
<1>2. q.op = "validate" /\ q.file \in File /\ q.keys \in [DOMAIN q.file -> Name \cup {Null}]
  BY <1>1 DEF StorePreview, Base, Requests, InFlightOK
<1>3. PICK preview : preview = OkRows(q.file, q.keys)
  OBVIOUS
<1>4. preview \subseteq Planned /\ \A r, s \in preview : r.email = s.email => r = s
  BY <1>2, <1>3, OkRowsPlanned
<1>5. PICK row : row = [file |-> q.file, preview |-> preview, status |-> "pending"]
  OBVIOUS
<1>6. row \in BatchRow /\ row # Null /\ row.preview = preview
  BY <1>2, <1>4, <1>5, BatchAssumption DEF BatchRow
<1>7. /\ batches[b] = Null /\ batches' = [batches EXCEPT ![b] = row] /\ applied' = applied
      /\ Put(w, Free) /\ UNCHANGED <<tables, drawn, requests, contested>>
  BY <1>1, <1>3, <1>5 DEF StorePreview, Step
<1>8. /\ batches \in [Batch -> BatchRow \cup {Null}] /\ applied \in [Batch -> 0..MaxApplied]
      /\ overlap \in BOOLEAN /\ contested \subseteq Batch
  BY DEF Base, ImportTypeOK, RolesTypeOK
<1>9. /\ batches' \in [Batch -> BatchRow \cup {Null}] /\ batches'[b] = row
      /\ \A c \in Batch \ {b} : batches'[c] = batches[c]
  BY <1>6, <1>7, <1>8
<1>10. BatchesKept
  BY <1>7, <1>8, <1>9, AppliedInt DEF BatchesKept
<1>11. applied' \in [Batch -> Int]
  BY <1>7, <1>8, AppliedInt
<1>12. RolesTypeOK' /\ Requests'
  BY <1>7, <1>8, <1>10, <1>11, Overlaps, StepFree DEF Put
<1>13. BatchesOK'
  BY <1>4, <1>6, <1>7, <1>9 DEF BatchesOK, Base
<1> QED
  BY <1>7, <1>8, <1>9, <1>12, <1>13 DEF Base, ImportTypeOK

LEMMA CommitReadKeeps ==
  ASSUME Base, NEW w \in Worker, NEW b \in Batch, CommitRead(w, b)
  PROVE  Base'
<1>1. /\ RolesTypeOK /\ BatchesOK /\ UNCHANGED <<batches, applied>>
      /\ batches \in [Batch -> BatchRow \cup {Null}] /\ applied \in [Batch -> 0..MaxApplied]
      /\ contested' \subseteq Batch
  BY DEF Base, ImportTypeOK, CommitRead
<1>2. PICK keys \in Resolved(batches[b].file) :
        Begin(w, [op |-> "commit", batch |-> b, keys |-> keys])
  BY DEF CommitRead
<1>3. PICK q : q = [op |-> "commit", batch |-> b, keys |-> keys]
  OBVIOUS
<1>4. Begin(w, q) /\ q.op = "commit" /\ q.batch = b /\ q.keys = keys
  BY <1>2, <1>3
<1>5. keys \in [DOMAIN batches'[b].file -> Name \cup {Null}] /\ batches'[b] # Null
  BY <1>1 DEF Resolved, CommitRead
<1>6. InFlightOK(q)' /\ q.op # "written"
  BY <1>4, <1>5 DEF InFlightOK
<1>7. Requests'
  BY <1>1, <1>4, <1>6, NothingMoves, WrittenStays, PutKept DEF Begin, Put, tables, Base
<1>8. RolesTypeOK'
  BY <1>1, <1>4, Counted, Overlaps, RolesStay DEF Begin, RolesTypeOK
<1> QED
  BY <1>1, <1>7, <1>8 DEF Base, ImportTypeOK, BatchesOK

\* What is carried out is what was shown.
LEMMA CompareKeeps ==
  ASSUME Base, NEW w \in Worker, Compare(w)
  PROVE  Base'
<1>1. RolesTypeOK /\ UNCHANGED <<batches, applied, contested>>
  BY DEF Base, ImportTypeOK, Compare
<1>2. PICK b : b = req[w].batch
  OBVIOUS
<1>3. b \in Batch /\ batches[b] # Null /\ batches' = batches
  BY <1>1, <1>2 DEF Compare, Base, Requests, InFlightOK
<1>4. PICK fresh : fresh = OkRows(batches[b].file, req[w].keys)
  OBVIOUS
<1>5. PICK q : q = IF fresh # batches[b].preview THEN [op |-> "mismatch", batch |-> b]
                   ELSE IF fresh = {} THEN Free
                   ELSE [op |-> "apply", batch |-> b, rows |-> fresh]
  OBVIOUS
<1>6. Step(w, q)
  BY <1>2, <1>4, <1>5 DEF Compare
<1>7. \/ q.op = "mismatch" /\ q.batch = b
      \/ q.op = "none"
      \/ q.op = "apply" /\ q.batch = b /\ q.rows = batches[b].preview /\ q.rows # {}
  BY <1>5 DEF Free
<1>8. InFlightOK(q)' /\ q.op # "written"
  BY <1>3, <1>7 DEF InFlightOK
<1>9. Requests'
  BY <1>1, <1>6, <1>8, NothingMoves, WrittenStays, PutKept DEF Step, Put, tables, Base
<1>10. RolesTypeOK'
  BY <1>1, <1>6, Overlaps, RolesStay DEF Step, RolesTypeOK
<1> QED
  BY <1>1, <1>9, <1>10, BaseOfRoles

\* The batch is told.
LEMMA StatusKeeps ==
  ASSUME Base, NEW b \in Batch, batches[b] # Null, NEW status \in {"success", "warnings", "failed"},
         batches' = [batches EXCEPT ![b].status = status], applied' = applied
  PROVE  /\ batches' \in [Batch -> BatchRow \cup {Null}] /\ BatchesKept /\ BatchesOK'
         /\ applied' \in [Batch -> Int]
         /\ batches'[b].status = status
         /\ \A c \in Batch : c # b => batches'[c] = batches[c]
<1>1. batches \in [Batch -> BatchRow \cup {Null}] /\ applied \in [Batch -> 0..MaxApplied]
  BY DEF Base, ImportTypeOK
<1>2. PICK row : row = [batches[b] EXCEPT !.status = status]
  OBVIOUS
<1>3. batches[b] \in BatchRow
  BY <1>1
<1>4. /\ row \in BatchRow /\ row.file = batches[b].file /\ row.preview = batches[b].preview
      /\ row.status = status
  BY <1>2, <1>3 DEF BatchRow
<1>5. /\ batches' \in [Batch -> BatchRow \cup {Null}] /\ batches'[b] = row /\ row # Null
      /\ \A c \in Batch \ {b} : batches'[c] = batches[c]
  BY <1>1, <1>2, <1>4, BatchAssumption
<1>6. applied \in [Batch -> Int] /\ applied' \in [Batch -> Int]
  BY <1>1, AppliedInt
<1>7. BatchesKept
  BY <1>4, <1>5, <1>6 DEF BatchesKept
<1>8. BatchesOK'
  BY <1>4, <1>5 DEF BatchesOK, Base
<1> QED
  BY <1>4, <1>5, <1>6, <1>7, <1>8

LEMMA MarkFailedKeeps ==
  ASSUME Base, NEW w \in Worker, MarkFailed(w) \/ Finish(w)
  PROVE  Base'
<1>1. PICK b : b = req[w].batch
  OBVIOUS
<1>2. b \in Batch /\ batches[b] # Null
  BY <1>1 DEF MarkFailed, Finish, Base, Requests, InFlightOK
<1>3. PICK status \in {"success", "warnings", "failed"} :
        batches' = [batches EXCEPT ![b].status = status]
  BY <1>1 DEF MarkFailed, Finish
<1>4. /\ applied' = applied /\ Put(w, Free) /\ UNCHANGED <<tables, drawn, requests, contested>>
      /\ overlap \in BOOLEAN /\ applied \in [Batch -> 0..MaxApplied]
      /\ contested \subseteq Batch
  BY DEF MarkFailed, Finish, Step, Base, ImportTypeOK, RolesTypeOK
<1>5. /\ batches' \in [Batch -> BatchRow \cup {Null}] /\ BatchesKept /\ BatchesOK'
      /\ applied' \in [Batch -> Int]
  BY <1>2, <1>3, <1>4, StatusKeeps
<1>6. RolesTypeOK' /\ Requests'
  BY <1>4, <1>5, Overlaps, StepFree DEF Put
<1> QED
  BY <1>4, <1>5, <1>6 DEF Base, ImportTypeOK

LEMMA RefuseImportKeeps ==
  ASSUME Base, NEW w \in Worker, RefuseImport(w)
  PROVE  Base'
<1>1. /\ UNCHANGED <<tables, drawn, requests, batches, applied>> /\ Put(w, Free)
      /\ overlap \in BOOLEAN /\ BatchesOK
      /\ batches \in [Batch -> BatchRow \cup {Null}] /\ applied \in [Batch -> 0..MaxApplied]
  BY DEF RefuseImport, Step, Base, ImportTypeOK, RolesTypeOK
<1>2. contested' \subseteq Batch
  BY DEF RefuseImport, Base, ImportTypeOK, Requests, InFlightOK
<1>3. RolesTypeOK' /\ Requests'
  BY <1>1, NothingMoves, Overlaps, StepFree DEF Put
<1> QED
  BY <1>1, <1>2, <1>3 DEF Base, ImportTypeOK, BatchesOK

\* The accounts that are created are of the preview, and nobody is writing to them.
LEMMA ApplyKeeps ==
  ASSUME Base, NEW w \in Worker, Apply(w)
  PROVE  Base'
<1>1. PICK q : q = req[w]
  OBVIOUS
<1>2. /\ q.op = "apply" /\ q.batch \in Batch /\ batches[q.batch] # Null
      /\ q.rows = batches[q.batch].preview
  BY <1>1 DEF Apply, Base, Requests, InFlightOK
<1>3. /\ RolesTypeOK /\ batches \in [Batch -> BatchRow \cup {Null}]
      /\ applied \in [Batch -> 0..MaxApplied] /\ contested \subseteq Batch
  BY DEF Base, ImportTypeOK
<1>4. batches[q.batch] \in BatchRow
  BY <1>2, <1>3
<1>5. q.rows \subseteq Planned
  BY <1>2, <1>4 DEF BatchRow
<1>6. PICK emails : emails = Emails(q.rows)
  OBVIOUS
<1>7. emails \subseteq Person /\ \A row \in q.rows : row.email \in emails
  BY <1>5, <1>6 DEF Planned, Emails
<1>8. \A p \in emails : p \notin people /\ Untouched(p)
  BY <1>1, <1>6 DEF Apply, Emails
<1>9. PICK named : named = [row \in q.rows |-> {r \in Existing : roles[r].key = row.key}]
  OBVIOUS
<1>10. /\ people' = people \cup emails
       /\ grants' = grants \cup UNION {{<<row.email, r>> : r \in named[row]} : row \in q.rows}
       /\ Bump(emails)
       /\ applied[q.batch] < MaxApplied
       /\ applied' = [applied EXCEPT ![q.batch] = @ + 1]
       /\ Put(w, [op |-> "applied", batch |-> q.batch])
       /\ UNCHANGED <<roles, rules, drawn, requests, batches, contested>>
  BY <1>1, <1>6, <1>9 DEF Apply
<1>11. \A row \in q.rows : named[row] \subseteq Existing
  BY <1>9
<1>12. grants' \subseteq people' \X Existing' /\ Existing' = Existing
  <2>1. UNION {{<<row.email, r>> : r \in named[row]} : row \in q.rows} \subseteq people' \X Existing
    BY <1>7, <1>10, <1>11
  <2>2. grants \subseteq people' \X Existing
    BY <1>3, <1>10 DEF RolesTypeOK
  <2>3. Existing' = Existing
    BY <1>10 DEF Existing
  <2> QED
    BY <1>10, <2>1, <2>2, <2>3
<1>13. version' \in [Person -> Version] /\ overlap' \in BOOLEAN
  BY <1>3, <1>10, Bumped, Overlaps DEF RolesTypeOK
<1>14. RolesTypeOK'
  BY <1>3, <1>7, <1>10, <1>12, <1>13 DEF RolesTypeOK
<1>15. applied' \in [Batch -> 0..MaxApplied] /\ applied'[q.batch] = applied[q.batch] + 1
       /\ \A b \in Batch : b # q.batch => applied'[b] = applied[b]
  BY <1>2, <1>3, <1>10 DEF MaxApplied
<1>16. BatchesKept /\ applied \in [Batch -> Int] /\ applied' \in [Batch -> Int]
  <2>1. applied \in [Batch -> Int] /\ applied' \in [Batch -> Int]
    BY <1>3, <1>15, AppliedInt
  <2>2. \A b \in Batch : applied'[b] >= applied[b]
    BY <1>15, <2>1
  <2> QED
    BY <1>10, <2>1, <2>2 DEF BatchesKept
<1>17. PICK s : s = [op |-> "applied", batch |-> q.batch]
  OBVIOUS
<1>18. s.op = "applied" /\ s.batch = q.batch
  BY <1>17
<1>19. applied'[q.batch] > 0
  BY <1>2, <1>3, <1>15 DEF MaxApplied
<1>20. InFlightOK(s)' /\ s.op # "written"
  BY <1>2, <1>10, <1>18, <1>19 DEF InFlightOK
<1>21. \A v \in Worker : WrittenKept(v)
  <2> SUFFICES ASSUME NEW v \in Worker, req[v].op = "written"
               PROVE  req[v].create \cap people' = {} /\ req[v].add \cup req[v].seat \subseteq people'
    BY DEF WrittenKept
  <2>1. req[v].create \cap people = {} /\ req[v].add \cup req[v].seat \subseteq people
    BY DEF Base, Requests, InFlightOK
  <2>2. req[v].create \cap emails = {}
    BY <1>8 DEF Untouched
  <2> QED
    BY <1>10, <2>1, <2>2
<1>22. Requests'
  BY <1>10, <1>16, <1>17, <1>20, <1>21, PutKept DEF Put, Base
<1>23. BatchesOK'
  BY <1>2, <1>10, <1>15 DEF BatchesOK, Base
<1> QED
  BY <1>3, <1>10, <1>14, <1>15, <1>22, <1>23 DEF Base, ImportTypeOK

LEMMA NextImportKeeps ==
  ASSUME Base, NextImport
  PROVE  Base'
<1>1. CASE NextRoles /\ UNCHANGED <<batches, applied, contested>>
  BY <1>1, NextRolesKeeps
<1>2. ASSUME NEW w \in Worker,
             (\E file \in File : Validate(w, file))
               \/ (\E b \in Batch : StorePreview(w, b) \/ CommitRead(w, b))
               \/ Compare(w) \/ MarkFailed(w) \/ Apply(w) \/ Finish(w) \/ RefuseImport(w)
      PROVE  Base'
  BY <1>2, ValidateKeeps, StorePreviewKeeps, CommitReadKeeps, CompareKeeps, MarkFailedKeeps,
     ApplyKeeps, RefuseImportKeeps
<1> QED
  BY <1>1, <1>2 DEF NextImport
-----------------------------------------------------------------------------
(* The command line: what its steps leave.                                  *)

CliTypeOK ==
  /\ seats \subseteq people
  /\ temp \in [Person -> Run]
  /\ disk \in [Person -> Run] \cup {Null}
  /\ handed \in [Person -> Run]
  /\ runs \in Run
  /\ lost \subseteq Run

LEMMA ShapeIs == (Shape <=> Base /\ CliTypeOK) /\ (Shape' <=> Base' /\ CliTypeOK')
  BY DEF Shape, TypeOK, Base, CliTypeOK

LEMMA PanelShape ==
  ASSUME Shape, Panel
  PROVE  Shape'
<1>1. Base' /\ CliTypeOK
  BY ShapeIs, NextImportKeeps DEF Panel
<1>2. 0 \in Run
  BY CliAssumption DEF Run
<1>3. CliTypeOK'
  BY <1>1, <1>2 DEF CliTypeOK, Panel
<1> QED
  BY <1>1, <1>3, ShapeIs

\* What a file of the command line says.
LEMMA CliFileSays ==
  ASSUME NEW file \in CliFile
  PROVE  /\ DOMAIN file \subseteq Person
         /\ \A p \in DOMAIN file : file[p].role \in Builtin
<1>1. PICK S \in SUBSET Person : file \in [S -> [role : Builtin, carried : BOOLEAN]]
  BY CliAssumption
<1>2. DOMAIN file = S /\ \A p \in S : file[p] \in [role : Builtin, carried : BOOLEAN]
  BY <1>1
<1> QED
  BY <1>2

LEMMA CliPlanShape ==
  ASSUME Shape, NEW w \in Worker, NEW file \in CliFile, CliPlan(w, file)
  PROVE  Shape'
<1>1. Base /\ CliTypeOK /\ RolesTypeOK
  BY ShapeIs DEF Base, ImportTypeOK
<1>2. PICK create, add, seat :
        /\ create = DOMAIN file \ people
        /\ add = {p \in people \cap DOMAIN file : <<p, file[p].role>> \notin grants}
        /\ seat = (people \cap DOMAIN file) \ seats
  OBVIOUS
<1>3. PICK q : q = [op |-> "planned", file |-> file, create |-> create, add |-> add, seat |-> seat]
  OBVIOUS
<1>4. Begin(w, q) /\ UNCHANGED <<batches, applied, contested, cliTables, disk, handed, runs, lost>>
  BY <1>2, <1>3 DEF CliPlan
<1>5. /\ q.op = "planned" /\ q.file = file /\ q.create = create /\ q.add = add /\ q.seat = seat
      /\ q = [op |-> q.op, file |-> q.file, create |-> q.create, add |-> q.add, seat |-> q.seat]
  BY <1>3
<1>6. Touched(q) \subseteq DOMAIN q.file
  BY <1>2, <1>5 DEF Touched
<1>7. InFlightOK(q)' /\ q.op # "written"
  BY <1>5, <1>6 DEF InFlightOK, Touched
<1>8. Requests'
  BY <1>1, <1>4, <1>7, NothingMoves, WrittenStays, PutKept DEF Begin, Put, tables, Base
<1>9. RolesTypeOK'
  BY <1>1, <1>4, Counted, Overlaps, RolesStay DEF Begin, RolesTypeOK
<1>10. Base'
  BY <1>1, <1>4, <1>8, <1>9, BaseOfRoles
<1>11. CliTypeOK'
  BY <1>1, <1>4 DEF CliTypeOK, Begin, tables, cliTables
<1> QED
  BY <1>10, <1>11, ShapeIs

\* The run that writes finds nobody else at its accounts.
LEMMA CliWriteShape ==
  ASSUME Shape, NEW w \in Worker, CliWrite(w)
  PROVE  Shape'
<1>1. Base /\ CliTypeOK /\ RolesTypeOK
  BY ShapeIs DEF Base, ImportTypeOK
<1>2. PICK r : r = req[w]
  OBVIOUS
<1>3. /\ r.op = "planned" /\ r.file \in CliFile /\ Touched(r) \subseteq DOMAIN r.file
      /\ r = [op |-> r.op, file |-> r.file, create |-> r.create, add |-> r.add, seat |-> r.seat]
  BY <1>1, <1>2 DEF CliWrite, Base, Requests, InFlightOK
<1>4. PICK q : q = [r EXCEPT !.op = "written"]
  OBVIOUS
<1>5. /\ q.op = "written" /\ q.file = r.file /\ q.create = r.create /\ q.add = r.add
      /\ q.seat = r.seat
      /\ q = [op |-> q.op, file |-> q.file, create |-> q.create, add |-> q.add, seat |-> q.seat]
  BY <1>3, <1>4
<1>6. /\ Step(w, q) /\ StillSo(r)
      /\ UNCHANGED <<batches, applied, contested, cliTables, handed, lost>>
  BY <1>2, <1>4 DEF CliWrite
<1>7. /\ q.create \cap people = {} /\ q.add \cup q.seat \subseteq people
      /\ \A p \in Touched(q) : Untouched(p)
  BY <1>5, <1>6 DEF StillSo, Touched
<1>8. Touched(q) \subseteq DOMAIN q.file
  BY <1>3, <1>5 DEF Touched
<1>9. people' = people /\ req' = [req EXCEPT ![w] = q] /\ UNCHANGED <<tables, drawn, requests>>
  BY <1>6 DEF Step, Put, tables
<1>10. InFlightOK(q)'
  BY <1>3, <1>5, <1>7, <1>8, <1>9 DEF InFlightOK, Touched
<1>11. req' = [v \in Worker |-> req'[v]] /\ req'[w] = q /\ \A v \in Worker \ {w} : req'[v] = req[v]
  BY <1>1, <1>9 DEF Base, Requests
<1>12. \A v \in Worker : InFlightOK(req[v])'
  <2> SUFFICES ASSUME NEW v \in Worker PROVE InFlightOK(req[v])'
    OBVIOUS
  <2>1. CASE v = w
    BY <2>1, <1>10, <1>11
  <2>2. CASE v # w
    <3>1. PICK k : k = req[v]
      OBVIOUS
    <3>2. InFlightOK(k) /\ req'[v] = k
      BY <1>1, <1>11, <2>2, <3>1 DEF Base, Requests
    <3>3. k.op = "written" => k.create \cap people' = {} /\ k.add \cup k.seat \subseteq people'
      BY <1>9, <3>2 DEF InFlightOK
    <3>4. InFlightOK(k)'
      BY <1>1, <1>6, <3>2, <3>3, NothingMoves, RequestKept
    <3> QED
      BY <3>2, <3>4
  <2> QED
    BY <2>1, <2>2
<1>13. Apart'
  <2> SUFFICES ASSUME NEW u \in Worker, NEW v \in Worker, u # v, req'[u].op = "written",
                      req'[v].op = "written"
               PROVE  Touched(req'[u]) \cap Touched(req'[v]) = {}
    BY DEF Apart, Touched
  <2>1. \A x \in Worker \ {w} : req'[x].op = "written" => Touched(q) \cap Touched(req'[x]) = {}
    BY <1>7, <1>11 DEF Untouched, Touched
  <2>2. CASE u = w
    BY <1>11, <2>1, <2>2
  <2>3. CASE v = w
    BY <1>11, <2>1, <2>3
  <2>4. CASE u # w /\ v # w
    BY <1>1, <1>11, <2>4 DEF Base, Requests, Apart
  <2> QED
    BY <2>2, <2>3, <2>4
<1>14. Requests'
  BY <1>11, <1>12, <1>13 DEF Requests
<1>15. RolesTypeOK'
  BY <1>1, <1>6, <1>9, Overlaps, RolesStay DEF Step, RolesTypeOK
<1>16. Base'
  BY <1>1, <1>6, <1>14, <1>15, BaseOfRoles
<1>17. CliTypeOK'
  <2>1. disk' \in [Person -> Run] \cup {Null} /\ runs' \in Run
    <3>1. CASE TemporaryOf(r) = {}
      BY <1>1, <1>2, <3>1 DEF CliWrite, CliTypeOK
    <3>2. CASE TemporaryOf(r) # {}
      <4>1. /\ runs < MaxRuns /\ runs' = runs + 1
            /\ disk' = [p \in Person |-> IF p \in TemporaryOf(r) THEN runs + 1 ELSE 0]
        BY <1>2, <3>2 DEF CliWrite
      <4>2. runs + 1 \in Run /\ 0 \in Run
        BY <1>1, <4>1, CliAssumption DEF CliTypeOK, Run
      <4> QED
        BY <4>1, <4>2
    <3> QED
      BY <3>1, <3>2
  <2> QED
    BY <1>1, <1>6, <1>9, <2>1 DEF CliTypeOK, cliTables
<1> QED
  BY <1>16, <1>17, ShapeIs

\* A commit of the command line; whether its answer arrives or not.
LEMMA ImportedShape ==
  ASSUME Shape, NEW w \in Worker, req[w].op = "written", Imported(req[w]),
         req' = [req EXCEPT ![w] = Free], overlap' \in BOOLEAN,
         UNCHANGED <<handed, runs>>, lost' \subseteq lost \cup {runs}, disk' = disk \/ disk' = Null
  PROVE  Shape'
<1>1. Base /\ CliTypeOK /\ RolesTypeOK
  BY ShapeIs DEF Base, ImportTypeOK
<1>2. PICK r : r = req[w]
  OBVIOUS
<1>3. /\ r.op = "written" /\ r.file \in CliFile /\ Touched(r) \subseteq DOMAIN r.file
      /\ r.create \cap people = {} /\ r.add \cup r.seat \subseteq people
  BY <1>1, <1>2 DEF Base, Requests, InFlightOK
<1>4. /\ people' = people \cup r.create
      /\ grants' = grants \cup {<<p, r.file[p].role>> : p \in r.create \cup r.add}
      /\ seats' = seats \cup r.create \cup r.seat
      /\ temp' = [p \in Person |-> IF p \in TemporaryOf(r) THEN runs ELSE temp[p]]
      /\ Bump((r.create \cup r.add) \cup r.seat)
      /\ UNCHANGED <<roles, rules, drawn, requests, batches, applied, contested>>
  BY <1>2 DEF Imported
<1>5. Touched(r) \subseteq Person /\ \A p \in Touched(r) : r.file[p].role \in Existing
  BY <1>1, <1>3, CliFileSays DEF RolesTypeOK
<1>6. people' \subseteq Person /\ Existing' = Existing /\ version' \in [Person -> Version]
  BY <1>1, <1>4, <1>5, Bumped DEF RolesTypeOK, Touched, Existing
<1>7. grants' \subseteq people' \X Existing'
  BY <1>1, <1>3, <1>4, <1>5, <1>6 DEF RolesTypeOK, Touched
<1>8. RolesTypeOK'
  BY <1>1, <1>4, <1>6, <1>7 DEF RolesTypeOK
<1>9. \A v \in Worker \ {w} : WrittenKept(v)
  <2> SUFFICES ASSUME NEW v \in Worker \ {w}, req[v].op = "written"
               PROVE  req[v].create \cap people' = {} /\ req[v].add \cup req[v].seat \subseteq people'
    BY DEF WrittenKept
  <2>1. req[v].create \cap people = {} /\ req[v].add \cup req[v].seat \subseteq people
    BY <1>1 DEF Base, Requests, InFlightOK
  <2>2. Touched(req[v]) \cap Touched(r) = {}
    BY <1>1, <1>2, <1>3 DEF Base, Requests, Apart
  <2> QED
    BY <1>4, <2>1, <2>2 DEF Touched
<1>10. Requests'
  BY <1>1, <1>4, <1>9, NothingMoves, FreeKept
<1>11. Base'
  BY <1>1, <1>4, <1>8, <1>10, BaseOfRoles
<1>12. CliTypeOK'
  BY <1>1, <1>3, <1>4 DEF CliTypeOK
<1> QED
  BY <1>11, <1>12, ShapeIs

\* A run that ends and leaves the tables as they are.
LEMMA CliStopShape ==
  ASSUME Shape, NEW w \in Worker, CliCommitFails(w) \/ CliEnds(w)
  PROVE  Shape'
<1>1. Base /\ CliTypeOK /\ overlap \in BOOLEAN
  BY ShapeIs DEF Base, ImportTypeOK, RolesTypeOK
<1>2. /\ Put(w, Free) /\ UNCHANGED <<tables, drawn, requests, batches, applied, contested, cliTables>>
      /\ disk' \in {disk, Null} /\ UNCHANGED <<handed, runs, lost>>
  BY DEF CliCommitFails, CliEnds, Step, Unlinked
<1>3. RolesTypeOK' /\ Requests'
  BY <1>1, <1>2, NothingMoves, Overlaps, StepFree DEF Put
<1>4. CliTypeOK'
  BY <1>1, <1>2 DEF CliTypeOK, tables, cliTables
<1> QED
  BY <1>1, <1>2, <1>3, <1>4, BaseOfRoles, ShapeIs

LEMMA HandOutShape ==
  ASSUME Shape, HandOut \/ UNCHANGED vars
  PROVE  Shape'
<1>1. Base /\ CliTypeOK
  BY ShapeIs
<1>2. UNCHANGED <<tables, drawn, req, requests, overlap, batches, applied, contested, cliTables, runs, lost>>
  BY DEF HandOut, vars, importVars, rolesVars, cliTables
<1>3. handed' \in [Person -> Run] /\ disk' \in [Person -> Run] \cup {Null}
  BY <1>1 DEF HandOut, CliTypeOK, vars
<1>4. RolesTypeOK' /\ BatchesOK' /\ ImportTypeOK'
  BY <1>1, <1>2 DEF Base, ImportTypeOK, RolesTypeOK, BatchesOK, tables, Existing
<1>5. Requests'
  BY <1>1, <1>2 DEF Base, Requests, InFlightOK, Apart, tables, Touched
<1>6. CliTypeOK'
  BY <1>1, <1>2, <1>3 DEF CliTypeOK, tables, cliTables
<1> QED
  BY <1>4, <1>5, <1>6, ShapeIs DEF Base

LEMMA NextShape ==
  ASSUME Shape, [Next]_vars
  PROVE  Shape'
<1>1. ASSUME NEW w \in Worker, CliCommit(w) \/ CliAnswerLost(w) PROVE Shape'
  <2>1. overlap \in BOOLEAN
    BY ShapeIs DEF Base, ImportTypeOK, RolesTypeOK
  <2>2. overlap' \in BOOLEAN
    BY <1>1, <2>1, Overlaps DEF CliCommit, CliAnswerLost
  <2>3. /\ req[w].op = "written" /\ Imported(req[w]) /\ req' = [req EXCEPT ![w] = Free]
        /\ UNCHANGED <<handed, runs>> /\ (disk' = disk \/ disk' = Null)
        /\ lost' \subseteq lost \cup {runs}
    BY <1>1 DEF CliCommit, CliAnswerLost, Put, Unlinked
  <2> QED
    BY <2>2, <2>3, ImportedShape
<1>2. ASSUME NEW w \in Worker,
             (\E file \in CliFile : CliPlan(w, file)) \/ CliWrite(w) \/ CliCommit(w)
               \/ CliCommitFails(w) \/ CliAnswerLost(w) \/ CliEnds(w)
      PROVE  Shape'
  BY <1>1, <1>2, CliPlanShape, CliWriteShape, CliStopShape
<1> QED
  BY <1>2, PanelShape, HandOutShape DEF Next

LEMMA InitShape ==
  ASSUME Init
  PROVE  Shape
<1>1. /\ roles = [r \in DOMAIN FirstName |->
                    [key |-> FirstName[r], name |-> FirstName[r], allows |-> TRUE]]
      /\ people = {} /\ grants = {} /\ version = [p \in Person |-> 0] /\ rules = <<>>
      /\ drawn = DOMAIN FirstName /\ req = [w \in Worker |-> Free] /\ requests = 0
      /\ overlap = FALSE /\ contested = {} /\ lost = {}
      /\ batches = [b \in Batch |-> Null] /\ applied = [b \in Batch |-> 0]
      /\ seats = {} /\ temp = [p \in Person |-> 0] /\ disk = Null
      /\ handed = [p \in Person |-> 0] /\ runs = 0
  BY DEF Init, InitImport, InitRoles
<1>2. Existing = DOMAIN FirstName
  BY <1>1 DEF Existing
<1>3. /\ \A r \in Existing : roles[r] = [key |-> FirstName[r], name |-> FirstName[r], allows |-> TRUE]
      /\ \A r \in Existing : FirstName[r] \in Name
  BY <1>1, <1>2, RolesAssumption
<1>4. roles \in [Existing -> RoleRow] /\ \A r \in Existing : roles[r].key = FirstName[r]
  BY <1>1, <1>2, <1>3 DEF RoleRow
<1>5. \A r, s \in Existing : roles[r].key = roles[s].key => r = s
  BY <1>2, <1>4, RolesAssumption
<1>6. DOMAIN rules = {}
  BY <1>1
<1>7. RolesTypeOK
  <2>1. overlap \in BOOLEAN
    BY <1>1
  <2> QED
    BY <1>1, <1>2, <1>4, <1>5, <1>6, <2>1, RolesAssumption DEF RolesTypeOK, Version
<1>8. ImportTypeOK
  BY <1>1, <1>7 DEF ImportTypeOK, MaxApplied
<1>9. Requests
  BY <1>1 DEF Requests, InFlightOK, Apart, Free
<1>10. BatchesOK
  BY <1>1 DEF BatchesOK
<1>11. CliTypeOK
  BY <1>1, CliAssumption DEF CliTypeOK, Run
<1> QED
  BY <1>8, <1>9, <1>10, <1>11, ShapeIs DEF Base
-----------------------------------------------------------------------------
(* How requests move.                                                       *)

LEMMA PutMoves ==
  ASSUME Requests, NEW w \in Worker, NEW r, req' = [req EXCEPT ![w] = r]
  PROVE  req'[w] = r /\ \A v \in Worker : v # w => req'[v] = req[v]
  BY DEF Requests

LEMMA FreeMoves ==
  ASSUME Requests, NEW w \in Worker, req' = [req EXCEPT ![w] = Free]
  PROVE  req'[w] = Free /\ req'[w].op = "none" /\ \A v \in Worker : v # w => req'[v] = req[v]
<1>1. PICK r : r = Free
  OBVIOUS
<1>2. req'[w] = r /\ \A v \in Worker : v # w => req'[v] = req[v]
  BY <1>1, PutMoves
<1> QED
  BY <1>1, <1>2 DEF Free

\* No request comes to have written.
NoWrites == \A v \in Worker : req'[v].op = "written" => req'[v] = req[v]

\* No request enters a commit of the panel's import, or leaves its transaction.
NoCommits ==
  \A v \in Worker :
    \/ req'[v] = req[v]
    \/ req[v].op # "applied" /\ req'[v].op \notin {"commit", "mismatch", "apply", "applied"}

LEMMA RolesMove ==
  ASSUME Requests, NextRoles
  PROVE  NoWrites /\ NoCommits
<1>1. CASE AtOnce
  BY <1>1 DEF AtOnce, NoWrites, NoCommits
<1>2. ASSUME NEW w \in Worker, NEW r, Put(w, r), r.op \in {"none", "patch", "delete"},
             req[w].op \in {"none", "patch", "delete"}
      PROVE  NoWrites /\ NoCommits
  <2>1. req'[w] = r /\ \A v \in Worker : v # w => req'[v] = req[v]
    BY <1>2, PutMoves DEF Put
  <2> QED
    BY <1>2, <2>1 DEF NoWrites, NoCommits
<1>3. Free.op = "none"
  BY DEF Free
<1>4. ASSUME NEW w \in Worker, NEW r \in Custom, NEW name \in Name, NEW allows \in BOOLEAN,
             PatchRead(w, r, name, allows)
      PROVE  NoWrites /\ NoCommits
  <2>1. PICK q : q = [op |-> "patch", role |-> r, read |-> roles[r],
                      wanted |-> [roles[r] EXCEPT !.name = name, !.allows = allows],
                      holders |-> [p \in HoldersOf(r) |-> version[p]]]
    OBVIOUS
  <2>2. q.op = "patch"
    BY <2>1
  <2>3. Put(w, q) /\ req[w] = Free
    BY <1>4, <2>1 DEF PatchRead, Begin
  <2> QED
    BY <1>2, <1>3, <2>2, <2>3
<1>5. ASSUME NEW w \in Worker, NEW r \in Custom, DeleteRead(w, r)
      PROVE  NoWrites /\ NoCommits
  <2>1. PICK q : q = [op |-> "delete", role |-> r]
    OBVIOUS
  <2>2. q.op = "delete" /\ Put(w, q) /\ req[w] = Free
    BY <1>5, <2>1 DEF DeleteRead, Begin
  <2> QED
    BY <1>2, <1>3, <2>2
<1>6. ASSUME NEW w \in Worker, PatchCommit(w) \/ DeleteCommit(w) \/ RefuseRole(w)
      PROVE  NoWrites /\ NoCommits
  <2>1. Put(w, Free) /\ req[w].op \in {"patch", "delete"}
    BY <1>6 DEF PatchCommit, DeleteCommit, RefuseRole, Step
  <2> QED
    BY <1>2, <1>3, <2>1
<1>7. CASE \/ \E r \in Role, name \in Name, source \in Existing \cup {Null} : CreateRole(r, name, source)
           \/ \E p \in Person : \E r \in Existing : GrantRole(p, r) \/ RevokeRole(p, r)
           \/ \E p \in Person : CreateUser(p) \/ DeleteUser(p)
           \/ \E g \in Group, r \in Existing : PutRule(g, r)
  BY <1>1, <1>7 DEF CreateRole, GrantRole, RevokeRole, CreateUser, DeleteUser, PutRule
<1> QED
  BY <1>4, <1>5, <1>6, <1>7 DEF NextRoles

\* What the panel's import does to requests, in one place.
LEMMA ImportMoves ==
  ASSUME Requests, NextImport
  PROVE  NoWrites
<1>1. CASE NextRoles
  BY <1>1, RolesMove
<1>2. ASSUME NEW w \in Worker, NEW r, req' = [req EXCEPT ![w] = r], r.op # "written"
      PROVE  NoWrites
  <2>1. req'[w] = r /\ \A v \in Worker : v # w => req'[v] = req[v]
    BY <1>2, PutMoves
  <2> QED
    BY <1>2, <2>1 DEF NoWrites
<1>3. Free.op = "none"
  BY DEF Free
<1>4. ASSUME NEW w \in Worker, NEW file \in File, Validate(w, file)
      PROVE  NoWrites
  <2>1. PICK keys : Begin(w, [op |-> "validate", file |-> file, keys |-> keys])
    BY <1>4 DEF Validate
  <2>2. PICK q : q = [op |-> "validate", file |-> file, keys |-> keys]
    OBVIOUS
  <2>3. q.op = "validate" /\ Put(w, q)
    BY <2>1, <2>2 DEF Begin
  <2> QED
    BY <1>2, <2>3 DEF Put
<1>5. ASSUME NEW w \in Worker, NEW b \in Batch, CommitRead(w, b)
      PROVE  NoWrites
  <2>1. PICK keys : Begin(w, [op |-> "commit", batch |-> b, keys |-> keys])
    BY <1>5 DEF CommitRead
  <2>2. PICK q : q = [op |-> "commit", batch |-> b, keys |-> keys]
    OBVIOUS
  <2>3. q.op = "commit" /\ Put(w, q)
    BY <2>1, <2>2 DEF Begin
  <2> QED
    BY <1>2, <2>3 DEF Put
<1>6. ASSUME NEW w \in Worker, Compare(w)
      PROVE  NoWrites
  <2>1. PICK b, fresh : Step(w, IF fresh # batches[b].preview THEN [op |-> "mismatch", batch |-> b]
                                ELSE IF fresh = {} THEN Free
                                ELSE [op |-> "apply", batch |-> b, rows |-> fresh])
    BY <1>6 DEF Compare
  <2>2. PICK q : q = IF fresh # batches[b].preview THEN [op |-> "mismatch", batch |-> b]
                     ELSE IF fresh = {} THEN Free
                     ELSE [op |-> "apply", batch |-> b, rows |-> fresh]
    OBVIOUS
  <2>3. q.op # "written" /\ Put(w, q)
    BY <1>3, <2>1, <2>2 DEF Step
  <2> QED
    BY <1>2, <2>3 DEF Put
<1>7. ASSUME NEW w \in Worker, Apply(w)
      PROVE  NoWrites
  <2>1. PICK q : q = [op |-> "applied", batch |-> req[w].batch]
    OBVIOUS
  <2>2. q.op = "applied" /\ Put(w, q)
    BY <1>7, <2>1 DEF Apply
  <2> QED
    BY <1>2, <2>2 DEF Put
<1>8. ASSUME NEW w \in Worker,
             (\E b \in Batch : StorePreview(w, b)) \/ MarkFailed(w) \/ Finish(w) \/ RefuseImport(w)
      PROVE  NoWrites
  <2>1. req' = [req EXCEPT ![w] = Free]
    BY <1>8 DEF StorePreview, MarkFailed, Finish, RefuseImport, Step, Put
  <2> QED
    BY <1>2, <1>3, <2>1
<1> QED
  BY <1>1, <1>4, <1>5, <1>6, <1>7, <1>8 DEF NextImport

-----------------------------------------------------------------------------
(* Passwords: whose the file holds.                                         *)

LEMMA KeptStays ==
  ASSUME Kept, NoWrites, UNCHANGED <<disk, handed, runs, lost>>,
         people' \subseteq Person,
         \A p \in Person : temp'[p] # 0 => temp'[p] = temp[p] /\ p \in people'
  PROVE  Kept'
<1>1. FileIsOfRun'
  <2>1. \A v \in Worker : Writing(req[v])' => Writing(req[v]) /\ req'[v] = req[v]
    BY DEF NoWrites, Writing, TemporaryOf
  <2> QED
    BY <2>1 DEF Kept, FileIsOfRun, TemporaryOf
<1>2. FileIsTrue'
  BY DEF Kept, FileIsTrue
<1>3. Found'
  <2> SUFFICES ASSUME NEW p \in people', temp'[p] # 0, temp'[p] \notin lost'
               PROVE  temp'[p] = handed'[p] \/ (disk' # Null /\ disk'[p] = temp'[p])
    BY DEF Found
  <2>1. p \in Person /\ temp[p] = temp'[p] /\ temp[p] # 0
    OBVIOUS
  <2>2. p \in people
    BY <2>1 DEF Kept, FileIsTrue
  <2> QED
    BY <2>1, <2>2 DEF Kept, Found
<1> QED
  BY <1>1, <1>2, <1>3 DEF Kept

LEMMA PanelKept ==
  ASSUME Shape, Kept, Panel
  PROVE  Kept'
<1>1. Base /\ Base'
  BY ShapeIs, PanelShape
<1>2. people' \subseteq Person
  BY <1>1 DEF Base, ImportTypeOK, RolesTypeOK
<1>3. NoWrites
  BY <1>1, ImportMoves DEF Panel, Base
<1>4. \A p \in Person : temp'[p] # 0 => temp'[p] = temp[p] /\ p \in people'
  BY DEF Panel
<1> QED
  BY <1>2, <1>3, <1>4, KeptStays DEF Panel

\* A step after which no more requests have written, beside the tables.
LEMMA MovesKept ==
  ASSUME Shape, Kept, NEW w \in Worker, NEW r, Put(w, r), r.op # "written",
         UNCHANGED <<people, temp, disk, handed, runs, lost>>
  PROVE  Kept'
<1>1. Requests /\ people \subseteq Person
  BY ShapeIs DEF Base, ImportTypeOK, RolesTypeOK
<1>2. req'[w] = r /\ \A v \in Worker : v # w => req'[v] = req[v]
  BY <1>1, PutMoves DEF Put
<1>3. NoWrites
  BY <1>2 DEF NoWrites
<1> QED
  BY <1>1, <1>3, KeptStays DEF Kept, FileIsTrue

LEMMA CliPlanKept ==
  ASSUME Shape, Kept, NEW w \in Worker, NEW file \in CliFile, CliPlan(w, file)
  PROVE  Kept'
<1>1. PICK create, add, seat :
        Put(w, [op |-> "planned", file |-> file, create |-> create, add |-> add, seat |-> seat])
  BY DEF CliPlan, Begin
<1>2. PICK q : q = [op |-> "planned", file |-> file, create |-> create, add |-> add, seat |-> seat]
  OBVIOUS
<1>3. Put(w, q) /\ q.op # "written"
  BY <1>1, <1>2
<1>4. UNCHANGED <<people, temp, disk, handed, runs, lost>>
  BY DEF CliPlan, Begin, tables, cliTables
<1> QED
  BY <1>3, <1>4, MovesKept

LEMMA CliEndsKept ==
  ASSUME Shape, Kept, NEW w \in Worker, CliEnds(w)
  PROVE  Kept'
<1>1. Put(w, Free) /\ Free.op # "written" /\ UNCHANGED <<people, temp, disk, handed, runs, lost>>
  BY DEF CliEnds, Step, Free, tables, cliTables
<1> QED
  BY <1>1, MovesKept

\* A file there is keeps every other run from writing one.
LEMMA WritingHasFile ==
  ASSUME Shape, Kept, NEW v \in Worker, Writing(req[v])
  PROVE  disk # Null
<1>1. runs \in Run /\ 0 \in Run
  BY CliAssumption DEF Shape, TypeOK, Run
<1>2. disk = [p \in Person |-> IF p \in TemporaryOf(req[v]) THEN runs ELSE 0]
  BY DEF Kept, FileIsOfRun
<1>3. disk \in [Person -> Run]
  BY <1>1, <1>2
<1> QED
  BY <1>3, CliAssumption DEF Run

LEMMA CliWriteKept ==
  ASSUME Shape, Kept, NEW w \in Worker, CliWrite(w)
  PROVE  Kept'
<1>1. Base /\ Requests /\ people \subseteq Person /\ runs \in Nat
  BY ShapeIs, CliAssumption DEF Base, ImportTypeOK, RolesTypeOK, CliTypeOK, Run
<1>2. PICK r : r = req[w]
  OBVIOUS
<1>3. /\ r.op = "planned"
      /\ r = [op |-> r.op, file |-> r.file, create |-> r.create, add |-> r.add, seat |-> r.seat]
  BY <1>1, <1>2 DEF CliWrite, Requests, InFlightOK
<1>4. PICK q : q = [r EXCEPT !.op = "written"]
  OBVIOUS
<1>5. q.op = "written" /\ q.file = r.file /\ q.create = r.create
  BY <1>3, <1>4
<1>6. TemporaryOf(q) = TemporaryOf(r)
  BY <1>5 DEF TemporaryOf
<1>7. Put(w, q) /\ StillSo(r) /\ UNCHANGED <<people, temp, handed, lost>>
  BY <1>2, <1>4 DEF CliWrite, Step, tables, cliTables
<1>8. req'[w] = q /\ (\A v \in Worker : v # w => req'[v] = req[v])
  BY <1>1, <1>7, PutMoves DEF Put
<1>9. CASE TemporaryOf(r) = {}
  <2>1. UNCHANGED <<disk, runs>> /\ ~Writing(q)
    BY <1>2, <1>6, <1>9 DEF CliWrite, Writing
  <2>2. \A v \in Worker : Writing(req[v])' => Writing(req[v]) /\ req'[v] = req[v]
    BY <1>8, <2>1 DEF Writing, TemporaryOf
  <2>3. FileIsOfRun'
    BY <2>1, <2>2 DEF Kept, FileIsOfRun, TemporaryOf
  <2> QED
    BY <1>7, <1>8, <2>1, <2>3 DEF Kept, FileIsTrue, Found
<1>10. CASE TemporaryOf(r) # {}
  <2>1. /\ disk = Null /\ runs' = runs + 1
        /\ disk' = [p \in Person |-> IF p \in TemporaryOf(r) THEN runs' ELSE 0]
    BY <1>2, <1>10 DEF CliWrite
  <2>2. \A v \in Worker : ~Writing(req[v])
    BY <2>1, WritingHasFile
  <2>3. \A v \in Worker : Writing(req[v])' => v = w
    BY <1>8, <2>2 DEF Writing, TemporaryOf
  <2>4. FileIsOfRun'
    BY <1>6, <1>8, <2>1, <2>3 DEF FileIsOfRun, TemporaryOf
  <2>5. \A p \in TemporaryOf(r) : p \notin people
    BY <1>7 DEF TemporaryOf, StillSo
  <2>6. FileIsTrue'
    BY <1>7, <2>1, <2>5 DEF Kept, FileIsTrue
  <2>7. Found'
    BY <1>7, <1>8, <2>1 DEF Kept, Found
  <2> QED
    BY <2>4, <2>6, <2>7 DEF Kept
<1> QED
  BY <1>9, <1>10

\* What a run that has written knows of its file.
LEMMA WrittenFile ==
  ASSUME Shape, Kept, NEW w \in Worker, req[w].op = "written"
  PROVE  /\ req[w].create \cap people = {} /\ TemporaryOf(req[w]) \subseteq req[w].create
         /\ req[w].create \subseteq Person
         /\ TemporaryOf(req[w]) # {} =>
              /\ disk = [p \in Person |-> IF p \in TemporaryOf(req[w]) THEN runs ELSE 0]
              /\ \A v \in Worker : v # w => ~Writing(req[v])
<1>1. InFlightOK(req[w])
  BY DEF Shape, Requests
<1>2. req[w].file \in CliFile /\ req[w].create \subseteq DOMAIN req[w].file
  BY <1>1 DEF InFlightOK, Touched
<1>3. req[w].create \subseteq Person /\ req[w].create \cap people = {}
  BY <1>1, <1>2, CliFileSays DEF InFlightOK
<1>4. TemporaryOf(req[w]) # {} => Writing(req[w])
  BY DEF Writing
<1> QED
  BY <1>3, <1>4 DEF Kept, FileIsOfRun, TemporaryOf

LEMMA CommitKept ==
  ASSUME Shape, Kept, NEW w \in Worker, CliCommit(w) \/ CliAnswerLost(w)
  PROVE  Kept'
<1>1. Requests /\ people \subseteq Person
  BY ShapeIs DEF Base, ImportTypeOK, RolesTypeOK
<1>2. PICK r : r = req[w]
  OBVIOUS
<1>3. /\ r.create \cap people = {} /\ TemporaryOf(r) \subseteq r.create /\ r.create \subseteq Person
      /\ TemporaryOf(r) # {} =>
           /\ disk = [p \in Person |-> IF p \in TemporaryOf(r) THEN runs ELSE 0]
           /\ \A v \in Worker : v # w => ~Writing(req[v])
  BY <1>2, WrittenFile DEF CliCommit, CliAnswerLost
<1>4. /\ people' = people \cup r.create
      /\ temp' = [p \in Person |-> IF p \in TemporaryOf(r) THEN runs ELSE temp[p]]
      /\ UNCHANGED <<handed, runs>> /\ req' = [req EXCEPT ![w] = Free]
      /\ \/ disk' = disk /\ lost' = lost
         \/ /\ disk' = Unlinked(r)
            /\ lost' = lost \cup (IF TemporaryOf(r) = {} THEN {} ELSE {runs})
  BY <1>2 DEF CliCommit, CliAnswerLost, Imported, Put
<1>5. req'[w].op = "none" /\ \A v \in Worker : v # w => req'[v] = req[v]
  BY <1>1, <1>4, FreeMoves
<1>6. \A v \in Worker : Writing(req[v])' => Writing(req[v]) /\ req'[v] = req[v] /\ v # w
  BY <1>5 DEF Writing, TemporaryOf
<1>7. FileIsOfRun'
  <2>1. CASE \A v \in Worker : ~Writing(req[v])'
    BY <2>1 DEF FileIsOfRun
  <2>2. CASE \E v \in Worker : Writing(req[v])'
    <3>1. TemporaryOf(r) = {}
      BY <1>3, <1>6, <2>2
    <3>2. disk' = disk
      BY <1>4, <3>1 DEF Unlinked
    <3> QED
      BY <1>4, <1>6, <3>2 DEF Kept, FileIsOfRun, TemporaryOf
  <2> QED
    BY <2>1, <2>2
<1>8. FileIsTrue'
  <2> SUFFICES ASSUME NEW p \in Person, temp'[p] # 0
               PROVE  p \in people' /\ (disk' # Null => disk'[p] \in {0, temp'[p]})
    BY DEF FileIsTrue
  <2>1. CASE p \in TemporaryOf(r)
    <3>1. temp'[p] = runs /\ disk[p] = runs /\ p \in people'
      BY <1>3, <1>4, <2>1
    <3> QED
      BY <1>4, <2>1, <3>1 DEF Unlinked
  <2>2. CASE p \notin TemporaryOf(r)
    <3>1. temp'[p] = temp[p] /\ p \in people /\ (disk # Null => disk[p] \in {0, temp[p]})
      BY <1>4, <2>2 DEF Kept, FileIsTrue
    <3> QED
      BY <1>4, <3>1 DEF Unlinked
  <2> QED
    BY <2>1, <2>2
<1>9. Found'
  <2> SUFFICES ASSUME NEW p \in people', temp'[p] # 0, temp'[p] \notin lost'
               PROVE  temp'[p] = handed'[p] \/ (disk' # Null /\ disk'[p] = temp'[p])
    BY DEF Found
  <2>1. p \in Person /\ lost \subseteq lost'
    BY <1>1, <1>3, <1>4
  <2>2. CASE p \in TemporaryOf(r)
    <3>1. temp'[p] = runs /\ disk[p] = runs /\ disk' = disk
      BY <1>3, <1>4, <2>1, <2>2
    <3>2. Writing(req[w])
      BY <1>2, <2>2 DEF Writing, CliCommit, CliAnswerLost
    <3> QED
      BY <2>1, <3>1, <3>2, WritingHasFile
  <2>3. CASE p \notin TemporaryOf(r)
    <3>1. temp'[p] = temp[p] /\ p \in people
      BY <1>4, <2>1, <2>3 DEF Kept, FileIsTrue
    <3>2. temp[p] = handed[p] \/ (disk # Null /\ disk[p] = temp[p])
      BY <2>1, <3>1 DEF Kept, Found
    <3>3. disk # Null /\ disk[p] = temp[p] => disk' = disk
      BY <1>3, <1>4, <2>1, <2>3, <3>1 DEF Unlinked
    <3> QED
      BY <1>4, <3>1, <3>2, <3>3
  <2> QED
    BY <2>2, <2>3
<1> QED
  BY <1>7, <1>8, <1>9 DEF Kept

\* What is removed is a file of people who have no account.
LEMMA CommitFailsKept ==
  ASSUME Shape, Kept, NEW w \in Worker, CliCommitFails(w)
  PROVE  Kept'
<1>1. Requests /\ people \subseteq Person
  BY ShapeIs DEF Base, ImportTypeOK, RolesTypeOK
<1>2. PICK r : r = req[w]
  OBVIOUS
<1>3. /\ r.create \cap people = {} /\ TemporaryOf(r) \subseteq r.create
      /\ TemporaryOf(r) # {} =>
           /\ disk = [p \in Person |-> IF p \in TemporaryOf(r) THEN runs ELSE 0]
           /\ \A v \in Worker : v # w => ~Writing(req[v])
  BY <1>2, WrittenFile DEF CliCommitFails
<1>4. /\ UNCHANGED <<people, temp, handed, runs, lost>> /\ Put(w, Free) /\ disk' = Unlinked(r)
  BY <1>2 DEF CliCommitFails, Step, tables, cliTables
<1>5. /\ req'[w].op = "none"
      /\ \A v \in Worker : v # w => req'[v] = req[v]
  BY <1>1, <1>4, FreeMoves DEF Put
<1>6. \A v \in Worker : Writing(req[v])' => Writing(req[v]) /\ req'[v] = req[v] /\ v # w
  BY <1>5 DEF Writing, TemporaryOf
<1>7. CASE TemporaryOf(r) = {}
  <2>1. disk' = disk /\ NoWrites
    BY <1>4, <1>5, <1>7 DEF Unlinked, NoWrites
  <2> QED
    BY <1>1, <1>4, <1>5, <2>1, KeptStays DEF Kept, FileIsTrue
<1>8. CASE TemporaryOf(r) # {}
  <2>1. disk' = Null /\ \A v \in Worker : ~Writing(req[v])'
    BY <1>3, <1>4, <1>6, <1>8 DEF Unlinked
  <2>2. FileIsOfRun' /\ FileIsTrue'
    BY <1>4, <2>1 DEF Kept, FileIsOfRun, FileIsTrue
  <2>3. Found'
    <3> SUFFICES ASSUME NEW p \in people, temp[p] # 0, temp[p] \notin lost
                 PROVE  temp[p] = handed[p]
      BY <1>4, <2>1 DEF Found
    <3>1. temp[p] = handed[p] \/ (disk # Null /\ disk[p] = temp[p])
      BY DEF Kept, Found
    <3>2. disk[p] = 0
      BY <1>1, <1>3, <1>8
    <3> QED
      BY <3>1, <3>2
  <2> QED
    BY <2>2, <2>3 DEF Kept
<1> QED
  BY <1>7, <1>8

LEMMA HandOutKept ==
  ASSUME Shape, Kept, HandOut
  PROVE  Kept'
<1>1. /\ handed' = [p \in Person |-> IF disk[p] # 0 THEN disk[p] ELSE handed[p]]
      /\ disk # Null /\ disk' = Null /\ UNCHANGED <<people, temp, runs, req, lost>>
      /\ people \subseteq Person
  BY ShapeIs DEF HandOut, importVars, rolesVars, tables, cliTables, Base, ImportTypeOK, RolesTypeOK
<1>2. FileIsOfRun'
  BY <1>1 DEF FileIsOfRun, Writing, TemporaryOf, HandOut
<1>3. FileIsTrue'
  BY <1>1 DEF Kept, FileIsTrue
<1>4. Found'
  BY <1>1 DEF Kept, FileIsTrue, Found
<1> QED
  BY <1>2, <1>3, <1>4 DEF Kept

LEMMA NextKept ==
  ASSUME Shape, Kept, [Next]_vars
  PROVE  Kept'
<1>1. CASE UNCHANGED vars
  <2>1. UNCHANGED <<people, temp, disk, handed, runs, req, lost>>
    BY <1>1 DEF vars, importVars, rolesVars, tables
  <2>2. FileIsOfRun'
    BY <2>1 DEF Kept, FileIsOfRun, Writing, TemporaryOf
  <2>3. FileIsTrue' /\ Found'
    BY <2>1 DEF Kept, FileIsTrue, Found
  <2> QED
    BY <2>2, <2>3 DEF Kept
<1>2. ASSUME NEW w \in Worker,
             (\E file \in CliFile : CliPlan(w, file)) \/ CliWrite(w) \/ CliCommit(w)
               \/ CliCommitFails(w) \/ CliAnswerLost(w) \/ CliEnds(w)
      PROVE  Kept'
  BY <1>2, CliPlanKept, CliWriteKept, CommitKept, CommitFailsKept, CliEndsKept
<1> QED
  BY <1>1, <1>2, PanelKept, HandOutKept DEF Next
-----------------------------------------------------------------------------
(* Until requests overlap: one request, and what it read still holds.       *)

LEMMA SerialPut ==
  ASSUME Requests, NEW w \in Worker, NEW r, Put(w, r), r # Free, Current(r)'
  PROVE  Serial'
<1> SUFFICES ASSUME ~overlap'
             PROVE  Alone' /\ \A v \in Worker : Current(req[v])'
  BY DEF Serial
<1>1. \A v \in Worker : v # w => req[v] = Free
  BY DEF Put
<1>2. req'[w] = r /\ \A v \in Worker : v # w => req'[v] = Free
  BY <1>1, PutMoves DEF Put
<1>3. Alone'
  BY <1>2 DEF Alone, Free
<1>4. Free.op = "none"
  BY DEF Free
<1>5. ASSUME NEW v \in Worker PROVE Current(req[v])'
  <2>1. CASE v = w
    BY <1>2, <2>1
  <2>2. CASE v # w
    BY <1>2, <1>4, <2>2 DEF Current
  <2> QED
    BY <2>1, <2>2
<1> QED
  BY <1>3, <1>5

LEMMA SerialFree ==
  ASSUME Requests, Serial, (overlap => overlap'),
         NEW w \in Worker, req[w] # Free, req' = [req EXCEPT ![w] = Free]
  PROVE  Serial'
<1> SUFFICES ASSUME ~overlap'
             PROVE  Alone' /\ \A v \in Worker : Current(req[v])'
  BY DEF Serial
<1>1. \A v \in Worker : req'[v] = Free
  BY FreeMoves DEF Serial, Alone
<1>2. Free.op = "none"
  BY DEF Free
<1> QED
  BY <1>1, <1>2 DEF Alone, Current, Free

LEMMA SerialAtOnce ==
  ASSUME AtOnce
  PROVE  Serial'
<1> SUFFICES ASSUME ~overlap'
             PROVE  Alone' /\ \A v \in Worker : Current(req[v])'
  BY DEF Serial
<1>1. \A v \in Worker : req'[v] = Free
  BY DEF AtOnce
<1>2. Free.op = "none"
  BY DEF Free
<1> QED
  BY <1>1, <1>2 DEF Alone, Current, Free

\* What a change to a role has read is the role, and its holders, as they are.
LEMMA RolesSerial ==
  ASSUME Requests, Serial, NextRoles
  PROVE  Serial'
<1>1. Free.op = "none"
  BY DEF Free
<1>2. ASSUME NEW w \in Worker, NEW r \in Custom, NEW name \in Name, NEW allows \in BOOLEAN,
             PatchRead(w, r, name, allows)
      PROVE  Serial'
  <2>1. PICK holders : holders = [p \in HoldersOf(r) |-> version[p]]
    OBVIOUS
  <2>2. PICK wanted : wanted = [roles[r] EXCEPT !.name = name, !.allows = allows]
    OBVIOUS
  <2>3. PICK q : q = [op |-> "patch", role |-> r, read |-> roles[r], wanted |-> wanted,
                      holders |-> holders]
    OBVIOUS
  <2>4. q.op = "patch" /\ q.role = r /\ q.read = roles[r] /\ q.holders = holders
    BY <2>3
  <2>5. Begin(w, q)
    BY <1>2, <2>1, <2>2, <2>3 DEF PatchRead
  <2>6. UNCHANGED <<roles, grants, version>> /\ r \in Existing
    BY <2>5 DEF Begin, tables, Custom
  <2>7. Current(q)'
    BY <2>1, <2>4, <2>6 DEF Current, HoldersOf, Existing
  <2>8. q # Free
    BY <1>1, <2>4
  <2> QED
    BY <2>5, <2>7, <2>8, SerialPut DEF Begin
<1>3. ASSUME NEW w \in Worker, NEW r \in Custom, DeleteRead(w, r)
      PROVE  Serial'
  <2>1. PICK q : q = [op |-> "delete", role |-> r]
    OBVIOUS
  <2>2. q.op = "delete" /\ q.role = r /\ Begin(w, q) /\ HoldersOf(r) = {}
    BY <1>3, <2>1 DEF DeleteRead
  <2>3. Current(q)'
    BY <2>2 DEF Current, HoldersOf, Begin, tables
  <2>4. q # Free
    BY <1>1, <2>2
  <2> QED
    BY <2>2, <2>3, <2>4, SerialPut DEF Begin
<1>4. ASSUME NEW w \in Worker, PatchCommit(w) \/ DeleteCommit(w) \/ RefuseRole(w)
      PROVE  Serial'
  <2>1. Put(w, Free) /\ req[w].op \in {"patch", "delete"}
    BY <1>4 DEF PatchCommit, DeleteCommit, RefuseRole, Step
  <2>2. req[w] # Free
    BY <1>1, <2>1
  <2> QED
    BY <2>1, <2>2, SerialFree DEF Put
<1>5. CASE \/ \E r \in Role, name \in Name, source \in Existing \cup {Null} : CreateRole(r, name, source)
           \/ \E p \in Person : \E r \in Existing : GrantRole(p, r) \/ RevokeRole(p, r)
           \/ \E p \in Person : CreateUser(p) \/ DeleteUser(p)
           \/ \E g \in Group, r \in Existing : PutRule(g, r)
  BY <1>5, SerialAtOnce DEF CreateRole, GrantRole, RevokeRole, CreateUser, DeleteUser, PutRule
<1> QED
  BY <1>2, <1>3, <1>4, <1>5 DEF NextRoles

\* Requests of the other kinds have read nothing of a role that they rely on.
LEMMA SerialOther ==
  ASSUME Requests, NEW w \in Worker, NEW r, Put(w, r), r # Free, r.op \notin {"patch", "delete"}
  PROVE  Serial'
  BY SerialPut DEF Current

LEMMA ImportSerial ==
  ASSUME Requests, Serial, NextImport
  PROVE  Serial'
<1>1. Free.op = "none"
  BY DEF Free
<1>2. ASSUME NEW w \in Worker, NEW file \in File, Validate(w, file) PROVE Serial'
  <2>1. PICK keys : Begin(w, [op |-> "validate", file |-> file, keys |-> keys])
    BY <1>2 DEF Validate
  <2>2. PICK q : q = [op |-> "validate", file |-> file, keys |-> keys]
    OBVIOUS
  <2>3. Put(w, q) /\ q.op = "validate"
    BY <2>1, <2>2 DEF Begin
  <2>4. q # Free
    BY <1>1, <2>3
  <2> QED
    BY <2>3, <2>4, SerialOther
<1>3. ASSUME NEW w \in Worker, NEW b \in Batch, CommitRead(w, b) PROVE Serial'
  <2>1. PICK keys : Begin(w, [op |-> "commit", batch |-> b, keys |-> keys])
    BY <1>3 DEF CommitRead
  <2>2. PICK q : q = [op |-> "commit", batch |-> b, keys |-> keys]
    OBVIOUS
  <2>3. Put(w, q) /\ q.op = "commit"
    BY <2>1, <2>2 DEF Begin
  <2>4. q # Free
    BY <1>1, <2>3
  <2> QED
    BY <2>3, <2>4, SerialOther
<1>4. ASSUME NEW w \in Worker, Compare(w) PROVE Serial'
  <2>1. PICK b, fresh : Step(w, IF fresh # batches[b].preview THEN [op |-> "mismatch", batch |-> b]
                                ELSE IF fresh = {} THEN Free
                                ELSE [op |-> "apply", batch |-> b, rows |-> fresh])
    BY <1>4 DEF Compare
  <2>2. PICK q : q = IF fresh # batches[b].preview THEN [op |-> "mismatch", batch |-> b]
                     ELSE IF fresh = {} THEN Free
                     ELSE [op |-> "apply", batch |-> b, rows |-> fresh]
    OBVIOUS
  <2>3. Put(w, q)
    BY <2>1, <2>2 DEF Step
  <2>4. q = Free \/ q.op \in {"mismatch", "apply"}
    BY <2>2
  <2>5. req[w] # Free
    BY <1>1, <1>4 DEF Compare
  <2>6. CASE q = Free
    BY <2>3, <2>5, <2>6, SerialFree DEF Put
  <2>7. CASE q # Free
    BY <2>3, <2>4, <2>7, SerialOther
  <2> QED
    BY <2>6, <2>7
<1>5. ASSUME NEW w \in Worker, Apply(w) PROVE Serial'
  <2>1. PICK q : q = [op |-> "applied", batch |-> req[w].batch]
    OBVIOUS
  <2>2. Put(w, q) /\ q.op = "applied"
    BY <1>5, <2>1 DEF Apply
  <2>3. q # Free
    BY <1>1, <2>2
  <2> QED
    BY <2>2, <2>3, SerialOther
<1>6. ASSUME NEW w \in Worker,
             (\E b \in Batch : StorePreview(w, b)) \/ MarkFailed(w) \/ Finish(w) \/ RefuseImport(w)
      PROVE  Serial'
  <2>1. /\ req' = [req EXCEPT ![w] = Free] /\ (overlap => overlap')
        /\ req[w].op \in {"validate", "commit", "mismatch", "apply", "applied"}
    BY <1>6 DEF StorePreview, MarkFailed, Finish, RefuseImport, Step, Put
  <2>2. req[w] # Free
    BY <1>1, <2>1
  <2> QED
    BY <2>1, <2>2, SerialFree
<1> QED
  BY <1>2, <1>3, <1>4, <1>5, <1>6, RolesSerial DEF NextImport

LEMMA NextSerial ==
  ASSUME Shape, Serial, [Next]_vars
  PROVE  Serial'
<1>1. Requests /\ Free.op = "none"
  BY DEF Shape, Free
<1>2. CASE HandOut \/ UNCHANGED vars
  <2>1. UNCHANGED <<roles, grants, version, req, overlap>>
    BY <1>2 DEF HandOut, vars, importVars, rolesVars, tables
  <2> QED
    BY <2>1 DEF Serial, Alone, Current, HoldersOf, Existing
<1>3. ASSUME NEW w \in Worker, NEW file \in CliFile, CliPlan(w, file) PROVE Serial'
  <2>1. PICK create, add, seat :
          Put(w, [op |-> "planned", file |-> file, create |-> create, add |-> add, seat |-> seat])
    BY <1>3 DEF CliPlan, Begin
  <2>2. PICK q : q = [op |-> "planned", file |-> file, create |-> create, add |-> add, seat |-> seat]
    OBVIOUS
  <2>3. Put(w, q) /\ q.op = "planned"
    BY <2>1, <2>2
  <2>4. q # Free
    BY <1>1, <2>3
  <2> QED
    BY <1>1, <2>3, <2>4, SerialOther
<1>4. ASSUME NEW w \in Worker, CliWrite(w) PROVE Serial'
  <2>1. PICK r : r = req[w]
    OBVIOUS
  <2>2. /\ r.op = "planned"
        /\ r = [op |-> r.op, file |-> r.file, create |-> r.create, add |-> r.add, seat |-> r.seat]
    BY <1>1, <1>4, <2>1 DEF CliWrite, Requests, InFlightOK
  <2>3. PICK q : q = [r EXCEPT !.op = "written"]
    OBVIOUS
  <2>4. q.op = "written" /\ Put(w, q)
    BY <1>4, <2>1, <2>2, <2>3 DEF CliWrite, Step
  <2>5. q # Free
    BY <1>1, <2>4
  <2> QED
    BY <1>1, <2>4, <2>5, SerialOther
<1>5. ASSUME NEW w \in Worker, CliCommit(w) \/ CliCommitFails(w) \/ CliAnswerLost(w) \/ CliEnds(w)
      PROVE  Serial'
  <2>1. /\ req' = [req EXCEPT ![w] = Free] /\ (overlap => overlap')
        /\ req[w].op \in {"planned", "written"}
    BY <1>5 DEF CliCommit, CliCommitFails, CliAnswerLost, CliEnds, Step, Put
  <2>2. req[w] # Free
    BY <1>1, <2>1
  <2> QED
    BY <1>1, <2>1, <2>2, SerialFree
<1> QED
  BY <1>1, <1>2, <1>3, <1>4, <1>5, ImportSerial DEF Next, Panel
-----------------------------------------------------------------------------
(* Batches: what they say, and commits one after the other.                 *)

LEMMA ToldStays ==
  ASSUME Told, applied \in [Batch -> Int], applied' \in [Batch -> Int],
         \A b \in Batch : (batches'[b] = batches[b] /\ applied'[b] >= applied[b])
                            \/ batches'[b].status \notin {"success", "warnings"}
  PROVE  Told'
<1> SUFFICES ASSUME NEW b \in Batch, batches'[b] # Null, batches'[b].status \in {"success", "warnings"}
             PROVE  applied'[b] > 0 /\ (batches'[b].status = "success" <=> Whole(b)')
  BY DEF Told
<1>1. batches'[b] = batches[b] /\ applied'[b] >= applied[b]
  OBVIOUS
<1>2. applied[b] > 0 /\ (batches[b].status = "success" <=> Whole(b))
  BY <1>1 DEF Told
<1>3. Whole(b)' <=> Whole(b)
  BY <1>1 DEF Whole
<1> QED
  BY <1>1, <1>2, <1>3

\* The batch that is told is told of a commit, and whether it was whole.
LEMMA FinishTold ==
  ASSUME Base, Told, NEW w \in Worker, Finish(w)
  PROVE  Told'
<1>1. PICK b : b = req[w].batch
  OBVIOUS
<1>2. b \in Batch /\ batches[b] # Null /\ applied[b] > 0 /\ batches[b] \in BatchRow
  BY <1>1 DEF Finish, Base, Requests, InFlightOK, ImportTypeOK
<1>3. PICK status \in {"success", "warnings"} :
        status = IF Whole(b) THEN "success" ELSE "warnings"
  OBVIOUS
<1>4. batches' = [batches EXCEPT ![b].status = status] /\ applied' = applied
  BY <1>1, <1>3 DEF Finish
<1>5. /\ batches'[b].status = status /\ BatchesKept
      /\ \A c \in Batch : c # b => batches'[c] = batches[c]
  BY <1>2, <1>4, StatusKeeps
<1>6. Whole(b)' <=> Whole(b)
  BY <1>2, <1>5 DEF BatchesKept, Whole
<1>7. ASSUME NEW c \in Batch, batches'[c] # Null, batches'[c].status \in {"success", "warnings"}
      PROVE  applied'[c] > 0 /\ (batches'[c].status = "success" <=> Whole(c)')
  <2>1. CASE c = b
    BY <1>2, <1>3, <1>4, <1>5, <1>6, <2>1
  <2>2. CASE c # b
    <3>1. batches'[c] = batches[c]
      BY <1>5, <2>2
    <3>2. applied[c] > 0 /\ (batches[c].status = "success" <=> Whole(c))
      BY <1>7, <3>1 DEF Told
    <3>3. Whole(c)' <=> Whole(c)
      BY <3>1 DEF Whole
    <3> QED
      BY <1>4, <3>1, <3>2, <3>3
  <2> QED
    BY <2>1, <2>2
<1> QED
  BY <1>7 DEF Told

LEMMA ImportTold ==
  ASSUME Base, Base', Told, NextImport
  PROVE  Told'
<1>1. applied \in [Batch -> Int] /\ applied' \in [Batch -> Int]
  BY AppliedInt DEF Base, ImportTypeOK
<1>2. CASE UNCHANGED <<batches, applied>>
  BY <1>1, <1>2, ToldStays
<1>3. ASSUME NEW w \in Worker, NEW b \in Batch, StorePreview(w, b) PROVE Told'
  <2>1. PICK row : row = [file |-> req[w].file, preview |-> OkRows(req[w].file, req[w].keys),
                          status |-> "pending"]
    OBVIOUS
  <2>2. batches' = [batches EXCEPT ![b] = row] /\ applied' = applied /\ row.status = "pending"
    BY <1>3, <2>1 DEF StorePreview
  <2>3. batches \in [Batch -> BatchRow \cup {Null}]
    BY DEF Base, ImportTypeOK
  <2>4. \A c \in Batch : batches'[c] = batches[c] \/ batches'[c].status = "pending"
    BY <2>2, <2>3
  <2> QED
    BY <1>1, <2>2, <2>4, ToldStays
<1>4. ASSUME NEW w \in Worker, MarkFailed(w) PROVE Told'
  <2>1. PICK b : b = req[w].batch
    OBVIOUS
  <2>2. b \in Batch /\ batches[b] # Null
    BY <1>4, <2>1 DEF MarkFailed, Base, Requests, InFlightOK
  <2>3. batches' = [batches EXCEPT ![b].status = "failed"] /\ applied' = applied
    BY <1>4, <2>1 DEF MarkFailed
  <2>4. \A c \in Batch : batches'[c] = batches[c] \/ batches'[c].status = "failed"
    BY <2>2, <2>3, StatusKeeps
  <2> QED
    BY <1>1, <2>3, <2>4, ToldStays
<1>5. ASSUME NEW w \in Worker, Apply(w) PROVE Told'
  <2>1. PICK b : b = req[w].batch
    OBVIOUS
  <2>2. b \in Batch /\ applied' = [applied EXCEPT ![b] = @ + 1] /\ batches' = batches
    BY <1>5, <2>1 DEF Apply, Base, Requests, InFlightOK
  <2>3. \A c \in Batch : applied'[c] >= applied[c]
    BY <1>1, <2>2
  <2> QED
    BY <1>1, <2>2, <2>3, ToldStays
<1>6. ASSUME NEW w \in Worker,
             (\E file \in File : Validate(w, file)) \/ (\E b \in Batch : CommitRead(w, b))
               \/ Compare(w) \/ RefuseImport(w)
      PROVE  UNCHANGED <<batches, applied>>
  BY <1>6 DEF Validate, CommitRead, Compare, RefuseImport
<1> QED
  BY <1>2, <1>3, <1>4, <1>5, <1>6, FinishTold DEF NextImport

LEMMA OrderlyStays ==
  ASSUME Orderly, UNCHANGED <<batches, applied, contested>>, NoCommits
  PROVE  Orderly'
<1> SUFFICES ASSUME NEW b \in Batch, b \notin contested'
             PROVE  OneByOne(b)'
  BY DEF Orderly
<1>1. OneByOne(b)
  BY DEF Orderly
<1>2. \A v \in Worker :
        /\ CommitOf(v, b)' => CommitOf(v, b) /\ req'[v] = req[v]
        /\ req[v].op = "applied" => req'[v] = req[v]
  BY DEF NoCommits, CommitOf
<1> QED
  BY <1>1, <1>2 DEF OneByOne

\* A request that is not of the batch leaves it, and its commits, alone.
LEMMA Elsewhere ==
  ASSUME Requests, NEW b \in Batch, OneByOne(b), NEW w \in Worker, NEW r,
         req' = [req EXCEPT ![w] = r], ~CommitOf(w, b),
         r.op \in {"commit", "mismatch", "apply", "applied"} => r.batch # b,
         batches'[b] = batches[b], applied'[b] = applied[b]
  PROVE  OneByOne(b)'
<1>1. req'[w] = r /\ \A v \in Worker : v # w => req'[v] = req[v]
  BY PutMoves
<1>2. \A v \in Worker :
        /\ CommitOf(v, b)' => CommitOf(v, b) /\ req'[v] = req[v]
        /\ req[v].op = "applied" /\ req[v].batch = b => req'[v] = req[v]
  BY <1>1 DEF CommitOf
<1> QED
  BY <1>2 DEF OneByOne

\* The one commit of a batch, as it begins, goes on or ends.
LEMMA OfTheOne ==
  ASSUME Requests, NEW b \in Batch, NEW w \in Worker, NEW r, req' = [req EXCEPT ![w] = r],
         \A v \in Worker : v # w => ~CommitOf(v, b),
         r.op \in {"commit", "mismatch", "apply", "applied"} =>
           /\ batches'[b].status = "pending"
           /\ applied'[b] = IF r.op = "applied" THEN 1 ELSE 0,
         applied'[b] \in {0, 1},
         batches'[b] # Null /\ batches'[b].status \in {"pending", "failed"} =>
           applied'[b] = 0 \/ (r.op = "applied" /\ r.batch = b)
  PROVE  OneByOne(b)'
<1>1. req'[w] = r /\ \A v \in Worker : v # w => req'[v] = req[v]
  BY PutMoves
<1>2. \A v \in Worker : CommitOf(v, b)' => v = w
  BY <1>1 DEF CommitOf
<1>3. CommitOf(w, b)' => r.op \in {"commit", "mismatch", "apply", "applied"}
  BY <1>1 DEF CommitOf
<1>4. applied'[b] <= 1
  OBVIOUS
<1> QED
  BY <1>1, <1>2, <1>3, <1>4 DEF OneByOne

LEMMA CommitReadOrderly ==
  ASSUME Base, Orderly, NEW w \in Worker, NEW c \in Batch, CommitRead(w, c)
  PROVE  Orderly'
<1> SUFFICES ASSUME NEW b \in Batch, b \notin contested'
             PROVE  OneByOne(b)'
  BY DEF Orderly
<1>1. PICK keys : Begin(w, [op |-> "commit", batch |-> c, keys |-> keys])
  BY DEF CommitRead
<1>2. PICK q : q = [op |-> "commit", batch |-> c, keys |-> keys]
  OBVIOUS
<1>3. req' = [req EXCEPT ![w] = q] /\ q.op = "commit" /\ q.batch = c
  BY <1>1, <1>2 DEF Begin, Put
<1>4. ~CommitOf(w, b) /\ OneByOne(b) /\ Requests /\ UNCHANGED <<batches, applied>>
  BY DEF CommitRead, CommitOf, Free, Orderly, Base
<1>5. CASE b # c
  BY <1>3, <1>4, <1>5, Elsewhere
<1>6. CASE b = c
  <2>1. \A v \in Worker : ~CommitOf(v, b)
    BY <1>6 DEF CommitRead
  <2>2. batches[b] # Null /\ batches[b].status = "pending" /\ applied[b] = 0
    BY <1>4, <1>6, <2>1 DEF CommitRead, OneByOne, CommitOf
  <2> QED
    BY <1>3, <1>4, <2>1, <2>2, OfTheOne
<1> QED
  BY <1>5, <1>6

LEMMA CompareOrderly ==
  ASSUME Base, Orderly, NEW w \in Worker, Compare(w)
  PROVE  Orderly'
<1> SUFFICES ASSUME NEW b \in Batch, b \notin contested'
             PROVE  OneByOne(b)'
  BY DEF Orderly
<1>1. PICK c : c = req[w].batch
  OBVIOUS
<1>2. PICK fresh : fresh = OkRows(batches[c].file, req[w].keys)
  OBVIOUS
<1>3. PICK q : q = IF fresh # batches[c].preview THEN [op |-> "mismatch", batch |-> c]
                   ELSE IF fresh = {} THEN Free
                   ELSE [op |-> "apply", batch |-> c, rows |-> fresh]
  OBVIOUS
<1>4. req' = [req EXCEPT ![w] = q] /\ req[w].op = "commit" /\ UNCHANGED <<batches, applied, contested>>
  BY <1>1, <1>2, <1>3 DEF Compare, Step, Put
<1>5. q.op = "none" \/ (q.op \in {"mismatch", "apply"} /\ q.batch = c)
  BY <1>3 DEF Free
<1>6. OneByOne(b) /\ Requests
  BY <1>4 DEF Orderly, Base
<1>7. CASE b # c
  BY <1>1, <1>4, <1>5, <1>6, <1>7, Elsewhere DEF CommitOf
<1>8. CASE b = c
  <2>1. CommitOf(w, b)
    BY <1>1, <1>4, <1>8 DEF CommitOf
  <2>2. /\ \A v \in Worker : v # w => ~CommitOf(v, b)
        /\ batches[b].status = "pending" /\ applied[b] = 0
    BY <1>4, <1>6, <2>1 DEF OneByOne
  <2> QED
    BY <1>4, <1>5, <1>6, <2>2, OfTheOne
<1> QED
  BY <1>7, <1>8

\* A commit that has carried nothing out ends; one that has makes the batch contested.
LEMMA RefuseImportOrderly ==
  ASSUME Base, Orderly, NEW w \in Worker, RefuseImport(w)
  PROVE  Orderly'
<1> SUFFICES ASSUME NEW b \in Batch, b \notin contested'
             PROVE  OneByOne(b)'
  BY DEF Orderly
<1>1. PICK r : r = Free
  OBVIOUS
<1>2. /\ r.op = "none" /\ req' = [req EXCEPT ![w] = r] /\ UNCHANGED <<batches, applied>>
      /\ OneByOne(b) /\ Requests
  BY <1>1 DEF Free, RefuseImport, Step, Put, Orderly, Base
<1>3. CASE ~CommitOf(w, b)
  BY <1>2, <1>3, Elsewhere
<1>4. CASE CommitOf(w, b)
  <2>1. req[w].op # "applied"
    BY <1>4 DEF RefuseImport, CommitOf
  <2>2. (\A v \in Worker : v # w => ~CommitOf(v, b)) /\ applied[b] = 0
    BY <1>2, <1>4, <2>1 DEF OneByOne
  <2> QED
    BY <1>2, <2>2, OfTheOne
<1> QED
  BY <1>3, <1>4

\* A batch that is new: nobody is at it.
LEMMA StorePreviewOrderly ==
  ASSUME Base, Orderly, NEW w \in Worker, NEW c \in Batch, StorePreview(w, c)
  PROVE  Orderly'
<1> SUFFICES ASSUME NEW b \in Batch, b \notin contested'
             PROVE  OneByOne(b)'
  BY DEF Orderly
<1>1. PICK r : r = Free
  OBVIOUS
<1>2. /\ r.op = "none" /\ req' = [req EXCEPT ![w] = r] /\ UNCHANGED <<applied, contested>>
      /\ OneByOne(b) /\ Requests /\ ~CommitOf(w, b)
  BY <1>1 DEF Free, StorePreview, Step, Put, Orderly, Base, CommitOf
<1>3. CASE b # c
  <2>1. batches'[b] = batches[b]
    BY <1>3 DEF StorePreview, Base, ImportTypeOK
  <2> QED
    BY <1>2, <2>1, Elsewhere
<1>4. CASE b = c
  <2>1. batches[b] = Null /\ applied[b] = 0
    BY <1>4 DEF StorePreview, Base, BatchesOK
  <2>2. \A v \in Worker : ~CommitOf(v, b)
    BY <2>1 DEF CommitOf, Base, Requests, InFlightOK
  <2> QED
    BY <1>2, <2>1, <2>2, OfTheOne
<1> QED
  BY <1>3, <1>4

\* A batch that is told: nobody else is at it.
LEMMA MarkFailedOrderly ==
  ASSUME Base, Orderly, NEW w \in Worker, MarkFailed(w) \/ Finish(w)
  PROVE  Orderly'
<1> SUFFICES ASSUME NEW b \in Batch, b \notin contested'
             PROVE  OneByOne(b)'
  BY DEF Orderly
<1>1. PICK r : r = Free
  OBVIOUS
<1>2. /\ r.op = "none" /\ req' = [req EXCEPT ![w] = r] /\ UNCHANGED <<applied, contested>>
      /\ OneByOne(b) /\ Requests /\ req[w].op \in {"mismatch", "applied"}
  BY <1>1 DEF Free, MarkFailed, Finish, Step, Put, Orderly, Base
<1>3. PICK c : c = req[w].batch
  OBVIOUS
<1>4. c \in Batch /\ batches[c] # Null
  BY <1>2, <1>3 DEF Requests, InFlightOK
<1>5. PICK status \in {"success", "warnings", "failed"} :
        /\ batches' = [batches EXCEPT ![c].status = status]
        /\ status = "failed" => req[w].op = "mismatch"
  BY <1>3 DEF MarkFailed, Finish
<1>6. /\ batches'[c].status = status
      /\ \A d \in Batch : d # c => batches'[d] = batches[d]
  BY <1>2, <1>4, <1>5, StatusKeeps
<1>7. CASE b # c
  BY <1>2, <1>3, <1>6, <1>7, Elsewhere DEF CommitOf
<1>8. CASE b = c
  <2>1. CommitOf(w, b)
    BY <1>2, <1>3, <1>8 DEF CommitOf
  <2>2. /\ \A v \in Worker : v # w => ~CommitOf(v, b)
        /\ applied[b] \in {0, 1} /\ (req[w].op = "mismatch" => applied[b] = 0)
    BY <1>2, <2>1 DEF OneByOne
  <2>3. batches'[b].status \in {"pending", "failed"} => applied'[b] = 0
    BY <1>2, <1>5, <1>6, <1>8, <2>2
  <2> QED
    BY <1>2, <2>2, <2>3, OfTheOne
<1> QED
  BY <1>7, <1>8

LEMMA ApplyOrderly ==
  ASSUME Base, Orderly, NEW w \in Worker, Apply(w)
  PROVE  Orderly'
<1> SUFFICES ASSUME NEW b \in Batch, b \notin contested'
             PROVE  OneByOne(b)'
  BY DEF Orderly
<1>1. PICK c : c = req[w].batch
  OBVIOUS
<1>2. PICK q : q = [op |-> "applied", batch |-> c]
  OBVIOUS
<1>3. /\ req' = [req EXCEPT ![w] = q] /\ req[w].op = "apply" /\ UNCHANGED <<batches, contested>>
      /\ applied' = [applied EXCEPT ![c] = @ + 1]
  BY <1>1, <1>2 DEF Apply, Put
<1>4. q.op = "applied" /\ q.batch = c
  BY <1>2
<1>5. OneByOne(b) /\ Requests /\ applied \in [Batch -> 0..MaxApplied]
  BY <1>3 DEF Orderly, Base, ImportTypeOK
<1>6. CASE b # c
  <2>1. applied'[b] = applied[b]
    BY <1>3, <1>5, <1>6
  <2> QED
    BY <1>1, <1>3, <1>4, <1>5, <1>6, <2>1, Elsewhere DEF CommitOf
<1>7. CASE b = c
  <2>1. CommitOf(w, b)
    BY <1>1, <1>3, <1>7 DEF CommitOf
  <2>2. /\ \A v \in Worker : v # w => ~CommitOf(v, b)
        /\ batches[b].status = "pending" /\ applied[b] = 0
    BY <1>3, <1>5, <2>1 DEF OneByOne
  <2>3. applied'[b] = 1
    BY <1>3, <1>5, <1>7, <2>2
  <2> QED
    BY <1>3, <1>4, <1>5, <1>7, <2>2, <2>3, OfTheOne
<1> QED
  BY <1>6, <1>7

LEMMA ImportOrderly ==
  ASSUME Base, Orderly, NextImport
  PROVE  Orderly'
<1>1. CASE NextRoles /\ UNCHANGED <<batches, applied, contested>>
  BY <1>1, RolesMove, OrderlyStays DEF Base
<1>2. ASSUME NEW w \in Worker, NEW file \in File, Validate(w, file) PROVE Orderly'
  <2>1. PICK keys : Begin(w, [op |-> "validate", file |-> file, keys |-> keys])
    BY <1>2 DEF Validate
  <2>2. PICK q : q = [op |-> "validate", file |-> file, keys |-> keys]
    OBVIOUS
  <2>3. Put(w, q) /\ q.op = "validate" /\ req[w] = Free /\ Free.op = "none"
    BY <1>2, <2>1, <2>2 DEF Begin, Validate, Free
  <2>4. req'[w] = q /\ \A v \in Worker : v # w => req'[v] = req[v]
    BY <2>3, PutMoves DEF Put, Base
  <2>5. NoCommits /\ UNCHANGED <<batches, applied, contested>>
    BY <1>2, <2>3, <2>4 DEF NoCommits, Validate
  <2> QED
    BY <2>5, OrderlyStays
<1> QED
  BY <1>1, <1>2, CommitReadOrderly, CompareOrderly, RefuseImportOrderly, StorePreviewOrderly,
     MarkFailedOrderly, ApplyOrderly DEF NextImport

LEMMA NextOrderly ==
  ASSUME Shape, Told, Orderly, [Next]_vars
  PROVE  Told' /\ Orderly'
<1>1. Base /\ Base' /\ Requests
  BY ShapeIs, NextShape DEF Base
<1>2. CASE Panel
  BY <1>1, <1>2, ImportTold, ImportOrderly DEF Panel
<1>3. CASE UNCHANGED <<batches, applied, contested>> /\ NoCommits
  BY <1>1, <1>3, NothingMoves, ToldStays, OrderlyStays
<1>4. CASE HandOut \/ UNCHANGED vars
  <2>1. UNCHANGED <<batches, applied, contested, req>>
    BY <1>4 DEF HandOut, vars, importVars, rolesVars
  <2> QED
    BY <1>3, <2>1 DEF NoCommits
<1>5. ASSUME NEW w \in Worker, NEW r, req' = [req EXCEPT ![w] = r],
             req[w].op \in {"none", "planned", "written"}, r.op \in {"none", "planned", "written"}
      PROVE  NoCommits
  <2>1. req'[w] = r /\ \A v \in Worker : v # w => req'[v] = req[v]
    BY <1>1, <1>5, PutMoves
  <2> QED
    BY <1>5, <2>1 DEF NoCommits
<1>6. Free.op = "none"
  BY DEF Free
<1>7. ASSUME NEW w \in Worker, NEW file \in CliFile, CliPlan(w, file) PROVE Told' /\ Orderly'
  <2>1. PICK create, add, seat :
          Put(w, [op |-> "planned", file |-> file, create |-> create, add |-> add, seat |-> seat])
    BY <1>7 DEF CliPlan, Begin
  <2>2. PICK q : q = [op |-> "planned", file |-> file, create |-> create, add |-> add, seat |-> seat]
    OBVIOUS
  <2>3. Put(w, q) /\ q.op = "planned" /\ req[w].op = "none"
    BY <1>6, <1>7, <2>1, <2>2 DEF CliPlan
  <2>4. UNCHANGED <<batches, applied, contested>>
    BY <1>7 DEF CliPlan
  <2> QED
    BY <1>3, <1>5, <2>3, <2>4 DEF Put
<1>8. ASSUME NEW w \in Worker, CliWrite(w) PROVE Told' /\ Orderly'
  <2>1. PICK r : r = req[w]
    OBVIOUS
  <2>2. /\ r.op = "planned"
        /\ r = [op |-> r.op, file |-> r.file, create |-> r.create, add |-> r.add, seat |-> r.seat]
    BY <1>1, <1>8, <2>1 DEF CliWrite, Requests, InFlightOK
  <2>3. PICK q : q = [r EXCEPT !.op = "written"]
    OBVIOUS
  <2>4. q.op = "written" /\ Put(w, q) /\ UNCHANGED <<batches, applied, contested>>
    BY <1>8, <2>1, <2>2, <2>3 DEF CliWrite, Step
  <2> QED
    BY <1>3, <1>5, <2>1, <2>2, <2>4 DEF Put
<1>9. ASSUME NEW w \in Worker, CliCommit(w) \/ CliCommitFails(w) \/ CliAnswerLost(w) \/ CliEnds(w)
      PROVE  Told' /\ Orderly'
  <2>1. PICK r : r = Free
    OBVIOUS
  <2>2. /\ req' = [req EXCEPT ![w] = r] /\ r.op = "none"
        /\ req[w].op \in {"planned", "written"} /\ UNCHANGED <<batches, applied, contested>>
    BY <1>6, <1>9, <2>1 DEF CliCommit, CliCommitFails, CliAnswerLost, CliEnds, Step, Put, Imported
  <2> QED
    BY <1>3, <1>5, <2>2
<1> QED
  BY <1>2, <1>4, <1>7, <1>8, <1>9 DEF Next
-----------------------------------------------------------------------------
(* What a step does.                                                        *)

\* What a commit of the panel makes of the preview.
AsPreviewed(b) ==
  LET shown == batches[b].preview IN
  /\ shown # {}
  /\ people' \ people = Emails(shown) /\ people \subseteq people'
  /\ \A row \in shown :
       LET held == {r \in DOMAIN roles' : <<row.email, r>> \in grants'}
       IN  \E r \in held : held = {r} /\ roles'[r].key = row.key

LEMMA ApplyAsPreviewed ==
  ASSUME Base, NEW w \in Worker, Apply(w), NEW b \in Batch, applied'[b] > applied[b]
  PROVE  AsPreviewed(b)
<1>1. RolesTypeOK /\ applied \in [Batch -> 0..MaxApplied]
  BY DEF Base, ImportTypeOK
<1>2. b = req[w].batch
  <2>1. PICK c : c = req[w].batch
    OBVIOUS
  <2>2. applied' = [applied EXCEPT ![c] = @ + 1]
    BY <2>1 DEF Apply
  <2>3. applied[b] \in Int
    BY <1>1 DEF MaxApplied
  <2> QED
    BY <1>1, <2>1, <2>2, <2>3
<1>3. PICK shown : shown = batches[b].preview
  OBVIOUS
<1>4. req[w].rows = shown /\ shown # {}
  BY <1>2, <1>3 DEF Apply, Base, Requests, InFlightOK
<1>5. PICK named : named = [row \in shown |-> {r \in Existing : roles[r].key = row.key}]
  OBVIOUS
<1>6. PICK emails : emails = Emails(shown)
  OBVIOUS
<1>7. /\ people' = people \cup emails /\ roles' = roles
      /\ grants' = grants \cup UNION {{<<row.email, r>> : r \in named[row]} : row \in shown}
      /\ \A row \in shown : row.email \notin people /\ named[row] # {}
  BY <1>4, <1>5, <1>6 DEF Apply
<1>8. people' \ people = emails /\ people \subseteq people'
  BY <1>6, <1>7 DEF Emails
<1>9. \A r, s \in shown : r.email = s.email => r = s
  BY <1>2, <1>3, <1>4 DEF BatchesOK, Base, Apply, Requests, InFlightOK
<1>10. ASSUME NEW row \in shown
       PROVE  LET held == {r \in DOMAIN roles' : <<row.email, r>> \in grants'}
              IN  \E r \in held : held = {r} /\ roles'[r].key = row.key
  <2>1. PICK mine : mine = named[row]
    OBVIOUS
  <2>2. /\ mine # {} /\ mine = {r \in Existing : roles[r].key = row.key}
    BY <1>5, <1>7, <2>1
  <2>3. PICK r \in mine : mine = {r} /\ roles[r].key = row.key /\ r \in Existing
    <3>1. \A r, s \in mine : r = s
      BY <1>1, <2>2 DEF RolesTypeOK
    <3> QED
      BY <2>2, <3>1
  <2>4. \A s : <<row.email, s>> \in grants' <=> s \in mine
    <3>1. \A s : <<row.email, s>> \notin grants
      BY <1>1, <1>7 DEF RolesTypeOK
    <3>2. ASSUME NEW s, <<row.email, s>> \in grants' PROVE s \in mine
      <4>1. PICK other \in shown : \E t \in named[other] : <<row.email, s>> = <<other.email, t>>
        BY <1>7, <3>1, <3>2
      <4>2. PICK t \in named[other] : <<row.email, s>> = <<other.email, t>>
        BY <4>1
      <4>3. row.email = other.email /\ s = t
        BY <4>2
      <4>4. row = other
        BY <1>9, <4>3
      <4> QED
        BY <2>1, <4>3, <4>4
    <3>3. ASSUME NEW s \in mine PROVE <<row.email, s>> \in grants'
      <4>1. <<row.email, s>> \in {<<row.email, r1>> : r1 \in named[row]}
        BY <2>1
      <4> QED
        BY <1>7, <4>1
    <3> QED
      BY <3>2, <3>3
  <2>5. {s \in DOMAIN roles' : <<row.email, s>> \in grants'} = {r}
    BY <1>7, <2>3, <2>4 DEF Existing
  <2> QED
    BY <1>7, <2>3, <2>5
<1> QED
  BY <1>3, <1>4, <1>6, <1>8, <1>10 DEF AsPreviewed

LEMMA OnlyApplyCarriesOut ==
  ASSUME Next, NEW b \in Batch, applied[b] \in Int, applied'[b] > applied[b]
  PROVE  \E w \in Worker : Apply(w)
<1>1. applied' # applied
  OBVIOUS
<1> QED
  BY <1>1 DEF Next, Panel, NextImport, Validate, StorePreview, CommitRead, Compare, MarkFailed,
     Finish, RefuseImport, CliPlan, CliWrite, CliCommit, CliAnswerLost, CliCommitFails, CliEnds,
     Imported, HandOut, importVars

\* What holders of a role are told of a change to it.
Reached(r) ==
  /\ r \notin Existing' => overlap' \/ HoldersOf(r) = {}
  /\ r \in Existing' /\ roles'[r].allows # roles[r].allows =>
       \A p \in HoldersOf(r) :
         \/ version'[p] > version[p]
         \/ overlap' /\ \E w \in Worker : req[w] # req'[w] /\ Overtook(p, r, w)

LEMMA RolesReach ==
  ASSUME Shape, Serial, NextRoles, NEW r \in Existing
  PROVE  Reached(r)
<1>1. RolesTypeOK /\ Requests
  BY ShapeIs DEF Base, ImportTypeOK
<1>2. CASE roles' = roles
  BY <1>2 DEF Reached, Existing
<1>3. ASSUME NEW s \in Role, NEW name \in Name, NEW source, CreateRole(s, name, source)
      PROVE  Reached(r)
  <2>1. r # s
    BY <1>1, <1>3 DEF CreateRole, RolesTypeOK
  <2>2. r \in Existing' /\ roles'[r] = roles[r]
    BY <1>3, <2>1 DEF CreateRole, Existing
  <2> QED
    BY <2>2 DEF Reached
<1>4. ASSUME NEW w \in Worker, PatchCommit(w) PROVE Reached(r)
  <2>1. PICK q : q = req[w]
    OBVIOUS
  <2>2. PICK row : row = Written(roles[q.role], q.read, q.wanted)
    OBVIOUS
  <2>3. roles' = [roles EXCEPT ![q.role] = row] /\ q.op = "patch" /\ (overlap => overlap')
    BY <1>4, <2>1, <2>2 DEF PatchCommit, Put
  <2>4. Existing' = Existing /\ (r # q.role => roles'[r] = roles[r])
    BY <1>1, <2>3 DEF Existing, RolesTypeOK
  <2>5. CASE r # q.role
    BY <2>4, <2>5 DEF Reached
  <2>6. CASE r = q.role
    <3> SUFFICES ASSUME NEW p \in HoldersOf(r)
                 PROVE  \/ version'[p] > version[p]
                        \/ overlap' /\ \E v \in Worker : req[v] # req'[v] /\ Overtook(p, r, v)
      BY <2>4 DEF Reached
    <3>1. p \in Person /\ version[p] \in Int
      BY <1>1, RolesAssumption DEF HoldersOf, RolesTypeOK, Version
    <3>2. CASE p \in DOMAIN q.holders /\ q.holders[p] = version[p]
      <4>1. version'[p] = version[p] + 1
        BY <1>4, <2>1, <3>1, <3>2 DEF PatchCommit
      <4> QED
        BY <3>1, <4>1
    <3>3. CASE ~(p \in DOMAIN q.holders /\ q.holders[p] = version[p])
      <4>1. Overtook(p, r, w)
        BY <2>1, <2>3, <2>6, <3>3 DEF Overtook
      <4>2. req'[w].op = "none"
        BY <1>1, <1>4, FreeMoves DEF PatchCommit, Put
      <4>3. req[w] # req'[w]
        BY <2>1, <2>3, <4>2
      <4>4. overlap'
        <5> SUFFICES ASSUME ~overlap' PROVE FALSE
          OBVIOUS
        <5>1. q.holders = [h \in HoldersOf(r) |-> version[h]]
          BY <2>1, <2>3, <2>6 DEF Serial, Current
        <5> QED
          BY <3>3, <5>1
      <4> QED
        BY <4>1, <4>3, <4>4
    <3> QED
      BY <3>2, <3>3
  <2> QED
    BY <2>5, <2>6
<1>5. ASSUME NEW w \in Worker, DeleteCommit(w) PROVE Reached(r)
  <2>1. PICK s : s = req[w].role
    OBVIOUS
  <2>2. /\ roles' = [t \in Existing \ {s} |-> roles[t]] /\ req[w].op = "delete"
        /\ (overlap => overlap')
    BY <1>5, <2>1 DEF DeleteCommit, Put
  <2>3. r # s => r \in Existing' /\ roles'[r] = roles[r]
    BY <2>2 DEF Existing
  <2>4. CASE r # s
    BY <2>3, <2>4 DEF Reached
  <2>5. CASE r = s
    <3>1. r \notin Existing'
      BY <2>2, <2>5 DEF Existing
    <3>2. ~overlap' => HoldersOf(r) = {}
      BY <2>1, <2>2, <2>5 DEF Serial, Current
    <3> QED
      BY <3>1, <3>2 DEF Reached
  <2> QED
    BY <2>4, <2>5
<1>6. ASSUME roles' # roles
      PROVE  \/ \E s \in Role, name \in Name, source \in Existing \cup {Null} : CreateRole(s, name, source)
             \/ \E w \in Worker : PatchCommit(w) \/ DeleteCommit(w)
  BY <1>6 DEF NextRoles, PatchRead, DeleteRead, RefuseRole, Step, Begin, tables, GrantRole,
     RevokeRole, CreateUser, DeleteUser, PutRule
<1> QED
  BY <1>2, <1>3, <1>4, <1>5, <1>6

LEMMA NextReaches ==
  ASSUME Shape, Serial, Next, NEW r \in Existing
  PROVE  Reached(r)
<1>1. CASE roles' = roles
  BY <1>1 DEF Reached, Existing
<1>2. roles' # roles => NextRoles
  BY DEF Next, Panel, NextImport, Validate, StorePreview, CommitRead, Compare, MarkFailed, Apply,
     Finish, RefuseImport, Step, Begin, tables, CliPlan, CliWrite, CliCommit, CliAnswerLost,
     CliCommitFails, CliEnds, Imported, HandOut, importVars, rolesVars
<1> QED
  BY <1>1, <1>2, RolesReach

-----------------------------------------------------------------------------
(* The theorems.                                                            *)

LEMMA InitInv == Init => Inv
<1> SUFFICES ASSUME Init PROVE Inv
  OBVIOUS
<1>1. /\ req = [w \in Worker |-> Free] /\ people = {}
      /\ batches = [b \in Batch |-> Null] /\ applied = [b \in Batch |-> 0]
      /\ temp = [p \in Person |-> 0] /\ disk = Null
  BY DEF Init, InitImport, InitRoles
<1>2. \A w \in Worker : req[w] = Free /\ req[w].op = "none"
  BY <1>1 DEF Free
<1>3. Told /\ Orderly
  BY <1>1, <1>2 DEF Told, Orderly, OneByOne, CommitOf
<1>4. Kept
  BY <1>1, <1>2 DEF Kept, FileIsOfRun, Writing, FileIsTrue, Found
<1>5. Serial
  BY <1>2 DEF Serial, Alone, Current
<1> QED
  BY <1>3, <1>4, <1>5, InitShape DEF Inv

LEMMA NextInv == Inv /\ [Next]_vars => Inv'
<1> SUFFICES ASSUME Inv, [Next]_vars PROVE Inv'
  OBVIOUS
<1>1. Shape' /\ Kept' /\ Serial'
  BY NextShape, NextKept, NextSerial DEF Inv
<1>2. Told' /\ Orderly'
  BY NextOrderly DEF Inv
<1> QED
  BY <1>1, <1>2 DEF Inv

LEMMA InvAlways == Spec => []Inv
BY InitInv, NextInv, PTL DEF Spec

\* models.py:425-450: the tables refer to rows there are, whatever overlaps: grants and
\* seats to accounts, grants and rules to roles; no two roles share a key, and no
\* built-in one goes.
THEOREM TypeCorrect == Spec => []TypeOK
<1>1. Inv => TypeOK
  BY DEF Inv, Shape
<1> QED
  BY <1>1, InvAlways, PTL

\* admin_import.py:381-437: a batch that says it was imported was, in full exactly if it
\* says `success'; and, whatever else overlaps, one that says anything else created nobody
\* and none is carried out twice, unless two commits of that very batch overlapped or one
\* was cut off between its two transactions.
THEOREM BatchesTellTruth == Spec => []BatchTellsTruth
<1>1. Inv => BatchTellsTruth
  BY DEF Inv, Told, Orderly, OneByOne, BatchTellsTruth
<1> QED
  BY <1>1, InvAlways, PTL

\* import_users.py:26-28, 346-355: whatever runs are refused, fail or are cut off, whoever
\* has a temporary password has it in the file or was handed it, except the accounts of a
\* run whose commit was done and its answer lost; and the file has no other password of
\* anybody who has a temporary one.
THEOREM PasswordsKept == Spec => []TemporaryPasswordsKept
<1>1. Inv => TemporaryPasswordsKept
  <2> SUFFICES ASSUME Inv, NEW p \in people, temp[p] # 0
               PROVE  /\ \/ temp[p] \in lost
                         \/ temp[p] = handed[p]
                         \/ disk # Null /\ disk[p] = temp[p]
                      /\ disk # Null => disk[p] \in {0, temp[p]}
    BY DEF TemporaryPasswordsKept
  <2>1. p \in Person
    BY ShapeIs DEF Inv, Base, ImportTypeOK, RolesTypeOK
  <2> QED
    BY <2>1 DEF Inv, Kept, Found, FileIsTrue
<1> QED
  BY <1>1, InvAlways, PTL

\* admin_import.py:5-21: whatever happened to roles and people since, a commit creates what
\* the preview showed: each of its addresses, with the one role of the key shown.
THEOREM CommitsAsPreviewed == Spec => AppliedAsPreviewed
<1> DEFINE Act ==
      \A b \in Batch : applied'[b] > applied[b] =>
        LET shown == batches[b].preview IN
        /\ shown # {}
        /\ people' \ people = Emails(shown) /\ people \subseteq people'
        /\ \A row \in shown :
             LET held == {r \in DOMAIN roles' : <<row.email, r>> \in grants'}
             IN  \E r \in held : held = {r} /\ roles'[r].key = row.key
<1>1. Inv /\ [Next]_vars => [Act]_importVars
  <2>1. CASE UNCHANGED vars
    BY <2>1 DEF vars
  <2>2. ASSUME Inv, Next, NEW b \in Batch, applied'[b] > applied[b] PROVE AsPreviewed(b)
    <3>1. Base /\ applied[b] \in Int
      BY <2>2, ShapeIs, AppliedInt DEF Inv, Base, ImportTypeOK
    <3> QED
      BY <2>2, <3>1, OnlyApplyCarriesOut, ApplyAsPreviewed
  <2>3. Inv /\ Next => Act
    BY <2>2 DEF AsPreviewed
  <2> HIDE DEF Act
  <2> QED
    BY <2>1, <2>3
<1> QED
  BY <1>1, InvAlways, PTL DEF Spec, AppliedAsPreviewed

\* admin_roles.py:211-218, 360-374: whatever requests overlap, the commit that changes what
\* a role allows raises the version of everybody who holds it, except those whose grants or
\* version changed after it had read them; and until requests overlap nobody holds a role
\* that goes.
THEOREM HoldersAreReached == Spec => RoleChangesReachHolders
<1> DEFINE Act ==
      \A r \in Existing :
        /\ r \notin Existing' => overlap' \/ HoldersOf(r) = {}
        /\ r \in Existing' /\ roles'[r].allows # roles[r].allows =>
             \A p \in HoldersOf(r) :
               \/ version'[p] > version[p]
               \/ overlap' /\ \E w \in Worker : req[w] # req'[w] /\ Overtook(p, r, w)
<1>1. Inv /\ [Next]_vars => [Act]_rolesVars
  <2>1. CASE UNCHANGED vars
    BY <2>1 DEF vars, importVars
  <2>2. Inv /\ Next => Act
    BY NextReaches DEF Inv, Reached
  <2> HIDE DEF Act
  <2> QED
    BY <2>1, <2>2
<1> QED
  BY <1>1, InvAlways, PTL DEF Spec, RoleChangesReachHolders
=============================================================================
