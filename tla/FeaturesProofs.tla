---------------------------- MODULE FeaturesProofs ----------------------------
(***************************************************************************)
(* What Features promises, for any features, actions, reports and requests *)
(* in flight.  A report holds its application's row, so what it read of    *)
(* the rows it writes is as it read it, but for the marks that             *)
(* administrators take away meanwhile; the rest holds until requests       *)
(* overlap.                                                                *)
(***************************************************************************)
EXTENDS Features, TLAPS

-----------------------------------------------------------------------------
(* Whatever overlaps.                                                      *)

Mark == [is_new : BOOLEAN, quiet : BOOLEAN]

\* What a report in flight has read, but the marks.
ReadingsHold(r) ==
  r.op = "register" =>
    /\ DOMAIN r.report \cap retired = {}
    /\ permissions = r.known
    /\ DOMAIN features = DOMAIN r.seen
    /\ \A k \in DOMAIN features : features[k].quiet = r.seen[k].quiet

OneReport ==
  \A v, w \in Worker : req[v].op = "register" /\ req[w].op = "register" => v = w

RetiredQuiet == \A k \in retired \cap DOMAIN features : features[k].quiet

NewUnreviewed ==
  /\ unreviewed \subseteq DOMAIN features
  /\ \A k \in DOMAIN features : features[k].is_new => k \in unreviewed

Shape ==
  /\ TypeOK
  /\ \A w \in Worker : ReadingsHold(req[w])
  /\ OneReport
  /\ LastReportDecides
  /\ RetiredQuiet
  /\ NewUnreviewed

-----------------------------------------------------------------------------
(* Until requests overlap.                                                 *)

Alone == \A v, w \in Worker : req[v] # Free /\ req[w] # Free => v = w

Current(r) ==
  /\ r.op = "register" => r.seen = features
  /\ r.op = "put" => r.row[2] \in Modules
  /\ r.op = "removing" =>
       /\ r.doomed = {p \in permissions : p[1] = r.key}
       /\ r.cells = {c \in panel : c[2] = r.key}

NothingLeft ==
  /\ retired \cap (DOMAIN features \cup Modules) = {}
  /\ \A c \in panel : c[2] \notin retired

Marked == \A k \in DOMAIN features \cap unreviewed : features[k].is_new

Serial ==
  ~overlap =>
    /\ Alone
    /\ \A w \in Worker : Current(req[w])
    /\ NothingLeft
    /\ Marked

Inv == Shape /\ Serial

-----------------------------------------------------------------------------
(* The operators.                                                           *)

LEMMA ReportType ==
  ASSUME NEW report \in Offered
  PROVE  DOMAIN report \subseteq Feature
<1>1. PICK S \in SUBSET Feature : report \in [S -> SUBSET Action \ {{}}]
  BY FeaturesAssumption DEF Report
<1> QED
  BY <1>1

LEMMA RowsType ==
  ASSUME NEW f, f = [k \in DOMAIN f |-> f[k]]
  PROVE  f \in Rows <=> DOMAIN f \subseteq Feature /\ \A k \in DOMAIN f : f[k] \in Mark
  BY DEF Rows, Mark

LEMMA RowsAre ==
  ASSUME NEW f \in Rows
  PROVE  f = [k \in DOMAIN f |-> f[k]] /\ DOMAIN f \subseteq Feature /\ \A k \in DOMAIN f : f[k] \in Mark
  BY DEF Rows, Mark

LEMMA RequestType ==
  ASSUME NEW r \in Request
  PROVE  /\ r.op \in {"none", "register", "put", "patch", "remove", "removing"}
         /\ r.op = "register" => r.report \in Offered /\ r.seen \in Rows /\ r.known \subseteq Permission
         /\ r.op = "put" => r.row \in Panel /\ r.clear \in BOOLEAN /\ r.there \in BOOLEAN
         /\ r.op = "patch" => r.permission \in Permission
         /\ r.op = "remove" => r.key \in Feature
         /\ r.op = "removing" => r.key \in Feature /\ r.doomed \subseteq Permission /\ r.cells \subseteq Panel
<1>1. CASE r = Free
  BY <1>1 DEF Free
<1>2. CASE r \in [op : {"register"}, report : Offered, seen : Rows, known : SUBSET Permission]
  BY <1>2
<1>3. CASE r \in [op : {"put"}, row : Panel, clear : BOOLEAN, there : BOOLEAN]
  <2>1. r.op = "put" /\ r.row \in Panel
    BY <1>3
  <2>2. r.clear \in BOOLEAN /\ r.there \in BOOLEAN
    BY <1>3, Zenon
  <2> QED
    BY <2>1, <2>2
<1>4. CASE r \in [op : {"patch"}, permission : Permission]
  BY <1>4
<1>5. CASE r \in [op : {"remove"}, key : Feature]
  BY <1>5
<1>6. CASE r \in [op : {"removing"}, key : Feature, doomed : SUBSET Permission, cells : SUBSET Panel]
  BY <1>6
<1> QED
  BY <1>1, <1>2, <1>3, <1>4, <1>5, <1>6 DEF Request

LEMMA NamedType ==
  ASSUME NEW report \in Offered
  PROVE  /\ Named(report) \subseteq Permission
         /\ \A p \in Named(report) : p[1] \in DOMAIN report
  BY DEF Named, Permission

LEMMA ModulesType ==
  ASSUME permissions \subseteq Permission
  PROVE  Modules \subseteq Feature
  BY DEF Modules, Permission

\* The row a report would have, and the marks it leaves as they are.
LEMMA WantedIs ==
  ASSUME NEW r, NEW k, k \in DOMAIN r.seen => r.seen[k] \in Mark
  PROVE  /\ Wanted(r, k) \in Mark
         /\ Wanted(r, k).quiet <=> k \notin DOMAIN r.report
         /\ Wanted(r, k).is_new <=> k \in Created(r) \cup Grown(r) \/ (k \in DOMAIN r.seen /\ r.seen[k].is_new)
<1>1. PICK n \in BOOLEAN : n = (k \in Created(r) \cup Grown(r) \/ (k \in DOMAIN r.seen /\ r.seen[k].is_new))
  BY Zenon
<1>2. PICK q \in BOOLEAN : q = (k \notin DOMAIN r.report)
  BY Zenon
<1>3. Wanted(r, k) = [is_new |-> n, quiet |-> q]
  BY <1>1, <1>2, Zenon DEF Wanted
<1>4. Wanted(r, k) \in Mark /\ Wanted(r, k).is_new = n /\ Wanted(r, k).quiet = q
  BY <1>3 DEF Mark
<1> QED
  BY <1>1, <1>2, <1>4, Zenon

\* The row it stores: what it wants, or the mark as it is.
LEMMA StoredIs ==
  ASSUME NEW r, NEW k, k \in DOMAIN r.seen => r.seen[k] \in Mark /\ features[k] \in Mark
  PROVE  /\ Stored(r, k) \in Mark
         /\ k \notin DOMAIN r.seen => Stored(r, k) = Wanted(r, k)
         /\ k \in DOMAIN r.seen =>
              /\ Stored(r, k).is_new = IF Wanted(r, k).is_new # r.seen[k].is_new
                                       THEN Wanted(r, k).is_new ELSE features[k].is_new
              /\ Stored(r, k).quiet = IF Wanted(r, k).quiet # r.seen[k].quiet
                                      THEN Wanted(r, k).quiet ELSE features[k].quiet
<1>1. PICK want : want = Wanted(r, k)
  OBVIOUS
<1>2. want \in Mark
  BY <1>1, WantedIs
<1>3. CASE k \notin DOMAIN r.seen
  BY <1>1, <1>2, <1>3 DEF Stored
<1>4. CASE k \in DOMAIN r.seen
  <2>1. PICK f : f = Stored(r, k)
    OBVIOUS
  <2>2. f = [c \in {"is_new", "quiet"} |->
               IF want[c] # r.seen[k][c] THEN want[c] ELSE features[k][c]]
    BY <1>1, <1>4, <2>1 DEF Stored
  <2>3. /\ f.is_new = IF want.is_new # r.seen[k].is_new THEN want.is_new ELSE features[k].is_new
        /\ f.quiet = IF want.quiet # r.seen[k].quiet THEN want.quiet ELSE features[k].quiet
        /\ f = [is_new |-> f.is_new, quiet |-> f.quiet]
    BY <2>2
  <2>4. /\ want.is_new \in BOOLEAN /\ want.quiet \in BOOLEAN
        /\ features[k].is_new \in BOOLEAN /\ features[k].quiet \in BOOLEAN
    BY <1>2, <1>4 DEF Mark
  <2>5. f.is_new \in BOOLEAN /\ f.quiet \in BOOLEAN
    BY <2>3, <2>4, Zenon
  <2>6. PICK n \in BOOLEAN, q \in BOOLEAN : n = f.is_new /\ q = f.quiet
    BY <2>5, Zenon
  <2>7. f = [is_new |-> n, quiet |-> q]
    BY <2>3, <2>6, Zenon
  <2>8. f \in Mark
    BY <2>7 DEF Mark
  <2> QED
    BY <1>1, <1>4, <2>1, <2>3, <2>8
<1> QED
  BY <1>3, <1>4

\* A rule changes a feature's mark, if it has a row, and nothing else of it.
LEMMA ReviewedIs ==
  ASSUME features \in Rows, NEW k, NEW row
  PROVE  /\ Reviewed(k, row) \in Rows /\ DOMAIN Reviewed(k, row) = DOMAIN features
         /\ \A h \in DOMAIN features :
              /\ Reviewed(k, row)[h].quiet = features[h].quiet
              /\ h # k => Reviewed(k, row)[h] = features[h]
         /\ k \in DOMAIN features => ~Reviewed(k, row)[k].is_new
<1>1. /\ features = [h \in DOMAIN features |-> features[h]] /\ DOMAIN features \subseteq Feature
      /\ \A h \in DOMAIN features : features[h] \in Mark
  BY RowsAre
<1>2. CASE k \notin DOMAIN features
  BY <1>2 DEF Reviewed
<1>3. CASE k \in DOMAIN features
  <2>1. PICK mark : mark = [features[k] EXCEPT !.is_new = FALSE]
    OBVIOUS
  <2>2. mark \in Mark /\ mark.is_new = FALSE /\ mark.quiet = features[k].quiet
    BY <1>1, <1>3, <2>1 DEF Mark
  <2>3. PICK f : f = [features EXCEPT ![k] = mark]
    OBVIOUS
  <2>4. Reviewed(k, row) = f
    BY <1>3, <2>1, <2>3 DEF Reviewed
  <2>5. /\ DOMAIN f = DOMAIN features /\ f = [h \in DOMAIN f |-> f[h]] /\ f[k] = mark
        /\ \A h \in DOMAIN features : h # k => f[h] = features[h]
    BY <1>1, <1>3, <2>3
  <2>6. f \in Rows
    BY <1>1, <2>2, <2>5, RowsType
  <2> QED
    BY <2>2, <2>4, <2>5, <2>6
<1> QED
  BY <1>2, <1>3
-----------------------------------------------------------------------------
(* A request begins, and a request ends.                                    *)

LEMMA Moves ==
  ASSUME req \in [Worker -> Request], NEW w \in Worker, NEW r \in Request,
         req' = [req EXCEPT ![w] = r]
  PROVE  /\ req' \in [Worker -> Request] /\ req'[w] = r
         /\ \A v \in Worker : v # w => req'[v] = req[v]
  OBVIOUS

LEMMA BeginShape ==
  ASSUME Shape, NEW w \in Worker, NEW r \in Request, Begin(w, r), ReadingsHold(r),
         r.op = "register" => ~Held
  PROVE  Shape'
<1>1. /\ req' \in [Worker -> Request] /\ req'[w] = r
      /\ \A v \in Worker : v # w => req'[v] = req[v]
  BY Moves DEF Shape, TypeOK, Begin
<1>2. UNCHANGED <<features, permissions, panel, retired, reported, unreviewed, reports, changes>>
  BY DEF Begin, rows
<1>3. overlap' \in BOOLEAN
  BY Zenon DEF Begin
<1>4. TypeOK'
  <2>1. TypeOK
    BY DEF Shape
  <2> QED
    BY <1>1, <1>2, <1>3, <2>1 DEF TypeOK
<1>5. \A v \in Worker : ReadingsHold(req[v])'
  BY <1>1, <1>2 DEF Shape, ReadingsHold
<1>6. OneReport'
  BY <1>1 DEF Shape, OneReport, Held
<1>7. LastReportDecides' /\ RetiredQuiet' /\ NewUnreviewed'
  BY <1>2 DEF Shape, LastReportDecides, Modules, RetiredQuiet, NewUnreviewed
<1> QED
  BY <1>4, <1>5, <1>6, <1>7 DEF Shape

LEMMA BeginSerial ==
  ASSUME Shape, Serial, NEW w \in Worker, NEW r \in Request, Begin(w, r), r # Free, Current(r)
  PROVE  Serial'
<1> SUFFICES ASSUME ~overlap'
             PROVE  Alone' /\ (\A v \in Worker : Current(req[v])') /\ NothingLeft' /\ Marked'
  BY DEF Serial
<1>1. ~overlap /\ \A v \in Worker : v # w => req[v] = Free
  BY DEF Begin
<1>2. req'[w] = r /\ \A v \in Worker : v # w => req'[v] = Free
  BY <1>1, Moves DEF Shape, TypeOK, Begin
<1>3. UNCHANGED <<features, permissions, panel, retired, unreviewed>> /\ Free.op = "none"
  BY DEF Begin, rows, Free
<1>4. Alone'
  BY <1>2 DEF Alone
<1>5. \A v \in Worker : Current(req[v])'
  BY <1>2, <1>3 DEF Current, Modules
<1>6. NothingLeft' /\ Marked'
  BY <1>1, <1>3 DEF Serial, NothingLeft, Marked, Modules
<1> QED
  BY <1>4, <1>5, <1>6

LEMMA DoneIs ==
  ASSUME Shape, NEW w \in Worker, req' = [req EXCEPT ![w] = Free]
  PROVE  /\ req' \in [Worker -> Request] /\ req'[w].op = "none" /\ req'[w] = Free
         /\ \A v \in Worker : v # w => req'[v] = req[v]
         /\ OneReport'
<1>1. PICK r \in Request : r = Free
  BY DEF Request
<1>2. /\ req' \in [Worker -> Request] /\ req'[w] = r
      /\ \A v \in Worker : v # w => req'[v] = req[v]
  BY <1>1, Moves DEF Shape, TypeOK
<1>3. r.op = "none"
  BY <1>1 DEF Free
<1> QED
  BY <1>1, <1>2, <1>3 DEF Shape, OneReport

\* The only request ends: nothing is in flight.
LEMMA DoneSerial ==
  ASSUME Shape, Serial, ~overlap, NEW w \in Worker, req[w] # Free, req' = [req EXCEPT ![w] = Free]
  PROVE  Alone' /\ \A v \in Worker : Current(req[v])'
<1>1. \A v \in Worker : req'[v] = Free
  BY DoneIs DEF Serial, Alone
<1>2. Free.op = "none"
  BY DEF Free
<1> QED
  BY <1>1, <1>2 DEF Alone, Current

LEMMA RefuseInv ==
  ASSUME Inv, NEW w \in Worker, Refuse(w)
  PROVE  Inv'
<1>1. Shape /\ Serial /\ TypeOK
  BY DEF Inv, Shape
<1>2. /\ req' = [req EXCEPT ![w] = Free] /\ req[w] # Free
      /\ UNCHANGED <<features, permissions, panel, retired, reported, unreviewed, reports, changes, overlap>>
  BY DEF Refuse, Done, rows
<1>3. /\ req' \in [Worker -> Request] /\ req'[w].op = "none"
      /\ (\A v \in Worker : v # w => req'[v] = req[v]) /\ OneReport'
  BY <1>1, <1>2, DoneIs
<1>4. TypeOK'
  BY <1>1, <1>2, <1>3 DEF TypeOK
<1>5. \A v \in Worker : ReadingsHold(req[v])'
  BY <1>1, <1>2, <1>3 DEF Shape, ReadingsHold
<1>6. LastReportDecides' /\ RetiredQuiet' /\ NewUnreviewed'
  BY <1>1, <1>2 DEF Shape, LastReportDecides, Modules, RetiredQuiet, NewUnreviewed
<1>7. Serial'
  <2> SUFFICES ASSUME ~overlap'
               PROVE  Alone' /\ (\A v \in Worker : Current(req[v])') /\ NothingLeft' /\ Marked'
    BY DEF Serial
  <2>1. NothingLeft' /\ Marked'
    BY <1>1, <1>2 DEF Serial, NothingLeft, Marked, Modules
  <2> QED
    BY <1>1, <1>2, <2>1, DoneSerial
<1> QED
  BY <1>3, <1>4, <1>5, <1>6, <1>7 DEF Inv, Shape

-----------------------------------------------------------------------------
(* Readings.                                                                *)

LEMMA RegisterInv ==
  ASSUME Inv, NEW w \in Worker, NEW report \in Offered, Register(w, report)
  PROVE  Inv'
<1>1. Shape /\ Serial /\ TypeOK
  BY DEF Inv, Shape
<1>2. PICK r : r = [op |-> "register", report |-> report, seen |-> features, known |-> permissions]
  OBVIOUS
<1>3. r \in Request
  BY <1>1, <1>2 DEF TypeOK, Request
<1>4. r.op = "register" /\ r.report = report /\ r.seen = features /\ r.known = permissions
  BY <1>2
<1>5. Begin(w, r) /\ ~Held
  BY <1>2 DEF Register
<1>6. ReadingsHold(r)
  BY <1>4 DEF Register, ReadingsHold
<1>7. Current(r) /\ r # Free
  BY <1>4 DEF Current, Free
<1> QED
  BY <1>1, <1>3, <1>5, <1>6, <1>7, BeginShape, BeginSerial DEF Inv

LEMMA PutInv ==
  ASSUME Inv, NEW w \in Worker, NEW row \in Panel, NEW clear \in BOOLEAN, Put(w, row, clear)
  PROVE  Inv'
<1>1. Shape /\ Serial
  BY DEF Inv
<1>2. PICK there \in BOOLEAN : there = (row \in panel)
  <2>1. (row \in panel) \in BOOLEAN
    BY SMT
  <2> QED
    BY <2>1
<1>3. PICK r : r = [op |-> "put", row |-> row, clear |-> clear, there |-> there]
  OBVIOUS
<1>4. r \in Request
  BY <1>3 DEF Request
<1>5. r.op = "put" /\ r.row = row
  BY <1>3
<1>6. Begin(w, r) /\ row[2] \in Modules
  BY <1>2, <1>3 DEF Put
<1>7. ReadingsHold(r) /\ Current(r) /\ r # Free
  BY <1>5, <1>6 DEF ReadingsHold, Current, Free
<1> QED
  BY <1>1, <1>4, <1>5, <1>6, <1>7, BeginShape, BeginSerial DEF Inv

LEMMA PatchInv ==
  ASSUME Inv, NEW w \in Worker, NEW permission \in Permission, Patch(w, permission)
  PROVE  Inv'
<1>1. Shape /\ Serial
  BY DEF Inv
<1>2. PICK r : r = [op |-> "patch", permission |-> permission]
  OBVIOUS
<1>3. r \in Request /\ r.op = "patch"
  BY <1>2 DEF Request
<1>4. Begin(w, r)
  BY <1>2 DEF Patch
<1>5. ReadingsHold(r) /\ Current(r) /\ r # Free
  BY <1>3 DEF ReadingsHold, Current, Free
<1> QED
  BY <1>1, <1>3, <1>4, <1>5, BeginShape, BeginSerial DEF Inv

LEMMA RemoveInv ==
  ASSUME Inv, NEW w \in Worker, NEW key \in Feature, Remove(w, key)
  PROVE  Inv'
<1>1. Shape /\ Serial
  BY DEF Inv
<1>2. PICK r : r = [op |-> "remove", key |-> key]
  OBVIOUS
<1>3. r \in Request /\ r.op = "remove"
  BY <1>2 DEF Request
<1>4. Begin(w, r)
  BY <1>2 DEF Remove
<1>5. ReadingsHold(r) /\ Current(r) /\ r # Free
  BY <1>3 DEF ReadingsHold, Current, Free
<1> QED
  BY <1>1, <1>3, <1>4, <1>5, BeginShape, BeginSerial DEF Inv

-----------------------------------------------------------------------------
(* A report commits.                                                        *)

LEMMA RegisterCommitInv ==
  ASSUME Inv, NEW w \in Worker, RegisterCommit(w)
  PROVE  Inv'
<1>1. Shape /\ Serial /\ TypeOK
  BY DEF Inv, Shape
<1>2. PICK r : r = req[w]
  OBVIOUS
<1>3. /\ r.op = "register" /\ r.report \in Offered /\ r.seen \in Rows /\ r.known \subseteq Permission
      /\ r # Free
  <2>1. r.op = "register" /\ r \in Request
    BY <1>1, <1>2 DEF RegisterCommit, TypeOK
  <2>2. r # Free
    BY <2>1 DEF Free
  <2> QED
    BY <2>1, <2>2, RequestType
<1>4. /\ DOMAIN r.report \cap retired = {} /\ permissions = r.known /\ DOMAIN features = DOMAIN r.seen
      /\ \A k \in DOMAIN features : features[k].quiet = r.seen[k].quiet
  BY <1>1, <1>2, <1>3 DEF Shape, ReadingsHold
<1>5. PICK written : written = {k \in Heard(r) : k \in DOMAIN r.seen => Wanted(r, k) # r.seen[k]}
  OBVIOUS
<1>6. PICK report : report = DOMAIN r.report
  OBVIOUS
<1>7. /\ features' = [k \in DOMAIN features \cup written |->
                        IF k \in written THEN Stored(r, k) ELSE features[k]]
      /\ permissions' = permissions \cup (Named(r.report) \ r.known)
      /\ reported' = report
      /\ unreviewed' = unreviewed \cup Created(r) \cup Grown(r)
      /\ reports' = reports + 1
      /\ req' = [req EXCEPT ![w] = Free]
      /\ UNCHANGED <<overlap, panel, retired, changes>>
  BY <1>2, <1>5, <1>6 DEF RegisterCommit, Done
<1>8. /\ report \subseteq Feature /\ Named(r.report) \subseteq Permission
      /\ \A p \in Named(r.report) : p[1] \in report
  BY <1>3, <1>6, ReportType, NamedType
<1>9. /\ Heard(r) = report \cup DOMAIN features \cup Modules
      /\ Created(r) \subseteq report /\ Grown(r) \subseteq report
      /\ Modules \subseteq Feature
  <2>1. Modules \subseteq Feature
    BY <1>1, ModulesType DEF TypeOK
  <2>2. Heard(r) = report \cup DOMAIN features \cup Modules
    BY <1>4, <1>6 DEF Heard, Modules
  <2>3. Created(r) \subseteq report /\ Grown(r) \subseteq report
    BY <1>6, <1>8 DEF Created, Grown
  <2> QED
    BY <2>1, <2>2, <2>3
<1>10. /\ features = [k \in DOMAIN features |-> features[k]] /\ DOMAIN features \subseteq Feature
       /\ \A k \in DOMAIN features : features[k] \in Mark
       /\ \A k \in DOMAIN features : r.seen[k] \in Mark
  BY <1>1, <1>3, <1>4, RowsAre DEF TypeOK
<1>11. DOMAIN features' = Heard(r)
  BY <1>4, <1>5, <1>7, <1>9
<1>12. \A k : /\ Wanted(r, k) \in Mark
              /\ Wanted(r, k).quiet <=> k \notin report
              /\ Wanted(r, k).is_new <=>
                   k \in Created(r) \cup Grown(r) \/ (k \in DOMAIN features /\ r.seen[k].is_new)
  BY <1>4, <1>6, <1>10, WantedIs
<1>13. \A k : /\ Stored(r, k) \in Mark
              /\ k \notin DOMAIN features => Stored(r, k) = Wanted(r, k)
              /\ k \in DOMAIN features =>
                   /\ Stored(r, k).is_new = IF Wanted(r, k).is_new # r.seen[k].is_new
                                            THEN Wanted(r, k).is_new ELSE features[k].is_new
                   /\ Stored(r, k).quiet = IF Wanted(r, k).quiet # r.seen[k].quiet
                                           THEN Wanted(r, k).quiet ELSE features[k].quiet
  BY <1>4, <1>10, StoredIs
\* Whatever the row was, its mark is the report's.
<1>14. ASSUME NEW k \in DOMAIN features'
       PROVE  /\ features'[k] \in Mark
              /\ features'[k].quiet <=> k \notin report
              /\ k \notin DOMAIN features => features'[k] = Wanted(r, k)
              /\ k \in DOMAIN features =>
                   features'[k].is_new = IF Wanted(r, k).is_new # r.seen[k].is_new
                                         THEN Wanted(r, k).is_new ELSE features[k].is_new
  <2>1. CASE k \notin DOMAIN features
    <3>1. k \in written
      BY <1>4, <1>5, <1>11, <2>1
    <3>2. features'[k] = Stored(r, k)
      BY <1>7, <3>1
    <3> QED
      BY <1>12, <1>13, <2>1, <3>2
  <2>2. CASE k \in DOMAIN features /\ k \in written
    <3>1. features'[k] = Stored(r, k)
      BY <1>7, <2>2
    <3>2. features'[k].quiet = IF Wanted(r, k).quiet # r.seen[k].quiet
                               THEN Wanted(r, k).quiet ELSE features[k].quiet
      BY <1>13, <2>2, <3>1
    <3>3. features'[k].quiet <=> k \notin report
      BY <1>4, <1>12, <2>2, <3>2, Zenon
    <3> QED
      BY <1>13, <2>2, <3>1, <3>3
  <2>3. CASE k \in DOMAIN features /\ k \notin written
    <3>1. features'[k] = features[k]
      BY <1>7, <2>3
    <3>2. Wanted(r, k) = r.seen[k]
      BY <1>4, <1>5, <1>11, <2>3
    <3> QED
      BY <1>4, <1>10, <1>12, <2>3, <3>1, <3>2
  <2> QED
    BY <2>1, <2>2, <2>3
<1>15. /\ req' \in [Worker -> Request] /\ req'[w].op = "none"
       /\ (\A v \in Worker : v # w => req'[v] = req[v]) /\ OneReport'
  BY <1>1, <1>7, DoneIs
<1>16. \A v \in Worker : req'[v].op # "register"
  BY <1>1, <1>2, <1>3, <1>15 DEF Shape, OneReport
<1>17. TypeOK'
  <2>1. features' = [k \in DOMAIN features' |-> features'[k]] /\ DOMAIN features' \subseteq Feature
    BY <1>7, <1>8, <1>9, <1>10, <1>11
  <2>2. features' \in Rows
    <3>1. PICK f : f = features'
      OBVIOUS
    <3> QED
      BY <1>14, <2>1, <3>1, RowsType
  <2>3. unreviewed' \subseteq Feature
    BY <1>1, <1>7, <1>8, <1>9 DEF TypeOK
  <2> QED
    BY <1>1, <1>7, <1>8, <1>15, <2>2, <2>3 DEF TypeOK
<1>18. \A v \in Worker : ReadingsHold(req[v])'
  BY <1>16 DEF ReadingsHold
<1>19. Modules' \subseteq DOMAIN features'
  BY <1>7, <1>8, <1>9, <1>11 DEF Modules
<1>20. LastReportDecides'
  BY <1>7, <1>14, <1>19 DEF LastReportDecides
<1>21. RetiredQuiet'
  BY <1>4, <1>6, <1>7, <1>14 DEF RetiredQuiet
<1>22. NewUnreviewed'
  <2>1. unreviewed' \subseteq DOMAIN features'
    BY <1>1, <1>7, <1>9, <1>11 DEF Shape, NewUnreviewed
  <2>2. ASSUME NEW k \in DOMAIN features', features'[k].is_new PROVE k \in unreviewed'
    <3>1. CASE k \notin DOMAIN features
      BY <1>7, <1>12, <1>14, <2>2, <3>1
    <3>2. CASE k \in DOMAIN features
      <4>1. CASE Wanted(r, k).is_new # r.seen[k].is_new
        <5>1. Wanted(r, k).is_new /\ ~r.seen[k].is_new
          <6>1. Wanted(r, k).is_new \in BOOLEAN /\ r.seen[k].is_new \in BOOLEAN
            BY <1>10, <1>12, <3>2 DEF Mark
          <6>2. features'[k].is_new = Wanted(r, k).is_new
            BY <1>14, <3>2, <4>1
          <6> QED
            BY <2>2, <4>1, <6>1, <6>2, Zenon
        <5> QED
          BY <1>7, <1>12, <3>2, <5>1
      <4>2. CASE Wanted(r, k).is_new = r.seen[k].is_new
        BY <1>1, <1>7, <1>14, <2>2, <3>2, <4>2 DEF Shape, NewUnreviewed
      <4> QED
        BY <4>1, <4>2
    <3> QED
      BY <3>1, <3>2
  <2> QED
    BY <2>1, <2>2 DEF NewUnreviewed
<1>23. Serial'
  <2> SUFFICES ASSUME ~overlap'
               PROVE  Alone' /\ (\A v \in Worker : Current(req[v])') /\ NothingLeft' /\ Marked'
    BY DEF Serial
  <2>1. /\ ~overlap /\ r.seen = features /\ NothingLeft /\ Marked
        /\ Alone' /\ (\A v \in Worker : Current(req[v])')
    BY <1>1, <1>2, <1>3, <1>7, DoneSerial DEF Serial, Current
  <2>2. NothingLeft'
    <3>1. Modules' \cup DOMAIN features' \subseteq report \cup DOMAIN features \cup Modules
      BY <1>9, <1>11, <1>19
    <3> QED
      BY <1>4, <1>6, <1>7, <2>1, <3>1 DEF NothingLeft
  <2>3. ASSUME NEW k \in DOMAIN features', k \in unreviewed' PROVE features'[k].is_new
    <3>1. CASE k \notin DOMAIN features
      <4>1. k \notin unreviewed
        BY <1>1, <3>1 DEF Shape, NewUnreviewed
      <4> QED
        BY <1>7, <1>12, <1>14, <2>3, <3>1, <4>1
    <3>2. CASE k \in DOMAIN features
      <4>1. Wanted(r, k).is_new
        BY <1>7, <1>12, <2>1, <2>3, <3>2 DEF Marked
      <4>2. CASE Wanted(r, k).is_new # r.seen[k].is_new
        BY <1>14, <3>2, <4>1, <4>2
      <4>3. CASE Wanted(r, k).is_new = r.seen[k].is_new
        BY <1>14, <2>1, <3>2, <4>1, <4>3
      <4> QED
        BY <4>2, <4>3
    <3> QED
      BY <3>1, <3>2
  <2> QED
    BY <2>1, <2>2, <2>3 DEF Marked
<1> QED
  BY <1>15, <1>17, <1>18, <1>20, <1>21, <1>22, <1>23 DEF Inv, Shape
-----------------------------------------------------------------------------
(* A rule, a status and a removal commit.                                   *)

\* What a change of a feature by an administrator does to its mark.
LEMMA ReviewedShape ==
  ASSUME Shape, NEW w \in Worker, NEW k, NEW row, features' = Reviewed(k, row),
         unreviewed' = unreviewed \ {k}, UNCHANGED <<permissions, retired, reported>>,
         req' = [req EXCEPT ![w] = Free]
  PROVE  /\ features' \in Rows /\ unreviewed' \subseteq Feature /\ req' \in [Worker -> Request]
         /\ DOMAIN features' = DOMAIN features
         /\ \A v \in Worker : ReadingsHold(req[v])'
         /\ OneReport' /\ LastReportDecides' /\ RetiredQuiet' /\ NewUnreviewed'
         /\ Marked => Marked'
<1>1. TypeOK
  BY DEF Shape
<1>2. /\ features' \in Rows /\ DOMAIN features' = DOMAIN features
      /\ \A h \in DOMAIN features :
           features'[h].quiet = features[h].quiet /\ (h # k => features'[h] = features[h])
      /\ k \in DOMAIN features => ~features'[k].is_new
  BY <1>1, ReviewedIs DEF TypeOK
<1>3. /\ req' \in [Worker -> Request] /\ req'[w].op = "none"
      /\ (\A v \in Worker : v # w => req'[v] = req[v]) /\ OneReport'
  BY DoneIs
<1>4. \A v \in Worker : ReadingsHold(req[v])'
  BY <1>2, <1>3 DEF Shape, ReadingsHold
<1>5. LastReportDecides'
  BY <1>2 DEF Shape, LastReportDecides, Modules
<1>6. RetiredQuiet'
  BY <1>2 DEF Shape, RetiredQuiet
<1>7. NewUnreviewed' /\ (Marked => Marked')
  BY <1>2 DEF Shape, NewUnreviewed, Marked
<1> QED
  BY <1>1, <1>2, <1>3, <1>4, <1>5, <1>6, <1>7 DEF TypeOK

LEMMA PutCommitInv ==
  ASSUME Inv, NEW w \in Worker, PutCommit(w)
  PROVE  Inv'
<1>1. Shape /\ Serial /\ TypeOK
  BY DEF Inv, Shape
<1>2. PICK r : r = req[w]
  OBVIOUS
<1>3. r.op = "put" /\ r.row \in Panel /\ r # Free
  <2>1. r.op = "put" /\ r \in Request
    BY <1>1, <1>2 DEF PutCommit, TypeOK
  <2>2. r # Free
    BY <2>1 DEF Free
  <2> QED
    BY <2>1, <2>2, RequestType
<1>4. PICK k : k = r.row[2]
  OBVIOUS
<1>5. /\ features' = Reviewed(k, r.row) /\ unreviewed' = unreviewed \ {k}
      /\ panel' \subseteq panel \cup {r.row} /\ changes' = changes + 1
      /\ req' = [req EXCEPT ![w] = Free]
      /\ UNCHANGED <<permissions, retired, reported, reports, overlap>>
  BY <1>2, <1>4 DEF PutCommit, Done
<1>6. /\ features' \in Rows /\ unreviewed' \subseteq Feature /\ req' \in [Worker -> Request]
      /\ DOMAIN features' = DOMAIN features
      /\ (\A v \in Worker : ReadingsHold(req[v])')
      /\ OneReport' /\ LastReportDecides' /\ RetiredQuiet' /\ NewUnreviewed'
      /\ Marked => Marked'
  BY <1>1, <1>5, ReviewedShape
<1>7. TypeOK'
  BY <1>1, <1>3, <1>5, <1>6 DEF TypeOK
<1>8. Serial'
  <2> SUFFICES ASSUME ~overlap'
               PROVE  Alone' /\ (\A v \in Worker : Current(req[v])') /\ NothingLeft' /\ Marked'
    BY DEF Serial
  <2>1. /\ k \in Modules /\ NothingLeft /\ Marked
        /\ Alone' /\ (\A v \in Worker : Current(req[v])')
    BY <1>1, <1>2, <1>3, <1>4, <1>5, DoneSerial DEF Serial, Current
  <2>2. NothingLeft'
    BY <1>4, <1>5, <1>6, <2>1 DEF NothingLeft, Modules
  <2> QED
    BY <1>6, <2>1, <2>2
<1> QED
  BY <1>6, <1>7, <1>8 DEF Inv, Shape

LEMMA PatchCommitInv ==
  ASSUME Inv, NEW w \in Worker, PatchCommit(w)
  PROVE  Inv'
<1>1. Shape /\ Serial /\ TypeOK
  BY DEF Inv, Shape
<1>2. PICK r : r = req[w]
  OBVIOUS
<1>3. r.op = "patch" /\ r # Free
  BY <1>2 DEF PatchCommit, Free
<1>4. PICK k : k = r.permission[1]
  OBVIOUS
<1>5. PICK row : row = <<"tool_rules", k>>
  OBVIOUS
<1>6. /\ features' = Reviewed(k, row) /\ unreviewed' = unreviewed \ {k}
      /\ changes' = changes + 1 /\ req' = [req EXCEPT ![w] = Free]
      /\ UNCHANGED <<permissions, panel, retired, reported, reports, overlap>>
  BY <1>2, <1>4, <1>5 DEF PatchCommit, Done
<1>7. /\ features' \in Rows /\ unreviewed' \subseteq Feature /\ req' \in [Worker -> Request]
      /\ DOMAIN features' = DOMAIN features
      /\ (\A v \in Worker : ReadingsHold(req[v])')
      /\ OneReport' /\ LastReportDecides' /\ RetiredQuiet' /\ NewUnreviewed'
      /\ Marked => Marked'
  BY <1>1, <1>6, ReviewedShape
<1>8. TypeOK'
  BY <1>1, <1>6, <1>7 DEF TypeOK
<1>9. Serial'
  <2> SUFFICES ASSUME ~overlap'
               PROVE  Alone' /\ (\A v \in Worker : Current(req[v])') /\ NothingLeft' /\ Marked'
    BY DEF Serial
  <2>1. /\ NothingLeft /\ Marked
        /\ Alone' /\ (\A v \in Worker : Current(req[v])')
    BY <1>1, <1>2, <1>3, <1>6, DoneSerial DEF Serial
  <2>2. NothingLeft'
    BY <1>6, <1>7, <2>1 DEF NothingLeft, Modules
  <2> QED
    BY <1>7, <2>1, <2>2
<1> QED
  BY <1>7, <1>8, <1>9 DEF Inv, Shape

\* A removal's deletions wait for its commit; it is not alone in having read.
LEMMA RemoveDeleteInv ==
  ASSUME Inv, NEW w \in Worker, RemoveDelete(w)
  PROVE  Inv'
<1>1. Shape /\ Serial /\ TypeOK
  BY DEF Inv, Shape
<1>2. PICK key : key = req[w].key
  OBVIOUS
<1>3. key \in Feature /\ req[w].op = "remove"
  BY <1>1, <1>2, RequestType DEF RemoveDelete, TypeOK
<1>4. PICK r : r = [op |-> "removing", key |-> key,
                    doomed |-> {p \in permissions : p[1] = key},
                    cells |-> {c \in panel : c[2] = key}]
  OBVIOUS
<1>5. r \in Request
  BY <1>1, <1>3, <1>4 DEF TypeOK, Request
<1>6. /\ r.op = "removing" /\ r.key = key /\ r.doomed = {p \in permissions : p[1] = key}
      /\ r.cells = {c \in panel : c[2] = key}
  BY <1>4
<1>7. /\ req' = [req EXCEPT ![w] = r]
      /\ UNCHANGED <<features, permissions, panel, retired, reported, unreviewed, overlap, reports, changes>>
  BY <1>2, <1>4 DEF RemoveDelete, rows
<1>8. /\ req' \in [Worker -> Request] /\ req'[w] = r
      /\ \A v \in Worker : v # w => req'[v] = req[v]
  BY <1>1, <1>5, <1>7, Moves DEF TypeOK
<1>9. TypeOK'
  BY <1>1, <1>7, <1>8 DEF TypeOK
<1>10. (\A v \in Worker : ReadingsHold(req[v])') /\ OneReport'
  BY <1>1, <1>6, <1>7, <1>8 DEF Shape, ReadingsHold, OneReport
<1>11. LastReportDecides' /\ RetiredQuiet' /\ NewUnreviewed'
  BY <1>1, <1>7 DEF Shape, LastReportDecides, Modules, RetiredQuiet, NewUnreviewed
<1>12. Serial'
  <2> SUFFICES ASSUME ~overlap'
               PROVE  Alone' /\ (\A v \in Worker : Current(req[v])') /\ NothingLeft' /\ Marked'
    BY DEF Serial
  <2>1. ~overlap /\ req[w] # Free
    BY <1>3, <1>7 DEF Free
  <2>2. \A v \in Worker : v # w => req'[v] = Free
    BY <1>1, <1>8, <2>1 DEF Serial, Alone
  <2>3. Free.op = "none"
    BY DEF Free
  <2>4. Alone' /\ \A v \in Worker : Current(req[v])'
    BY <1>6, <1>7, <1>8, <2>2, <2>3 DEF Alone, Current
  <2>5. NothingLeft' /\ Marked'
    BY <1>1, <1>7, <2>1 DEF Serial, NothingLeft, Marked, Modules
  <2> QED
    BY <2>4, <2>5
<1> QED
  BY <1>9, <1>10, <1>11, <1>12 DEF Inv, Shape

\* No report is under way when a feature goes.
LEMMA RemoveCommitInv ==
  ASSUME Inv, NEW w \in Worker, RemoveCommit(w)
  PROVE  Inv'
<1>1. Shape /\ Serial /\ TypeOK
  BY DEF Inv, Shape
<1>2. PICK r : r = req[w]
  OBVIOUS
<1>3. r.op = "removing" /\ r.key \in Feature /\ r # Free
  <2>1. r.op = "removing" /\ r \in Request
    BY <1>1, <1>2 DEF RemoveCommit, TypeOK
  <2>2. r # Free
    BY <2>1 DEF Free
  <2> QED
    BY <2>1, <2>2, RequestType
<1>4. /\ \A v \in Worker : req[v].op # "register"
      /\ permissions' = permissions \ r.doomed /\ panel' = panel \ r.cells
      /\ retired' = retired \cup {r.key}
      /\ features' = [k \in DOMAIN features \ {r.key} |-> features[k]]
      /\ unreviewed' = unreviewed \ {r.key} /\ changes' = changes + 1
      /\ req' = [req EXCEPT ![w] = Free]
      /\ UNCHANGED <<reported, reports, overlap>>
  BY <1>2 DEF RemoveCommit, Done, Held
<1>5. /\ req' \in [Worker -> Request] /\ req'[w].op = "none"
      /\ (\A v \in Worker : v # w => req'[v] = req[v]) /\ OneReport'
  BY <1>1, <1>4, DoneIs
<1>6. /\ DOMAIN features' = DOMAIN features \ {r.key}
      /\ \A k \in DOMAIN features' : features'[k] = features[k]
  BY <1>4
<1>7. features' \in Rows
  <2>1. /\ DOMAIN features \subseteq Feature
        /\ \A k \in DOMAIN features : features[k] \in Mark
    BY <1>1, RowsAre DEF TypeOK
  <2>2. PICK f : f = features'
    OBVIOUS
  <2>3. f = [k \in DOMAIN f |-> f[k]]
    BY <1>4, <2>2
  <2> QED
    BY <1>6, <2>1, <2>2, <2>3, RowsType
<1>8. TypeOK'
  BY <1>1, <1>3, <1>4, <1>5, <1>7 DEF TypeOK
<1>9. \A v \in Worker : ReadingsHold(req[v])'
  BY <1>4, <1>5 DEF ReadingsHold
<1>10. Modules' \subseteq Modules
  BY <1>4 DEF Modules
<1>11. LastReportDecides'
  BY <1>1, <1>4, <1>6, <1>10 DEF Shape, LastReportDecides
<1>12. RetiredQuiet' /\ NewUnreviewed'
  BY <1>1, <1>4, <1>6 DEF Shape, RetiredQuiet, NewUnreviewed
<1>13. Serial'
  <2> SUFFICES ASSUME ~overlap'
               PROVE  Alone' /\ (\A v \in Worker : Current(req[v])') /\ NothingLeft' /\ Marked'
    BY DEF Serial
  <2>1. /\ NothingLeft /\ Marked
        /\ r.doomed = {p \in permissions : p[1] = r.key}
        /\ r.cells = {c \in panel : c[2] = r.key}
        /\ Alone' /\ (\A v \in Worker : Current(req[v])')
    BY <1>1, <1>2, <1>3, <1>4, DoneSerial DEF Serial, Current
  <2>2. r.key \notin Modules'
    BY <1>4, <2>1 DEF Modules
  <2>3. NothingLeft'
    BY <1>4, <1>6, <1>10, <2>1, <2>2 DEF NothingLeft
  <2>4. Marked'
    BY <1>4, <1>6, <2>1 DEF Marked
  <2> QED
    BY <2>1, <2>3, <2>4
<1> QED
  BY <1>5, <1>8, <1>9, <1>11, <1>12, <1>13 DEF Inv, Shape

-----------------------------------------------------------------------------
(* The theorems.                                                            *)

LEMMA InitInv == Init => Inv
<1> SUFFICES ASSUME Init PROVE Inv
  OBVIOUS
<1>1. Free.op = "none" /\ Free \in Request
  BY DEF Free, Request
<1>2. permissions \subseteq Permission /\ Modules \subseteq Feature
  BY ModulesType DEF Init
<1>3. PICK K \in SUBSET Modules : features = [k \in K |-> [is_new |-> FALSE, quiet |-> FALSE]]
  BY DEF Init
<1>4. DOMAIN features \subseteq Feature /\ \A k \in DOMAIN features : ~features[k].is_new
  BY <1>2, <1>3
<1>5. features \in Rows
  <2>1. features = [k \in DOMAIN features |-> features[k]]
    BY <1>3
  <2>2. \A k \in DOMAIN features : features[k] \in Mark
    BY <1>3 DEF Mark
  <2> QED
    BY <1>4, <2>1, <2>2, RowsType
<1>6. TypeOK
  BY <1>1, <1>2, <1>5 DEF Init, TypeOK
<1>7. \A w \in Worker : req[w] = Free
  BY DEF Init
<1>8. (\A w \in Worker : ReadingsHold(req[w])) /\ OneReport
  BY <1>1, <1>7 DEF ReadingsHold, OneReport
<1>9. LastReportDecides /\ RetiredQuiet /\ NewUnreviewed
  BY <1>4 DEF Init, LastReportDecides, RetiredQuiet, NewUnreviewed
<1>10. Serial
  BY <1>1, <1>7 DEF Init, Serial, Alone, Current, NothingLeft, Marked
<1> QED
  BY <1>6, <1>8, <1>9, <1>10 DEF Inv, Shape

LEMMA NextInv == Inv /\ [Next]_vars => Inv'
<1> SUFFICES ASSUME Inv, [Next]_vars PROVE Inv'
  OBVIOUS
<1>1. CASE UNCHANGED vars
  <2>1. UNCHANGED <<features, permissions, panel, retired, req, reported, unreviewed, overlap,
                    reports, changes>>
    BY <1>1 DEF vars, rows
  <2>2. Shape'
    BY <2>1 DEF Inv, Shape, TypeOK, ReadingsHold, OneReport, LastReportDecides, Modules,
       RetiredQuiet, NewUnreviewed
  <2>3. Serial'
    BY <2>1 DEF Inv, Serial, Alone, Current, NothingLeft, Marked, Modules
  <2> QED
    BY <2>2, <2>3 DEF Inv
<1>2. CASE Next
  BY <1>2, RefuseInv, RegisterInv, RegisterCommitInv, PutInv, PutCommitInv, PatchInv,
     PatchCommitInv, RemoveInv, RemoveDeleteInv, RemoveCommitInv DEF Next
<1> QED
  BY <1>1, <1>2

LEMMA InvAlways == Spec => []Inv
BY InitInv, NextInv, PTL DEF Spec

\* models.py:258-296: the tables keep their types, whatever overlaps.
THEOREM TypeCorrect == Spec => []TypeOK
<1>1. Inv => TypeOK
  BY DEF Inv, Shape
<1> QED
  BY <1>1, InvAlways, PTL

\* features.py:143-155: the marks are those of the last report, whoever else is at work.
THEOREM LastReportAlways == Spec => []LastReportDecides
<1>1. Inv => LastReportDecides
  BY DEF Inv, Shape
<1> QED
  BY <1>1, InvAlways, PTL

\* OPEN-DECISIONS.md, 23: no report revives a retired key, whatever overlaps; and, until
\* requests do, a removal leaves nothing behind.
THEOREM RetiredAlways == Spec => []RetiredForEver
<1>1. Inv => RetiredForEver
  BY DEF Inv, Shape, Serial, RetiredQuiet, NothingLeft, RetiredForEver
<1> QED
  BY <1>1, InvAlways, PTL

\* OPEN-DECISIONS.md, 23: nothing is marked New that has been reviewed since; and, until
\* requests overlap, everything is that has not.
THEOREM NewAlways == Spec => []NewUntilReviewed
<1>1. Inv => NewUntilReviewed
  BY DEF Inv, Shape, Serial, NewUnreviewed, Marked, NewUntilReviewed
<1> QED
  BY <1>1, InvAlways, PTL
=============================================================================
