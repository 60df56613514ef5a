------------------------------ MODULE Features ------------------------------
(***************************************************************************)
(* The features of one application (features.py): its servers report them  *)
(* when they start, administrators set rules on them, switch them off, and *)
(* remove what is reported no longer.                                      *)
(*                                                                         *)
(* A report holds its application's row FOR UPDATE from its first reading  *)
(* to its commit.  Nobody else asks for that lock, but PostgreSQL makes    *)
(* every insert of a row that refers to the application (a retired key, a  *)
(* cell of the grid, a status) wait for it, since the foreign key's check  *)
(* shares the row.  An update or a delete does not wait.                   *)
(*                                                                         *)
(* What the permissions say of roles is Decisions' subject; here it is     *)
(* which of them there are.                                                *)
(***************************************************************************)
EXTENDS Integers, FiniteSets

CONSTANTS
  Feature,       \* feature keys
  Action,
  Offered,       \* the reports the servers' versions send
  Worker,
  Null,
  MaxReports, MaxChanges     \* bounds: reports, changes by administrators

\* A report: some features, each with an action at least.
Report == UNION {[S -> SUBSET Action \ {{}}] : S \in SUBSET Feature}

ASSUME FeaturesAssumption ==
  /\ Offered \subseteq Report
  /\ MaxReports \in Nat /\ MaxChanges \in Nat

VARIABLES
  features,      \* `features': by key, the mark New and "not reported since"
  permissions,   \* `permissions' of the application: feature and action
  panel,         \* `tool_rules' and `tool_settings' rows: table and feature
  retired,       \* `retired_features'
  req,           \* the requests in flight
  reported,      \* what the last report named; Null before any (history)
  unreviewed,    \* features that came or grew since anybody's rule (history)
  overlap,       \* have two requests ever been in flight at once? (history)
  reports, changes           \* how many so far (bounded)

rows == <<features, permissions, panel, retired>>
vars == <<rows, req, reported, unreviewed, overlap, reports, changes>>

Permission == Feature \X Action
Panel      == {"tool_rules", "tool_settings"} \X Feature
Rows       == UNION {[K -> [is_new : BOOLEAN, quiet : BOOLEAN]] : K \in SUBSET Feature}

Free == [op |-> "none"]

\* What a request has read, and will go by.
Request ==
  {Free}
  \cup [op : {"register"}, report : Offered, seen : Rows, known : SUBSET Permission]
  \cup [op : {"put"}, row : Panel, clear : BOOLEAN, there : BOOLEAN]
  \cup [op : {"patch"}, permission : Permission]
  \cup [op : {"remove"}, key : Feature]
  \cup [op : {"removing"}, key : Feature,
        doomed : SUBSET Permission, cells : SUBSET Panel]

-----------------------------------------------------------------------------
Named(report) == {p \in Permission : p[1] \in DOMAIN report /\ p[2] \in report[p[1]]}

Modules == {p[1] : p \in permissions}

\* The application's row is held FOR UPDATE.
Held == \E w \in Worker : req[w].op = "register"

\* Rows another transaction has deleted and not committed.
Deleting == {w \in Worker : req[w].op = "removing"}

Begin(w, r) ==
  /\ req[w] = Free
  /\ req' = [req EXCEPT ![w] = r]
  /\ overlap' = (overlap \/ \E v \in Worker \ {w} : req[v] # Free)
  /\ UNCHANGED <<rows, reported, unreviewed, reports, changes>>

Done(w) == req' = [req EXCEPT ![w] = Free] /\ UNCHANGED overlap

\* Mutant: the mark stays when the status is set.
ReviewedByRules(k, row) ==
  IF row[1] = "tool_rules" /\ k \in DOMAIN features
  THEN [features EXCEPT ![k].is_new = FALSE] ELSE features

\* reviewed(): one UPDATE of the row as it is now, if there is one.
Reviewed(k, row) ==
  IF k \in DOMAIN features THEN [features EXCEPT ![k].is_new = FALSE] ELSE features

-----------------------------------------------------------------------------
\* A module of before reports has permissions and no row yet.
Init ==
  /\ permissions \in SUBSET Permission
  /\ \E K \in SUBSET Modules : features = [k \in K |-> [is_new |-> FALSE, quiet |-> FALSE]]
  /\ panel = {}
  /\ retired = {}
  /\ req = [w \in Worker |-> Free]
  /\ reported = Null
  /\ unreviewed = {}
  /\ overlap = FALSE
  /\ reports = 0
  /\ changes = 0

\* Any request may end without a commit: refused, out of date, or dead.
Refuse(w) ==
  /\ req[w] # Free
  /\ Done(w)
  /\ UNCHANGED <<rows, reported, unreviewed, reports, changes>>

-----------------------------------------------------------------------------
(* register.                                                               *)

\* Mutant: the readings come before the lock, which only the commit waits for.
RegisterBeforeLock(w, report) ==
  /\ reports < MaxReports
  /\ DOMAIN report \cap retired = {}
  /\ Begin(w, [op |-> "register", report |-> report,
               seen |-> features, known |-> permissions])

\* Mutant: the retired keys are not looked at.
RegisterAnyKey(w, report) ==
  /\ reports < MaxReports
  /\ ~Held
  /\ Begin(w, [op |-> "register", report |-> report,
               seen |-> features, known |-> permissions])

\* The lock, and every reading.  A retired key refuses the report.
Register(w, report) ==
  /\ reports < MaxReports
  /\ ~Held
  /\ DOMAIN report \cap retired = {}
  /\ Begin(w, [op |-> "register", report |-> report,
               seen |-> features, known |-> permissions])

\* Mutant: only what has a row can go quiet.
HeardOfKnown(r) == DOMAIN r.report \cup DOMAIN r.seen

\* The features the report r speaks of: those it names, and by their absence
\* those it had read, a module without a row among them.
Heard(r) == DOMAIN r.report \cup DOMAIN r.seen \cup {p[1] : p \in r.known}

\* Features that come with the report, and those that get an action by it.
Created(r) == DOMAIN r.report \ (DOMAIN r.seen \cup {p[1] : p \in r.known})

Grown(r) == {p[1] : p \in Named(r.report) \ r.known} \ Created(r)

\* Mutant: a new row gets no mark.
WantedWithoutMark(r, k) ==
  IF k \in DOMAIN r.seen
  THEN [is_new |-> k \in Grown(r) \/ r.seen[k].is_new, quiet |-> k \notin DOMAIN r.report]
  ELSE [quiet |-> k \notin DOMAIN r.report]

\* The row the report would have, from the one it read if it read one.
Wanted(r, k) ==
  [is_new |-> k \in Created(r) \cup Grown(r) \/ (k \in DOMAIN r.seen /\ r.seen[k].is_new),
   quiet  |-> k \notin DOMAIN r.report]

\* The ORM inserts a row it had not read, and of one it had writes the columns
\* that differ from what it read.
Stored(r, k) ==
  IF k \notin DOMAIN r.seen THEN Wanted(r, k)
  ELSE [c \in {"is_new", "quiet"} |->
          IF Wanted(r, k)[c] # r.seen[k][c] THEN Wanted(r, k)[c] ELSE features[k][c]]

\* An insert finds no such row, an update finds its row.
RegisterCommit(w) ==
  LET r == req[w]
      written == {k \in Heard(r) : k \in DOMAIN r.seen => Wanted(r, k) # r.seen[k]}
  IN
  /\ r.op = "register"
  /\ written \cap DOMAIN features = written \cap DOMAIN r.seen
  /\ (Named(r.report) \ r.known) \cap permissions = {}
  /\ features' = [k \in DOMAIN features \cup written |->
                    IF k \in written THEN Stored(r, k) ELSE features[k]]
  /\ permissions' = permissions \cup (Named(r.report) \ r.known)
  /\ reported' = DOMAIN r.report
  /\ unreviewed' = unreviewed \cup Created(r) \cup Grown(r)
  /\ reports' = reports + 1
  /\ Done(w)
  /\ UNCHANGED <<panel, retired, changes>>

-----------------------------------------------------------------------------
(* Rules and statuses (admin_tools.py, admin_roles.py).                    *)

\* _tool: the feature has a permission; then the row, if there is one.
Put(w, row, clear) ==
  /\ changes < MaxChanges
  /\ row[2] \in Modules
  /\ clear => row[1] = "tool_rules"
  /\ Begin(w, [op |-> "put", row |-> row, clear |-> clear, there |-> row \in panel])

\* An update or a delete needs the row; an insert needs that there is none and
\* waits for a report.  Clearing what was not there does nothing at all.
PutCommit(w) ==
  LET r == req[w] IN
  /\ r.op = "put"
  /\ r.there <=> r.row \in panel
  /\ ~r.there => ~r.clear /\ ~Held
  /\ \A v \in Deleting : r.row \notin req[v].cells
  /\ panel' = IF r.clear THEN panel \ {r.row} ELSE panel \cup {r.row}
  /\ features' = Reviewed(r.row[2], r.row)
  /\ unreviewed' = unreviewed \ {r.row[2]}
  /\ changes' = changes + 1
  /\ Done(w)
  /\ UNCHANGED <<permissions, retired, reported, reports>>

\* patch_role, of one permission of the registry.
Patch(w, permission) ==
  /\ changes < MaxChanges
  /\ permission \in permissions
  /\ Begin(w, [op |-> "patch", permission |-> permission])

\* The rule refers to the permission, so that has to be there still.
PatchCommit(w) ==
  LET r == req[w] IN
  /\ r.op = "patch"
  /\ r.permission \in permissions
  /\ \A v \in Deleting : r.permission \notin req[v].doomed
  /\ features' = Reviewed(r.permission[1], <<"tool_rules", r.permission[1]>>)
  /\ unreviewed' = unreviewed \ {r.permission[1]}
  /\ changes' = changes + 1
  /\ Done(w)
  /\ UNCHANGED <<permissions, panel, retired, reported, reports>>

-----------------------------------------------------------------------------
(* remove.                                                                 *)

\* The feature is not reported any more.
Remove(w, key) ==
  /\ changes < MaxChanges
  /\ key \in DOMAIN features
  /\ features[key].quiet
  /\ Begin(w, [op |-> "remove", key |-> key])

\* The permissions are looked up and deleted, and the rows of the panel: what
\* comes after them, comes too late for this request.
RemoveDelete(w) ==
  LET r == req[w] IN
  /\ r.op = "remove"
  /\ \A v \in Deleting : req[v].key # r.key
  /\ req' = [req EXCEPT ![w] =
       [op |-> "removing", key |-> r.key,
        doomed |-> {p \in permissions : p[1] = r.key},
        cells  |-> {c \in panel : c[2] = r.key}]]
  /\ UNCHANGED <<rows, reported, unreviewed, overlap, reports, changes>>

\* The retired key is inserted, which waits for a report, and the feature goes.
RemoveCommit(w) ==
  LET r == req[w] IN
  /\ r.op = "removing"
  /\ ~Held
  /\ r.key \notin retired
  /\ permissions' = permissions \ r.doomed
  /\ panel' = panel \ r.cells
  /\ retired' = retired \cup {r.key}
  /\ features' = [k \in DOMAIN features \ {r.key} |-> features[k]]
  /\ unreviewed' = unreviewed \ {r.key}
  /\ changes' = changes + 1
  /\ Done(w)
  /\ UNCHANGED <<reported, reports>>

-----------------------------------------------------------------------------
Next ==
  \E w \in Worker :
    \/ Refuse(w)
    \/ \E report \in Offered : Register(w, report)
    \/ RegisterCommit(w)
    \/ \E row \in Panel, clear \in BOOLEAN : Put(w, row, clear)
    \/ PutCommit(w)
    \/ \E permission \in Permission : Patch(w, permission)
    \/ PatchCommit(w)
    \/ \E key \in Feature : Remove(w, key)
    \/ RemoveDelete(w)
    \/ RemoveCommit(w)

Spec == Init /\ [][Next]_vars

-----------------------------------------------------------------------------
\* The tables by their types (models.py:258-296).
TypeOK ==
  /\ features \in Rows
  /\ permissions \subseteq Permission
  /\ panel \subseteq Panel
  /\ retired \subseteq Feature
  /\ req \in [Worker -> Request]
  /\ reported = Null \/ reported \subseteq Feature
  /\ unreviewed \subseteq Feature
  /\ overlap \in BOOLEAN
  /\ reports \in Nat /\ changes \in Nat

\* features.py:143-155: servers of several versions report one after another,
\* and the marks are those of the last one's report, whoever else is at work: a
\* feature with permissions is marked as not reported exactly when the last
\* report left it out.
LastReportDecides ==
  reported # Null =>
    /\ Modules \ retired \subseteq DOMAIN features
    /\ \A k \in DOMAIN features : features[k].quiet <=> k \notin reported

\* OPEN-DECISIONS.md, 23: a removed feature's key is refused for ever.  No
\* report, not even one in flight, brings a feature of that key back; and while
\* no requests overlap its removal leaves nothing behind: no row, no permission,
\* no cell, no status.
RetiredForEver ==
  /\ \A k \in retired \cap DOMAIN features : features[k].quiet
  /\ ~overlap => /\ retired \cap (DOMAIN features \cup Modules) = {}
                 /\ \A c \in panel : c[2] \notin retired

\* OPEN-DECISIONS.md, 23: what a report adds is marked New until an administrator
\* first changes a rule on it.  Nothing else is ever marked; and the mark can be
\* missed only where a report and the change overlap.
NewUntilReviewed ==
  /\ \A k \in DOMAIN features : features[k].is_new => k \in unreviewed
  /\ ~overlap => \A k \in DOMAIN features \cap unreviewed : features[k].is_new
=============================================================================
