----------------------------- MODULE ImportUsers -----------------------------
(***************************************************************************)
(* Importing Project Management's people from the command line              *)
(* (import_users.py), beside the panel's own import and its changes to      *)
(* roles and people.  Temporary passwords go to a file that is written      *)
(* before the commit, removed if it fails, and deleted by the operator once *)
(* they are handed out.                                                     *)
(***************************************************************************)
EXTENDS Import

CONSTANTS
  CliFile,       \* what files hold: of some people, the role and whether a
                 \* password is carried over
  MaxRuns        \* bound: runs that generate temporary passwords

ASSUME CliAssumption ==
  /\ CliFile \subseteq UNION {[S -> [role : Builtin, carried : BOOLEAN]] : S \in SUBSET Person}
  /\ MaxRuns \in Nat
  /\ Null \notin [Person -> 0..MaxRuns]

VARIABLES
  seats,         \* who has a seat of Project Management
  temp,          \* the run that gave each account its temporary password, or 0
  disk,          \* the file: of which run each password in it is; or Null
  handed,        \* the last run of which each person was handed the password
  runs,          \* runs so far that generated any
  lost           \* those that committed and were not told (history)

cliTables == <<seats, temp>>
vars == <<importVars, seats, temp, disk, handed, runs, lost>>

Run == 0..MaxRuns

TemporaryOf(r) == {p \in r.create : ~r.file[p].carried}

-----------------------------------------------------------------------------
Init ==
  /\ InitImport
  /\ seats = {}
  /\ temp = [p \in Person |-> 0]
  /\ disk = Null
  /\ handed = [p \in Person |-> 0]
  /\ runs = 0
  /\ lost = {}

\* The panel; what an account had goes with it.
Panel ==
  /\ NextImport
  /\ seats' = seats \cap people'
  /\ temp' = [p \in Person |-> IF p \in people' THEN temp[p] ELSE 0]
  /\ UNCHANGED <<disk, handed, runs, lost>>

\* plan, and what `main' asks before it goes on: there is something to do, and
\* no file where the temporary passwords would go.
CliPlan(w, file) ==
  LET here == people \cap DOMAIN file
      plan == [op |-> "planned", file |-> file,
               create |-> DOMAIN file \ people,
               add    |-> {p \in here : <<p, file[p].role>> \notin grants},
               seat   |-> here \ seats]
  IN
  /\ req[w] = Free
  /\ plan.create \cup plan.add \cup plan.seat # {}
  /\ TemporaryOf(plan) # {} => disk = Null
  /\ Begin(w, plan)
  /\ UNCHANGED <<batches, applied, contested, cliTables, disk, handed, runs, lost>>

\* The rows `apply' writes are as it planned them.
StillSo(r) ==
  /\ r.create \cap people = {}
  /\ r.add \cup r.seat \subseteq people
  /\ \A p \in r.add : <<p, r.file[p].role>> \notin grants
  /\ \A p \in r.create \cup r.add \cup r.seat : Untouched(p) /\ version[p] < MaxVersion

\* Mutant: the file is opened for writing, there or not.
CliWriteOver(w) ==
  LET r == req[w] IN
  /\ r.op = "planned"
  /\ StillSo(r)
  /\ IF TemporaryOf(r) = {} THEN UNCHANGED <<disk, runs>>
     ELSE /\ runs < MaxRuns
          /\ runs' = runs + 1
          /\ disk' = [p \in Person |-> IF p \in TemporaryOf(r) THEN runs + 1 ELSE 0]
  /\ Step(w, [r EXCEPT !.op = "written"])
  /\ UNCHANGED <<batches, applied, contested, cliTables, handed, lost>>

\* apply, up to the commit: every row is flushed, which keeps others off these
\* accounts, and then the temporary passwords are written, to a new file.
CliWrite(w) ==
  LET r == req[w] IN
  /\ r.op = "planned"
  /\ StillSo(r)
  /\ IF TemporaryOf(r) = {} THEN UNCHANGED <<disk, runs>>
     ELSE /\ disk = Null
          /\ runs < MaxRuns
          /\ runs' = runs + 1
          /\ disk' = [p \in Person |-> IF p \in TemporaryOf(r) THEN runs + 1 ELSE 0]
  /\ Step(w, [r EXCEPT !.op = "written"])
  /\ UNCHANGED <<batches, applied, contested, cliTables, handed, lost>>

\* What the commit makes of an account: a new one gets role and seat, one there
\* was gets what it lacked; its version moves once for all of it.
Imported(r) ==
  LET gets == r.create \cup r.add IN
  /\ people' = people \cup r.create
  /\ grants' = grants \cup {<<p, r.file[p].role>> : p \in gets}
  /\ seats'  = seats \cup r.create \cup r.seat
  /\ temp'   = [p \in Person |-> IF p \in TemporaryOf(r) THEN runs ELSE temp[p]]
  /\ Bump(gets \cup r.seat)
  /\ UNCHANGED <<roles, rules, drawn, requests, batches, applied, contested>>

CliCommit(w) ==
  /\ req[w].op = "written"
  /\ Imported(req[w])
  /\ Put(w, Free)
  /\ UNCHANGED <<disk, handed, runs, lost>>

Unlinked(r) == IF TemporaryOf(r) = {} THEN disk ELSE Null

\* The commit raises: what was written is rolled back, and the file removed.
CliCommitFails(w) ==
  /\ req[w].op = "written"
  /\ disk' = Unlinked(req[w])
  /\ Step(w, Free)
  /\ UNCHANGED <<batches, applied, contested, cliTables, handed, runs, lost>>

\* The commit raises, but the database had done it: the connection went before
\* its answer.
CliAnswerLost(w) ==
  /\ req[w].op = "written"
  /\ Imported(req[w])
  /\ disk' = Unlinked(req[w])
  /\ Put(w, Free)
  /\ lost' = lost \cup (IF TemporaryOf(req[w]) = {} THEN {} ELSE {runs})
  /\ UNCHANGED <<handed, runs>>

\* A refusal, or the process is gone: a file it has written stays.
CliEnds(w) ==
  /\ req[w].op \in {"planned", "written"}
  /\ Step(w, Free)
  /\ UNCHANGED <<batches, applied, contested, cliTables, disk, handed, runs, lost>>

\* The operator, when no run is under way: `Hand them out, then delete it.'
HandOut ==
  /\ disk # Null
  /\ \A w \in Worker : req[w].op # "written"
  /\ handed' = [p \in Person |-> IF disk[p] # 0 THEN disk[p] ELSE handed[p]]
  /\ disk' = Null
  /\ UNCHANGED <<importVars, cliTables, runs, lost>>

-----------------------------------------------------------------------------
Next ==
  \/ Panel
  \/ \E w \in Worker :
       \/ \E file \in CliFile : CliPlan(w, file)
       \/ CliWrite(w)
       \/ CliCommit(w)
       \/ CliCommitFails(w)
       \/ CliAnswerLost(w)
       \/ CliEnds(w)
  \/ HandOut

Spec == Init /\ [][Next]_vars

-----------------------------------------------------------------------------
\* The tables refer to rows there are: grants and seats to accounts, grants and
\* rules to roles (models.py:425-450).
TypeOK ==
  /\ ImportTypeOK
  /\ seats \subseteq people
  /\ temp \in [Person -> Run]
  /\ disk \in [Person -> Run] \cup {Null}
  /\ handed \in [Person -> Run]
  /\ runs \in Run
  /\ lost \subseteq Run

\* import_users.py:26-28, 346-355: an account with a temporary password has it in
\* the file, or was handed it, whatever runs were refused, failed or were cut off
\* before and since; the one exception is the accounts of a run whose commit was
\* done and its answer lost.  And the file never has another password for such
\* an account than the one that is set, though it may have passwords of people
\* for whom none was set, of a run that ended between the file and the commit.
TemporaryPasswordsKept ==
  \A p \in people : temp[p] # 0 =>
    /\ \/ temp[p] \in lost
       \/ temp[p] = handed[p]
       \/ disk # Null /\ disk[p] = temp[p]
    /\ disk # Null => disk[p] \in {0, temp[p]}
=============================================================================
