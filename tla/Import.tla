------------------------------- MODULE Import -------------------------------
(***************************************************************************)
(* Importing people from a file in the panel (admin_import.py): `validate'  *)
(* plans and keeps the preview, `commit' plans again, compares, and creates *)
(* the accounts with their roles; the roles and the people change between   *)
(* any two of these steps.  A plan reads the roles first, and then the      *)
(* addresses; those of one file are read together here.                     *)
(***************************************************************************)
EXTENDS Roles

CONSTANTS
  Batch,         \* import batches
  File           \* what files hold: rows of an address and the role it wants

ASSUME FileAssumption == File \subseteq Seq([email : Person, wants : Name])

VARIABLES
  batches,       \* `import_batches', by id
  applied,       \* how often each has been carried out (history)
  contested      \* those that two commits were at at once, or of which one was cut
                 \* off between its two transactions (history)

importVars == <<rolesVars, batches, applied, contested>>

MaxApplied == 2  \* bound on `applied'

Planned  == [email : Person, key : Name]   \* a row that would be created
BatchRow == [file : File, preview : SUBSET Planned,
             status : {"pending", "success", "warnings", "failed"}]

ASSUME BatchAssumption == Null \notin BatchRow

-----------------------------------------------------------------------------
\* roles.get(key) or by_name.get(name): of two with one name, either.
Answers(wanted) ==
  LET byKey  == {r \in Existing : roles[r].key = wanted}
      byName == {r \in Existing : roles[r].name = wanted}
  IN  {roles[r].key : r \in IF byKey # {} THEN byKey ELSE byName}

\* The roles' half of a plan: the key each row resolves to, if any.
Resolved(file) ==
  {keys \in [DOMAIN file -> Name \cup {Null}] :
     \A i \in DOMAIN file :
       LET answers == Answers(file[i].wants)
       IN  IF answers = {} THEN keys[i] = Null ELSE keys[i] \in answers}

\* The addresses' half: the rows without a problem.
OkRows(file, keys) ==
  {[email |-> file[i].email, key |-> keys[i]] : i \in
     {j \in DOMAIN file :
        /\ keys[j] # Null
        /\ file[j].email \notin people
        /\ \A k \in 1..(j - 1) : file[k].email # file[j].email}}

Emails(rows) == {row.email : row \in rows}

\* ImportPlan.failed is 0.
Whole(b) == Cardinality(batches[b].preview) = Len(batches[b].file)

\* A commit of the batch is in flight.
CommitOf(w, b) ==
  /\ req[w].op \in {"commit", "mismatch", "apply", "applied"}
  /\ req[w].batch = b

-----------------------------------------------------------------------------
InitImport ==
  /\ InitRoles
  /\ batches = [b \in Batch |-> Null]
  /\ applied = [b \in Batch |-> 0]
  /\ contested = {}

\* validate, up to the addresses.
Validate(w, file) ==
  /\ req[w] = Free
  /\ \E keys \in Resolved(file) : Begin(w, [op |-> "validate", file |-> file, keys |-> keys])
  /\ UNCHANGED <<batches, applied, contested>>

\* ... and the batch it keeps.
StorePreview(w, b) ==
  /\ req[w].op = "validate"
  /\ batches[b] = Null
  /\ batches' = [batches EXCEPT ![b] =
       [file |-> req[w].file, preview |-> OkRows(req[w].file, req[w].keys),
        status |-> "pending"]]
  /\ Step(w, Free)
  /\ UNCHANGED <<applied, contested>>

\* Mutant: whatever its status.
CommitReadAgain(w, b) ==
  /\ req[w] = Free
  /\ batches[b] # Null
  /\ \E keys \in Resolved(batches[b].file) :
       Begin(w, [op |-> "commit", batch |-> b, keys |-> keys])
  /\ contested' = contested \cup {c \in {b} : \E v \in Worker : CommitOf(v, c)}
  /\ UNCHANGED <<batches, applied>>

\* commit: the batch, read without a lock, and the roles' half of the new plan.
CommitRead(w, b) ==
  /\ req[w] = Free
  /\ batches[b] # Null
  /\ batches[b].status = "pending"
  /\ \E keys \in Resolved(batches[b].file) :
       Begin(w, [op |-> "commit", batch |-> b, keys |-> keys])
  /\ contested' = contested \cup {c \in {b} : \E v \in Worker : CommitOf(v, c)}
  /\ UNCHANGED <<batches, applied>>

\* Mutant: the signature is of addresses only.
CompareAddresses(w) ==
  LET b     == req[w].batch
      fresh == OkRows(batches[b].file, req[w].keys)
  IN
  /\ req[w].op = "commit"
  /\ Step(w, IF Emails(fresh) # Emails(batches[b].preview) THEN [op |-> "mismatch", batch |-> b]
             ELSE IF fresh = {} THEN Free
             ELSE [op |-> "apply", batch |-> b, rows |-> fresh])
  /\ UNCHANGED <<batches, applied, contested>>

\* ... the addresses' half, and whether the two plans say the same.
Compare(w) ==
  LET b     == req[w].batch
      fresh == OkRows(batches[b].file, req[w].keys)
  IN
  /\ req[w].op = "commit"
  /\ Step(w, IF fresh # batches[b].preview THEN [op |-> "mismatch", batch |-> b]
             ELSE IF fresh = {} THEN Free
             ELSE [op |-> "apply", batch |-> b, rows |-> fresh])
  /\ UNCHANGED <<batches, applied, contested>>

\* ... they do not, and the batch says so, whatever it said.
MarkFailed(w) ==
  /\ req[w].op = "mismatch"
  /\ batches' = [batches EXCEPT ![req[w].batch].status = "failed"]
  /\ Step(w, Free)
  /\ UNCHANGED <<applied, contested>>

\* apply: its transaction, for all the rows or none.  A role is looked up by the
\* key of the plan.
Apply(w) ==
  LET b     == req[w].batch
      rows  == req[w].rows
      named == [row \in rows |-> {r \in Existing : roles[r].key = row.key}]
  IN
  /\ req[w].op = "apply"
  /\ applied[b] < MaxApplied
  /\ \A row \in rows :
       /\ row.email \notin people /\ Untouched(row.email)
       /\ named[row] # {}
  /\ people' = people \cup Emails(rows)
  /\ grants' = grants \cup UNION {{<<row.email, r>> : r \in named[row]} : row \in rows}
  /\ Bump(Emails(rows))
  /\ applied' = [applied EXCEPT ![b] = @ + 1]
  /\ Put(w, [op |-> "applied", batch |-> b])
  /\ UNCHANGED <<roles, rules, drawn, requests, batches, contested>>

\* ... and the second transaction, which tells the batch.
Finish(w) ==
  LET b == req[w].batch IN
  /\ req[w].op = "applied"
  /\ batches' = [batches EXCEPT ![b].status = IF Whole(b) THEN "success" ELSE "warnings"]
  /\ Step(w, Free)
  /\ UNCHANGED <<applied, contested>>

\* Either ends here: refused, rolled back, or the process with it.
RefuseImport(w) ==
  /\ req[w].op \in {"validate", "commit", "mismatch", "apply", "applied"}
  /\ contested' = contested \cup (IF req[w].op = "applied" THEN {req[w].batch} ELSE {})
  /\ Step(w, Free)
  /\ UNCHANGED <<batches, applied>>

-----------------------------------------------------------------------------
NextImport ==
  \/ NextRoles /\ UNCHANGED <<batches, applied, contested>>
  \/ \E w \in Worker :
       \/ \E file \in File : Validate(w, file)
       \/ \E b \in Batch : StorePreview(w, b) \/ CommitRead(w, b)
       \/ Compare(w)
       \/ MarkFailed(w)
       \/ Apply(w)
       \/ Finish(w)
       \/ RefuseImport(w)

-----------------------------------------------------------------------------
ImportTypeOK ==
  /\ RolesTypeOK
  /\ batches \in [Batch -> BatchRow \cup {Null}]
  /\ applied \in [Batch -> 0..MaxApplied]
  /\ contested \subseteq Batch

\* admin_import.py:5-21: the commit creates what the preview showed or nothing,
\* whatever happened to roles and people between the two: each of the addresses,
\* of which none had an account, with one role, of the key that was shown.
AppliedAsPreviewed ==
  [][\A b \in Batch : applied'[b] > applied[b] =>
       LET shown == batches[b].preview IN
       /\ shown # {}
       /\ people' \ people = Emails(shown) /\ people \subseteq people'
       /\ \A row \in shown :
            LET held == {r \in DOMAIN roles' : <<row.email, r>> \in grants'}
            IN  \E r \in held : held = {r} /\ roles'[r].key = row.key]_importVars

\* admin_import.py:381-437: a batch that says it was imported was, in full exactly
\* if it says `success'; and, whatever else overlaps, one that says anything else
\* created nobody, and none is carried out twice: unless two commits of that very
\* batch overlapped, or one was cut off between its two transactions.
BatchTellsTruth ==
  \A b \in Batch : batches[b] # Null =>
    /\ batches[b].status \in {"success", "warnings"} =>
         applied[b] > 0 /\ (batches[b].status = "success" <=> Whole(b))
    /\ b \notin contested =>
         /\ applied[b] <= 1
         /\ batches[b].status \in {"pending", "failed"} =>
              \/ applied[b] = 0
              \/ \E w \in Worker : req[w].op = "applied" /\ req[w].batch = b
=============================================================================
