---------------------------- MODULE MCDecisions -----------------------------
(* Decisions for TLC: the grants an administrator may give, and the        *)
(* contents before and after a first report, for somebody who holds both:  *)
(* out of these, two commits make the others.                              *)
EXTENDS Decisions, TLC

CONSTANTS lead, other, engineering, timesheet, maec

At(kind, id) == [kind |-> kind, id |-> id]

G(role, scope, expires) == [role |-> role, scope |-> scope, expires |-> expires]

\* One role for the whole organisation, one for this application until 1.
TwoGrants == {G(lead, At("organization", maec), Never),
              G(other, At("application", engineering), 1)}

AroundFirstReport ==
  /\ Init
  /\ seat /\ grants = Offered /\ registered \in {{}, OurKey} /\ grid = << >> /\ inactive = {}
  /\ rules = [e \in Role \X registered |-> IF e[1] = GlobalAdmin THEN "allow" ELSE "deny"]

MCSpec == AroundFirstReport /\ [][Next]_vars

\* While a load is under way one administrator's request is, at most: a load
\* disturbed twice is nobody's promise.
LoadsMeetOne ==
  (\E w \in Reader : reader[w] # Idle) => Cardinality({a \in Admin : admin[a] # Null}) <= 1

Interchangeable == Permutations(Admin)
=============================================================================
