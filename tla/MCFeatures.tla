----------------------------- MODULE MCFeatures -----------------------------
(* Features for TLC: three versions of an application.                     *)
EXTENDS Features, TLC

CONSTANTS hapext, spool

Versions == {[k \in {hapext} |-> {"use"}],
             [k \in {hapext, spool} |-> {"use"}],
             [k \in {spool} |-> {"use", "view"}]}

Symmetry == Permutations(Worker)
=============================================================================
