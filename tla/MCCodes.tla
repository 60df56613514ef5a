------------------------------ MODULE MCCodes ------------------------------
(* Codes for TLC: two applications, each with its address.                *)
EXTENDS Codes, TLC

CONSTANTS spool, hapext, home, dev

Addresses == (spool :> {home}) @@ (hapext :> {dev})

\* The two applications may change places, each with its address.
Swap == (spool :> hapext) @@ (hapext :> spool) @@ (home :> dev) @@ (dev :> home)

Symmetry == Permutations(Worker) \cup Permutations(Code) \cup {Swap}
=============================================================================
