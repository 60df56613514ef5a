----------------------------- MODULE MCAccounts -----------------------------
(* Accounts for TLC.                                                       *)
EXTENDS Accounts, TLC

Symmetry ==
  Permutations(Bootstrap) \cup Permutations(User \ Bootstrap)
  \cup Permutations(GrantId) \cup Permutations(Worker)
=============================================================================
