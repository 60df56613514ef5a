------------------------------ MODULE MCSignIn ------------------------------
(* SignIn for TLC: accounts, ids and threads are interchangeable.          *)
EXTENDS SignIn, TLC

Symmetry ==
  Permutations(User) \cup Permutations(SessionId) \cup Permutations(Worker)
=============================================================================
