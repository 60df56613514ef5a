----------------------------- MODULE MCLockout ------------------------------
(* Lockout for TLC.  The first address goes on failing after it is locked, *)
(* any other only until it is.                                             *)
EXTENDS Lockout, TLC

CONSTANTS a1, a2

OneGoesOn == [a \in Address |-> IF a = a1 THEN LOCK_AFTER + 1 ELSE LOCK_AFTER]
=============================================================================
