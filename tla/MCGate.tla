------------------------------- MODULE MCGate -------------------------------
(* Gate for TLC: every session is ann's, and to begin with everything is in *)
(* order, or one thing is not.                                              *)
EXTENDS Gate, TLC

CONSTANTS ann, manager

Sessions == [s \in Session |-> ann]

InOrder ==
  [live |-> TRUE, active |-> TRUE, subscribed |-> TRUE,
   accounts |-> [p \in Person |-> [status |-> "active", must_change_password |-> FALSE]],
   sessions |-> Session, seats |-> Person, grants |-> [p \in Person |-> manager],
   opening |-> Role, inactive |-> FALSE]

OneThingAmiss ==
  {InOrder,
   [InOrder EXCEPT !.live = FALSE],
   [InOrder EXCEPT !.active = FALSE],
   [InOrder EXCEPT !.subscribed = FALSE],
   [InOrder EXCEPT !.accounts[ann].status = "suspended", !.sessions = {}],
   [InOrder EXCEPT !.accounts[ann].must_change_password = TRUE],
   [InOrder EXCEPT !.sessions = {}],
   [InOrder EXCEPT !.seats = {}],
   [InOrder EXCEPT !.grants[ann] = Null],
   [InOrder EXCEPT !.opening = {}],
   [InOrder EXCEPT !.inactive = TRUE]}

Symmetry == Permutations(Worker)
=============================================================================
