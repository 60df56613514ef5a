------------------------------ MODULE CodeLife ------------------------------
(***************************************************************************)
(* What an authorization code promises the applications (oauth.py:167-188, *)
(* router_oidc.py:239): bound to one client, person and address when it is *)
(* issued, redeemed at most once, and good for at most one token, which is *)
(* of that person, for that client and asked for with that address.        *)
(***************************************************************************)
EXTENDS Sequences

CONSTANTS Code, Grant, Null

VARIABLES
  phase,       \* of each code
  bound,       \* what it was issued for; Null before
  tokens       \* the tokens handed out, each with its code and its grant

vars == <<phase, bound, tokens>>

Init ==
  /\ phase = [c \in Code |-> "unissued"]
  /\ bound = [c \in Code |-> Null]
  /\ tokens = <<>>

In(p) == {c \in Code : phase[c] = p}

\* Every code in C ends without a token.
Closed(C) == [c \in Code |-> IF c \in C THEN "closed" ELSE phase[c]]

\* A code is issued; some that nobody redeemed are forgotten.
Issue(c, C) ==
  /\ phase' = [Closed(C) EXCEPT ![c] = "open"]
  /\ bound'[c] \in Grant
  /\ bound' = [bound EXCEPT ![c] = bound'[c]]
  /\ UNCHANGED tokens

Redeem(c) ==
  /\ phase' = [phase EXCEPT ![c] = "redeeming"]
  /\ UNCHANGED <<bound, tokens>>

Answer(c) ==
  /\ phase' = [phase EXCEPT ![c] = "closed"]
  /\ tokens' = Append(tokens, [code |-> c, grant |-> bound[c]])
  /\ UNCHANGED bound

Close(C) ==
  /\ phase' = Closed(C)
  /\ UNCHANGED <<bound, tokens>>

Next ==
  \/ \E c \in In("unissued"), C \in SUBSET In("open") : Issue(c, C)
  \/ \E c \in In("open") : Redeem(c)
  \/ \E c \in In("redeeming") : Answer(c)
  \/ \E C \in SUBSET (In("open") \cup In("redeeming")) : Close(C)

Spec == Init /\ [][Next]_vars
=============================================================================
