---------------------------- MODULE SessionLife -----------------------------
(***************************************************************************)
(* What the rest of Core relies on a session being (sessions.py:1-7): an   *)
(* id is issued once, to one person; the session it names is open for that *)
(* person until it is closed, and nothing opens it again.  How it closes - *)
(* sign-out, a revocation, time, the account going - is not said here.     *)
(***************************************************************************)
CONSTANTS User, SessionId, NULL

VARIABLES
  phase,   \* "unissued", "open" or "closed"
  owner    \* whose it is, while it is open

vars == <<phase, owner>>

TypeOK ==
  /\ phase \in [SessionId -> {"unissued", "open", "closed"}]
  /\ owner \in [SessionId -> User \cup {NULL}]

Init ==
  /\ phase = [s \in SessionId |-> "unissued"]
  /\ owner = [s \in SessionId |-> NULL]

Closable(C) == \A s \in C : phase[s] = "open"

\* Any number of open sessions close together.
Close(C) ==
  /\ Closable(C)
  /\ phase' = [s \in SessionId |-> IF s \in C THEN "closed" ELSE phase[s]]
  /\ owner' = [s \in SessionId |-> IF s \in C THEN NULL ELSE owner[s]]

\* A new session for u, closing others on the way.  A sign-in slow enough is
\* over before it is written.
Issue(s, u, C) ==
  /\ phase[s] = "unissued"
  /\ Closable(C)
  /\ \E p \in {"open", "closed"} :
       /\ phase' = [t \in SessionId |-> IF t = s THEN p
                                        ELSE IF t \in C THEN "closed" ELSE phase[t]]
       /\ owner' = [t \in SessionId |-> IF t = s THEN (IF p = "open" THEN u ELSE NULL)
                                        ELSE IF t \in C THEN NULL ELSE owner[t]]

Next ==
  \E C \in SUBSET SessionId :
    \/ Close(C)
    \/ \E s \in SessionId, u \in User : Issue(s, u, C)

Spec == Init /\ [][Next]_vars
=============================================================================
