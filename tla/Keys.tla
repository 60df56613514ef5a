-------------------------------- MODULE Keys --------------------------------
(***************************************************************************)
(* The keys Core signs tokens with (keys.py), in several processes over one *)
(* table: each reads its key once, at start, or makes a throwaway one, and  *)
(* sees to it that the public half is published, at start and before each   *)
(* token.  Whoever verifies tokens fetches the published keys, and keeps    *)
(* them by id.                                                              *)
(***************************************************************************)
EXTENDS FiniteSets

CONSTANTS
  Kid,           \* key ids
  EphemeralKid,  \* those with the prefix of a throwaway's
  Pem,           \* keys
  Configured,    \* what OIDC_KEY_ID and OIDC_PRIVATE_KEY may be set to
  Throwaway,     \* keys made for want of one, with their ids
  Instance,      \* processes
  Thread,        \* what their calls run on
  None

Key == [kid : Kid, pem : Pem]

ASSUME KeysAssumption ==
  /\ EphemeralKid \subseteq Kid
  /\ Configured \subseteq Key
  /\ Throwaway \subseteq [kid : EphemeralKid, pem : Pem]
  /\ None \notin [kid : Kid, pem : Pem, ephemeral : BOOLEAN]

VARIABLES
  signing_keys,  \* the table, by kid
  process,       \* the key each process holds, or None when it is down
  drawn,         \* throwaways there have been (history)
  calls,         \* calls of ensure_published in flight
  signed,        \* by which key tokens have been signed
  cached         \* keys whoever verifies them has fetched

keysVars == <<signing_keys, process, drawn, calls, signed, cached>>

Material == [kid : Kid, pem : Pem, ephemeral : BOOLEAN]
KeyRow   == [pem : Pem, status : {"active", "retired"}]
NoCall   == [op |-> "none"]
Call     == [op : {"look", "reread", "ready"}, of : Instance, starting : BOOLEAN]
            \cup [op : {"insert"}, of : Instance, starting : BOOLEAN, stale : SUBSET Kid]

-----------------------------------------------------------------------------
Published == DOMAIN signing_keys
Active    == {k \in Published : signing_keys[k].status = "active"}

\* published_jwks.
Jwks == {[kid |-> k, pem |-> signing_keys[k].pem] : k \in Active}

InFlight(w) == calls[w] # NoCall
Held(w)     == process[calls[w].of]
MayServe(i) == \A w \in Thread : ~(InFlight(w) /\ calls[w].of = i /\ calls[w].starting)

Go(w, r) == calls' = [calls EXCEPT ![w] = r]

At(w, op) == [op |-> op, of |-> calls[w].of, starting |-> calls[w].starting]

KeysInit ==
  /\ signing_keys = <<>>
  /\ process = [i \in Instance |-> None]
  /\ drawn = {}
  /\ calls = [w \in Thread |-> NoCall]
  /\ signed = {}
  /\ cached = {}

\* signing_key, at import, and the call of ensure_published in `lifespan'.
Start(i, w, key, ephemeral) ==
  /\ process[i] = None
  /\ ~InFlight(w)
  /\ IF ephemeral THEN key \in Throwaway \ drawn ELSE key \in Configured
  /\ process' = [process EXCEPT ![i] =
       [kid |-> key.kid, pem |-> key.pem, ephemeral |-> ephemeral]]
  /\ drawn' = IF ephemeral THEN drawn \cup {key} ELSE drawn
  /\ Go(w, [op |-> "look", of |-> i, starting |-> TRUE])
  /\ UNCHANGED <<signing_keys, signed, cached>>

\* The token endpoint, about to sign.
Ask(i, w) ==
  /\ process[i] # None
  /\ MayServe(i)
  /\ ~InFlight(w)
  /\ Go(w, [op |-> "look", of |-> i, starting |-> FALSE])
  /\ UNCHANGED <<signing_keys, process, drawn, signed, cached>>

\* There is no row, and, for a throwaway, which others are to be retired.
LookMissing(w) ==
  LET m == Held(w) IN
  /\ calls[w].op = "look"
  /\ m.kid \notin Published
  /\ Go(w, [op |-> "insert", of |-> calls[w].of, starting |-> calls[w].starting,
            stale |-> IF m.ephemeral THEN (Active \cap EphemeralKid) \ {m.kid} ELSE {}])
  /\ UNCHANGED <<signing_keys, process, drawn, signed, cached>>

\* The insert and the retirements, committed; the row is as it was made.
Publish(w) ==
  LET m == Held(w) IN
  /\ calls[w].op = "insert"
  /\ m.kid \notin Published
  /\ signing_keys' = [k \in Published \cup {m.kid} |->
       IF k = m.kid THEN [pem |-> m.pem, status |-> "active"]
       ELSE IF k \in calls[w].stale THEN [signing_keys[k] EXCEPT !.status = "retired"]
       ELSE signing_keys[k]]
  /\ Go(w, At(w, "ready"))
  /\ UNCHANGED <<process, drawn, signed, cached>>

\* Another was first.  A throwaway's insert fails when the others are read,
\* outside the `try'.
PublishRaced(w) ==
  /\ calls[w].op = "insert"
  /\ Held(w).kid \in Published
  /\ Go(w, IF Held(w).ephemeral THEN NoCall ELSE At(w, "reread"))
  /\ UNCHANGED <<signing_keys, process, drawn, signed, cached>>

\* Mutant: in use is enough.
AcceptActive(w) ==
  LET m == Held(w) IN
  /\ calls[w].op \in {"look", "reread"}
  /\ m.kid \in Active
  /\ Go(w, At(w, "ready"))
  /\ UNCHANGED <<signing_keys, process, drawn, signed, cached>>

\* There is a row: of this key, and in use.
Accept(w) ==
  LET m == Held(w) IN
  /\ calls[w].op \in {"look", "reread"}
  /\ m.kid \in Active
  /\ signing_keys[m.kid].pem = m.pem
  /\ Go(w, At(w, "ready"))
  /\ UNCHANGED <<signing_keys, process, drawn, signed, cached>>

\* ... or not, SigningKeyConflict: a process that starts refuses to.
Conflict(w) ==
  LET m == Held(w) IN
  /\ calls[w].op \in {"look", "reread"}
  /\ m.kid \in Published
  /\ m.kid \notin Active \/ signing_keys[m.kid].pem # m.pem
  /\ process' =
       IF calls[w].starting THEN [process EXCEPT ![calls[w].of] = None] ELSE process
  /\ Go(w, NoCall)
  /\ UNCHANGED <<signing_keys, drawn, signed, cached>>

\* Mutant: before it is published.
SignFirst(w) ==
  /\ calls[w].op \in {"look", "ready"}
  /\ ~calls[w].starting
  /\ signed' = signed \cup {[kid |-> Held(w).kid, pem |-> Held(w).pem]}
  /\ Go(w, NoCall)
  /\ UNCHANGED <<signing_keys, process, drawn, cached>>

\* tokens.sign, with the key the process holds.
Sign(w) ==
  /\ calls[w].op = "ready"
  /\ ~calls[w].starting
  /\ signed' = signed \cup {[kid |-> Held(w).kid, pem |-> Held(w).pem]}
  /\ Go(w, NoCall)
  /\ UNCHANGED <<signing_keys, process, drawn, cached>>

\* The call fails for another reason, or is the one of a start and has
\* succeeded: the process serves either way.
Finish(w) ==
  /\ InFlight(w)
  /\ Go(w, NoCall)
  /\ UNCHANGED <<signing_keys, process, drawn, signed, cached>>

Stop(i) ==
  /\ process[i] # None
  /\ process' = [process EXCEPT ![i] = None]
  /\ calls' = [w \in Thread |-> IF InFlight(w) /\ calls[w].of = i THEN NoCall ELSE calls[w]]
  /\ UNCHANGED <<signing_keys, drawn, signed, cached>>

\* A key rotated out is retired, by hand.
Retire(k) ==
  /\ k \in Active
  /\ signing_keys' = [signing_keys EXCEPT ![k].status = "retired"]
  /\ UNCHANGED <<process, drawn, calls, signed, cached>>

\* jwks, and whoever verifies tokens keeps what it got.
Fetch ==
  /\ cached' = cached \cup Jwks
  /\ UNCHANGED <<signing_keys, process, drawn, calls, signed>>

-----------------------------------------------------------------------------
KeysNext ==
  \/ \E w \in Thread :
       \/ \E i \in Instance :
            \/ \E key \in Configured \cup Throwaway, ephemeral \in BOOLEAN :
                 Start(i, w, key, ephemeral)
            \/ Ask(i, w)
       \/ LookMissing(w)
       \/ Publish(w)
       \/ PublishRaced(w)
       \/ Accept(w)
       \/ Conflict(w)
       \/ Sign(w)
       \/ Finish(w)
  \/ \E i \in Instance : Stop(i)
  \/ \E k \in Kid : Retire(k)
  \/ Fetch

KeysSpec == KeysInit /\ [][KeysNext]_keysVars

-----------------------------------------------------------------------------
\* A call in flight is of a process that runs, and one that may sign holds the
\* key that is published under its id.
KeysTypeOK ==
  /\ Published \subseteq Kid /\ signing_keys \in [Published -> KeyRow]
  /\ process \in [Instance -> Material \cup {None}]
  /\ drawn \subseteq Throwaway
  /\ calls \in [Thread -> Call \cup {NoCall}]
  /\ signed \subseteq Key /\ cached \subseteq Key
  /\ \A w \in Thread : InFlight(w) =>
       /\ Held(w) # None
       /\ calls[w].op = "ready" =>
            Held(w).kid \in Published /\ signing_keys[Held(w).kid].pem = Held(w).pem

\* keys.py:122-128: a key id stands for one key, whatever keys processes are
\* started with, however their calls overlap: every token was signed with the key
\* that is in the table under its id, and nobody who verifies it holds another.
TokensVerify ==
  \A t \in signed :
    /\ t.kid \in Published /\ signing_keys[t.kid].pem = t.pem
    /\ \A c \in cached : c.kid = t.kid => c.pem = t.pem
=============================================================================
