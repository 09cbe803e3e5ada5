----------------------------- MODULE LinkStore -----------------------------
(***************************************************************************)
(* What a repository promises of the calls that store links (internal/     *)
(* repository/repository.go, URLRepository): whatever happens inside of it,*)
(* a call of Save or SaveBatch takes effect at one moment, with all of its *)
(* entries or with none, and never gives a url or a short id twice.        *)
(***************************************************************************)
EXTENDS Naturals

CONSTANTS
  Calls,          \* the calls of Save and SaveBatch
  Requests,       \* what they may ask for: sets of links, which are records
                  \* with fields id, url and user
  IDs, Users

VARIABLES
  wanted,         \* the links each call is to store
  effect,         \* "none" so far, "stored" or "refused"
  stored,         \* the links of the repository
  deleted         \* the ids of the deleted ones

svars == <<wanted, effect, stored, deleted>>

\* No two of these links have the url or the id in common.
Apart(S) == \A l, m \in S : l.id = m.id \/ l.url = m.url => l = m

SInit ==
  /\ wanted \in [Calls -> {{}}]
  /\ effect = [c \in Calls |-> "none"]
  /\ stored = {}
  /\ deleted = {}

\* A call arrives.
Ask(c, W) ==
  /\ effect[c] = "none" /\ wanted[c] = {}
  /\ wanted' = [wanted EXCEPT ![c] = W]
  /\ UNCHANGED <<effect, stored, deleted>>

Store(c) ==
  /\ effect[c] = "none" /\ wanted[c] # {}
  /\ wanted[c] \cap stored = {} /\ Apart(stored \cup wanted[c])
  /\ stored' = stored \cup wanted[c]
  /\ effect' = [effect EXCEPT ![c] = "stored"]
  /\ UNCHANGED <<wanted, deleted>>

Refuse(c) ==
  /\ effect[c] = "none" /\ wanted[c] # {}
  /\ effect' = [effect EXCEPT ![c] = "refused"]
  /\ UNCHANGED <<wanted, stored, deleted>>

\* A user deletes links, of which only the user's own are touched.
Delete(S, u) ==
  /\ deleted' = deleted \cup {l.id : l \in {m \in stored : m.id \in S /\ m.user = u}}
  /\ UNCHANGED <<wanted, effect, stored>>

SNext ==
  \/ \E c \in Calls : (\E W \in Requests : Ask(c, W)) \/ Store(c) \/ Refuse(c)
  \/ \E S \in SUBSET IDs, u \in Users : Delete(S, u)

SSpec == SInit /\ [][SNext]_svars
=============================================================================
