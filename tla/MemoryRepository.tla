------------------------- MODULE MemoryRepository -------------------------
(***************************************************************************)
(* repository.MemoryRepository (internal/repository/memory.go): five maps  *)
(* under one RWMutex.  Every method runs under the mutex from its first    *)
(* look at a map to its last write, so each is one atomic step.            *)
(*                                                                         *)
(* A method that fails changes nothing, so only the successful calls are   *)
(* actions; SaveOutcome tells a caller which it will be.  The definitions  *)
(* introduced as slips are mutations, not part of the specification.       *)
(***************************************************************************)
EXTENDS Integers, Sequences, FiniteSets, Functions

CONSTANTS
  IDs,            \* short ids
  URLs,           \* original urls
  Users,          \* authenticated users
  Anonymous,      \* the empty userID, accepted when shortening one url
  None,           \* no entry in the map
  MaxBatch        \* BOUND: entries of one SaveBatch

ASSUME NoneAssumption == None \notin IDs \cup URLs \cup Users \cup {Anonymous}
ASSUME AnonymousAssumption == Anonymous \notin Users
ASSUME MaxBatchAssumption == MaxBatch \in Nat \ {0}

VARIABLES
  data,           \* short id -> url
  reverse,        \* url -> short id
  owners,         \* short id -> user
  userURLs,       \* user -> its short ids, in the order of creation
  deleted         \* short ids marked as deleted

repoVars == <<data, reverse, owners, userURLs, deleted>>

Owner == Users \cup {Anonymous}
Entry == [id : IDs, url : URLs, user : Owner]

RepoType ==
  /\ data \in [IDs -> URLs \cup {None}]
  /\ reverse \in [URLs -> IDs \cup {None}]
  /\ owners \in [IDs -> Owner \cup {None}]
  /\ userURLs \in [Users -> Seq(IDs)]
  /\ deleted \subseteq IDs

\* NewMemoryRepository
RepoInit ==
  /\ data = [i \in IDs |-> None]
  /\ reverse = [u \in URLs |-> None]
  /\ owners = [i \in IDs |-> None]
  /\ userURLs = [u \in Users |-> <<>>]
  /\ deleted = {}

----------------------------------------------------------------------------
(* Saving                                                                  *)

\* Slip: only the urls are compared.
ObjectionsByURL(es) == {k \in DOMAIN es : reverse[es[k].url] # None}

\* Slip: only the ids are compared.
ObjectionsByID(es) == {k \in DOMAIN es : data[es[k].id] # None}

\* The loop over the entries stops at the first one it objects to, and looks
\* at the url before the id; it compares with what is stored, never one entry
\* with another.
Objections(es) == {k \in DOMAIN es : \/ reverse[es[k].url] # None
                                     \/ data[es[k].id] # None}
SaveOutcome(es) ==
  LET first == CHOOSE k \in Objections(es) : \A j \in Objections(es) : k <= j
  IN  IF Objections(es) = {} THEN "ok"
      ELSE IF reverse[es[first].url] # None THEN "ErrURLExists"
      ELSE "ErrConflict"

LastOf(S) == CHOOSE k \in S : \A j \in S : j <= k

\* A finite set of numbers in increasing order.
InOrder(S) == [n \in 1..Cardinality(S) |->
                 CHOOSE k \in S : Cardinality({j \in S : j < k}) = n - 1]

\* Slip: the new ids are listed for every user.
ListedForAll(es, u) == [k \in DOMAIN es |-> es[k].id]

\* What the entries append to a user's listing.
Listed(es, u) == LET at == InOrder({k \in DOMAIN es : es[k].user = u})
                 IN  [n \in DOMAIN at |-> es[at[n]].id]

\* The second loop writes the entries in order, a later one over an earlier.
Put(es) ==
  LET withID(i)  == {k \in DOMAIN es : es[k].id = i}
      withURL(u) == {k \in DOMAIN es : es[k].url = u}
  IN  /\ data' = [i \in IDs |-> IF withID(i) = {} THEN data[i]
                                ELSE es[LastOf(withID(i))].url]
      /\ owners' = [i \in IDs |-> IF withID(i) = {} THEN owners[i]
                                  ELSE es[LastOf(withID(i))].user]
      /\ reverse' = [u \in URLs |-> IF withURL(u) = {} THEN reverse[u]
                                    ELSE es[LastOf(withURL(u))].id]
      /\ userURLs' = [u \in Users |-> userURLs[u] \o Listed(es, u)]
      /\ UNCHANGED deleted

SaveBatch(es) ==
  /\ SaveOutcome(es) = "ok"
  /\ Put(es)

\* Save checks and writes one entry as SaveBatch does.
Save(e) == SaveBatch(<<e>>)

----------------------------------------------------------------------------
(* Deleting                                                                *)

\* Slip: deleting a link frees its url.
DeleteUserURLsFrees(ids, u) ==
  /\ deleted' = deleted \cup {i \in ids : owners[i] = u}
  /\ reverse' = [l \in URLs |-> IF reverse[l] \in deleted' THEN None ELSE reverse[l]]
  /\ UNCHANGED <<data, owners, userURLs>>

\* Ids the user does not own, unknown ids included, are passed over.
DeleteUserURLs(ids, u) ==
  /\ deleted' = deleted \cup {i \in ids : owners[i] = u}
  /\ UNCHANGED <<data, reverse, owners, userURLs>>

----------------------------------------------------------------------------
(* Reading                                                                 *)

\* A deleted link is reported as such before it is looked up.
Get(i) == IF i \in deleted THEN "ErrDeleted"
          ELSE IF data[i] = None THEN "ErrNotFound"
          ELSE data[i]

\* GetByOriginalURL: None stands for ok = false.
GetByOriginalURL(u) == reverse[u]

GetURLsByUser(u) == {[id |-> i, url |-> data[i]] :
                       i \in {j \in Range(userURLs[u]) : data[j] # None}}

----------------------------------------------------------------------------
(* A property of every program over these maps                             *)

\* A user's listing shows each link of the user once, and no other link.
ListingExact ==
  \A u \in Users : /\ IsInjective(userURLs[u])
                   /\ Range(userURLs[u]) = {i \in IDs : owners[i] = u}
=============================================================================
