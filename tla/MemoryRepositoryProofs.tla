----------------------- MODULE MemoryRepositoryProofs -----------------------
(***************************************************************************)
(* What one call of the memory repository does to its maps, for any number *)
(* of ids, urls and users and batches of any length: the lemmas that the   *)
(* proofs about the modules built on MemoryRepository cite.                *)
(***************************************************************************)
EXTENDS MemoryRepository, WellFoundedInduction, FiniteSetTheorems, SequenceTheorems, TLAPS

\* RepoType without the listings, which the lemmas leave alone.
MapsType ==
  /\ data \in [IDs -> URLs \cup {None}]
  /\ reverse \in [URLs -> IDs \cup {None}]
  /\ owners \in [IDs -> Owner \cup {None}]
  /\ deleted \subseteq IDs

\* The least-number principle for a set, from the well-foundedness of <.
LEMMA LeastNumber ==
  ASSUME NEW T \in SUBSET Nat, T # {}
  PROVE  \E m \in T : \A j \in T : m <= j
<1>1. PICK m \in T : \A j \in T : <<j, m>> \notin OpToRel(<, Nat)
  BY NatLessThanWellFounded, WFMin
<1>2. \A j \in T : ~(j < m)
  BY <1>1 DEF OpToRel
<1>3. QED BY <1>2

\* A nonempty set of positions has a last one.
LEMMA LastOfSet ==
  ASSUME NEW n \in Nat, NEW S \in SUBSET (1..n), S # {}
  PROVE  LastOf(S) \in S
<1> DEFINE T == {m \in Nat : \E k \in S : m = n - k}
<1>1. \A k \in S : n - k \in T
  OBVIOUS
<1>2. T \in SUBSET Nat /\ T # {}
  BY <1>1
<1>3. PICK m \in T : \A j \in T : m <= j
  <2> HIDE DEF T
  <2> QED BY <1>2, LeastNumber
<1>4. PICK k \in S : m = n - k
  BY <1>3
<1>5. \A j \in S : j <= k
  <2>1. SUFFICES ASSUME NEW j \in S PROVE j <= k
    OBVIOUS
  <2>2. n - k <= n - j
    BY <1>1, <1>3, <1>4
  <2>3. QED BY <2>2
<1>6. QED BY <1>4, <1>5 DEF LastOf

\* Put writes for each id and each url of the entries what one of the entries
\* with that id, or url, says, and leaves the other ids and urls alone.
LEMMA PutEffect ==
  ASSUME MapsType, NEW n \in Nat, NEW es \in [1..n -> Entry], Put(es)
  PROVE  /\ MapsType'
         /\ deleted' = deleted
         /\ \A i \in IDs :
              \/ \E k \in 1..n : /\ es[k].id = i
                                 /\ data'[i] = es[k].url
                                 /\ owners'[i] = es[k].user
              \/ /\ \A k \in 1..n : es[k].id # i
                 /\ data'[i] = data[i]
                 /\ owners'[i] = owners[i]
         /\ \A u \in URLs :
              \/ \E k \in 1..n : es[k].url = u /\ reverse'[u] = es[k].id
              \/ /\ \A k \in 1..n : es[k].url # u
                 /\ reverse'[u] = reverse[u]
<1> DEFINE withID(i)  == {k \in DOMAIN es : es[k].id = i}
           withURL(u) == {k \in DOMAIN es : es[k].url = u}
<1>1. /\ data' = [i \in IDs |-> IF withID(i) = {} THEN data[i]
                                ELSE es[LastOf(withID(i))].url]
      /\ owners' = [i \in IDs |-> IF withID(i) = {} THEN owners[i]
                                  ELSE es[LastOf(withID(i))].user]
      /\ reverse' = [u \in URLs |-> IF withURL(u) = {} THEN reverse[u]
                                    ELSE es[LastOf(withURL(u))].id]
      /\ deleted' = deleted
  BY DEF Put
<1>2. ASSUME NEW k \in 1..n
      PROVE  es[k].id \in IDs /\ es[k].url \in URLs /\ es[k].user \in Owner
  BY <1>2 DEF Entry
<1>3. ASSUME NEW i \in IDs
      PROVE  \/ \E k \in 1..n : /\ es[k].id = i
                                /\ data'[i] = es[k].url
                                /\ owners'[i] = es[k].user
             \/ /\ \A k \in 1..n : es[k].id # i
                /\ data'[i] = data[i]
                /\ owners'[i] = owners[i]
  <2>1. CASE withID(i) = {}
    BY <1>1, <2>1
  <2>2. CASE withID(i) # {}
    <3>1. LastOf(withID(i)) \in withID(i)
      BY <2>2, LastOfSet
    <3>2. QED BY <1>1, <2>2, <3>1
  <2>3. QED BY <2>1, <2>2
<1>4. ASSUME NEW u \in URLs
      PROVE  \/ \E k \in 1..n : es[k].url = u /\ reverse'[u] = es[k].id
             \/ /\ \A k \in 1..n : es[k].url # u
                /\ reverse'[u] = reverse[u]
  <2>1. CASE withURL(u) = {}
    BY <1>1, <2>1
  <2>2. CASE withURL(u) # {}
    <3>1. LastOf(withURL(u)) \in withURL(u)
      BY <2>2, LastOfSet
    <3>2. QED BY <1>1, <2>2, <3>1
  <2>3. QED BY <2>1, <2>2
<1>5. MapsType'
  <2>1. /\ \A i \in IDs : data'[i] \in URLs \cup {None} /\ owners'[i] \in Owner \cup {None}
        /\ \A u \in URLs : reverse'[u] \in IDs \cup {None}
    BY <1>2, <1>3, <1>4 DEF MapsType
  <2>2. QED BY <1>1, <2>1 DEF MapsType
<1>6. QED BY <1>1, <1>3, <1>4, <1>5

\* A successful SaveBatch touches no id and no url that was stored before.
LEMMA SaveBatchIsNew ==
  ASSUME MapsType, NEW n \in Nat, NEW es \in [1..n -> Entry], SaveBatch(es)
  PROVE  \A k \in 1..n : data[es[k].id] = None /\ reverse[es[k].url] = None
<1>1. Objections(es) = {}
  BY DEF SaveBatch, SaveOutcome
<1>2. QED BY <1>1 DEF Objections

\* A stored link keeps its url, its owner and its place in the reverse map.
LEMMA SaveBatchKeeps ==
  ASSUME MapsType, NEW n \in Nat, NEW es \in [1..n -> Entry], SaveBatch(es)
  PROVE  /\ MapsType'
         /\ \A i \in IDs : data[i] # None => data'[i] = data[i] /\ owners'[i] = owners[i]
         /\ \A u \in URLs : reverse[u] # None => reverse'[u] = reverse[u]
         /\ deleted' = deleted
<1>1. \A k \in 1..n : data[es[k].id] = None /\ reverse[es[k].url] = None
  BY SaveBatchIsNew
<1>2. Put(es)
  BY DEF SaveBatch
<1>3. QED BY <1>1, <1>2, PutEffect

\* The entries of a batch with ids of their own are stored as given.
LEMMA SaveBatchStores ==
  ASSUME MapsType, NEW n \in Nat, NEW es \in [1..n -> Entry], SaveBatch(es),
         \A j, k \in 1..n : es[j].id = es[k].id => j = k
  PROVE  \A k \in 1..n : /\ data'[es[k].id] = es[k].url
                         /\ reverse'[es[k].url] # None
<1>1. Put(es)
  BY DEF SaveBatch
<1>2. SUFFICES ASSUME NEW k \in 1..n
               PROVE  data'[es[k].id] = es[k].url /\ reverse'[es[k].url] # None
  OBVIOUS
<1>3. es[k].id \in IDs /\ es[k].url \in URLs
  BY DEF Entry
<1>4. data'[es[k].id] = es[k].url
  BY <1>1, <1>3, PutEffect
<1>5. PICK j \in 1..n : reverse'[es[k].url] = es[j].id
  BY <1>1, <1>3, PutEffect
<1>6. es[j].id \in IDs
  BY DEF Entry
<1>7. QED BY <1>4, <1>5, <1>6, NoneAssumption

\* The reverse map leads back: the id it holds for a url has that url.
ReverseRight == \A u \in URLs : reverse[u] # None => data[reverse[u]] = u

\* ... and a batch with ids of its own keeps it so, a repeated url or not.
LEMMA SaveBatchReverse ==
  ASSUME MapsType, ReverseRight,
         NEW n \in Nat, NEW es \in [1..n -> Entry], SaveBatch(es),
         \A j, k \in 1..n : es[j].id = es[k].id => j = k
  PROVE  ReverseRight'
<1>1. SUFFICES ASSUME NEW u \in URLs, reverse'[u] # None
               PROVE  data'[reverse'[u]] = u
  BY DEF ReverseRight
<1>2. Put(es)
  BY DEF SaveBatch
<1>3. CASE \E k \in 1..n : es[k].url = u /\ reverse'[u] = es[k].id
  <2>1. PICK k \in 1..n : es[k].url = u /\ reverse'[u] = es[k].id
    BY <1>3
  <2>2. data'[es[k].id] = es[k].url
    BY SaveBatchStores
  <2>3. QED BY <2>1, <2>2
<1>4. CASE reverse'[u] = reverse[u]
  <2>1. reverse[u] \in IDs /\ data[reverse[u]] = u
    BY <1>1, <1>4 DEF MapsType, ReverseRight
  <2>2. data[reverse[u]] # None
    BY <1>1, <2>1, NoneAssumption
  <2>3. QED BY <1>4, <2>1, <2>2, SaveBatchKeeps
<1>5. QED BY <1>2, <1>3, <1>4, PutEffect

----------------------------------------------------------------------------
(* The listings                                                            *)

\* InOrder goes through the set, through each member once.  The number of smaller
\* members tells them apart, and takes every value below the cardinality.
LEMMA InOrderEffect ==
  ASSUME NEW S \in SUBSET Nat, IsFiniteSet(S)
  PROVE  /\ Cardinality(S) \in Nat
         /\ DOMAIN InOrder(S) = 1..Cardinality(S)
         /\ \A n \in 1..Cardinality(S) : InOrder(S)[n] \in S
         /\ \A m, n \in 1..Cardinality(S) : InOrder(S)[m] = InOrder(S)[n] => m = n
         /\ \A k \in S : \E n \in 1..Cardinality(S) : InOrder(S)[n] = k
<1> DEFINE N == Cardinality(S)
           smaller(k) == {j \in S : j < k}
           rank == [k \in S |-> Cardinality(smaller(k))]
<1>1. N \in Nat
  BY FS_CardinalityType
<1>2. ASSUME NEW k \in S
      PROVE  IsFiniteSet(smaller(k)) /\ rank[k] \in 0..N - 1
  <2>1. smaller(k) \in SUBSET S /\ smaller(k) # S
    OBVIOUS
  <2>2. IsFiniteSet(smaller(k)) /\ Cardinality(smaller(k)) <= N /\ Cardinality(smaller(k)) # N
    BY <2>1, FS_Subset
  <2>3. Cardinality(smaller(k)) \in Nat
    BY <2>2, FS_CardinalityType
  <2>4. QED BY <1>1, <2>2, <2>3
<1>3. ASSUME NEW j \in S, NEW k \in S, j < k
      PROVE  rank[j] < rank[k]
  <2>1. smaller(j) \in SUBSET smaller(k) /\ smaller(j) # smaller(k)
    <3>1. j \in Nat /\ k \in Nat /\ \A i \in S : i \in Nat
      OBVIOUS
    <3>2. j \in smaller(k) /\ j \notin smaller(j)
      BY <1>3, <3>1
    <3>3. \A i \in S : i < j => i < k
      BY <1>3, <3>1
    <3>4. QED BY <3>2, <3>3
  <2>2. Cardinality(smaller(j)) <= Cardinality(smaller(k))
        /\ Cardinality(smaller(j)) # Cardinality(smaller(k))
    BY <1>2, <2>1, FS_Subset
  <2>3. QED BY <1>2, <2>2
<1>4. \A j, k \in S : rank[j] = rank[k] => j = k
  <2>1. \A j, k \in S : j < k \/ j = k \/ k < j
    OBVIOUS
  <2>2. \A j \in S : rank[j] \in Nat
    BY <1>1, <1>2
  <2> HIDE DEF rank
  <2>3. QED BY <1>3, <2>1, <2>2
<1>5. \A n \in 0..N - 1 : \E k \in S : rank[k] = n
  <2>1. rank \in [S -> 0..N - 1]
    BY <1>2
  <2>2. rank \in Injection(S, 0..N - 1)
    BY <1>4, <2>1 DEF Injection, IsInjective
  <2>3. IsFiniteSet(0..N - 1) /\ Cardinality(0..N - 1) = N
    <3>1. 0 \in Int /\ N - 1 \in Int
      BY <1>1
    <3>2. /\ IsFiniteSet(0..N - 1)
          /\ Cardinality(0..N - 1) = IF 0 > N - 1 THEN 0 ELSE N - 1 - 0 + 1
      BY <3>1, FS_Interval
    <3>3. QED BY <1>1, <3>2
  <2> HIDE DEF rank
  <2>4. rank \in Surjection(S, 0..N - 1)
    BY <2>2, <2>3, FS_Injection
  <2>5. QED BY <2>4 DEF Surjection
<1>6. ASSUME NEW n \in 1..N
      PROVE  InOrder(S)[n] \in S /\ rank[InOrder(S)[n]] = n - 1
  <2>1. \E k \in S : Cardinality(smaller(k)) = n - 1
    <3>1. n - 1 \in 0..N - 1
      BY <1>1
    <3>2. PICK k \in S : rank[k] = n - 1
      BY <1>5, <3>1
    <3>3. QED BY <3>2
  <2>2. InOrder(S)[n] = CHOOSE k \in S : Cardinality(smaller(k)) = n - 1
    BY DEF InOrder
  <2>3. QED BY <2>1, <2>2
<1>7. DOMAIN InOrder(S) = 1..N
  BY DEF InOrder
<1> HIDE DEF rank
<1>8. \A m, n \in 1..N : InOrder(S)[m] = InOrder(S)[n] => m = n
  BY <1>1, <1>6
<1>9. ASSUME NEW k \in S
      PROVE  \E n \in 1..N : InOrder(S)[n] = k
  <2>1. rank[k] \in Nat /\ rank[k] + 1 \in 1..N
    <3>1. rank[k] \in 0..N - 1
      BY <1>2
    <3>2. QED BY <1>1, <3>1
  <2> DEFINE n == rank[k] + 1
  <2>2. InOrder(S)[n] \in S /\ rank[InOrder(S)[n]] = rank[k]
    BY <1>6, <2>1
  <2>3. InOrder(S)[n] = k
    BY <1>4, <2>2
  <2>4. QED BY <2>1, <2>3
<1>10. QED BY <1>1, <1>6, <1>7, <1>8, <1>9

\* Listed has the ids of the user's entries, each as often as they have it.
LEMMA ListedEffect ==
  ASSUME NEW n \in Nat, NEW es, DOMAIN es = 1..n, \A k \in 1..n : es[k].id \in IDs, NEW u
  PROVE  /\ Listed(es, u) \in Seq(IDs)
         /\ \A i : i \in Range(Listed(es, u)) <=>
                     \E k \in 1..n : es[k].user = u /\ es[k].id = i
         /\ (\A j, k \in 1..n : es[j].id = es[k].id => j = k) => IsInjective(Listed(es, u))
<1> DEFINE S == {k \in DOMAIN es : es[k].user = u}
           at == InOrder(S)
<1>1. S \in SUBSET (1..n) /\ S \in SUBSET Nat /\ IsFiniteSet(S)
  BY FS_Interval, FS_Subset
<1>2. Listed(es, u) = [m \in DOMAIN at |-> es[at[m]].id]
  BY DEF Listed
<1> HIDE DEF at
<1>3. /\ Cardinality(S) \in Nat /\ DOMAIN at = 1..Cardinality(S)
      /\ \A m \in 1..Cardinality(S) : at[m] \in S
      /\ \A l, m \in 1..Cardinality(S) : at[l] = at[m] => l = m
      /\ \A k \in S : \E m \in 1..Cardinality(S) : at[m] = k
  BY <1>1, InOrderEffect DEF at
<1>4. Listed(es, u) \in Seq(IDs)
  BY <1>1, <1>2, <1>3, IsASeq
<1>5. \A i : i \in Range(Listed(es, u)) <=> \E k \in 1..n : es[k].user = u /\ es[k].id = i
  <2>1. ASSUME NEW i, i \in Range(Listed(es, u))
        PROVE  \E k \in 1..n : es[k].user = u /\ es[k].id = i
    <3>1. PICK m \in 1..Cardinality(S) : i = es[at[m]].id
      <4>1. DOMAIN Listed(es, u) = 1..Cardinality(S)
        BY <1>2, <1>3
      <4>2. PICK m \in DOMAIN Listed(es, u) : i = Listed(es, u)[m]
        BY <2>1 DEF Range
      <4>3. QED BY <1>2, <1>3, <4>1, <4>2
    <3>2. QED BY <1>1, <1>3, <3>1
  <2>2. ASSUME NEW k \in 1..n, es[k].user = u
        PROVE  es[k].id \in Range(Listed(es, u))
    <3>1. PICK m \in 1..Cardinality(S) : at[m] = k
      BY <1>3, <2>2
    <3>2. QED BY <1>2, <1>3, <3>1 DEF Range
  <2>3. QED BY <2>1, <2>2
<1>6. ASSUME \A j, k \in 1..n : es[j].id = es[k].id => j = k
      PROVE  IsInjective(Listed(es, u))
  BY <1>1, <1>2, <1>3, <1>6 DEF IsInjective
<1>7. QED BY <1>4, <1>5, <1>6

\* Sequences without a repetition, and without a member in common.
LEMMA ConcatInjective ==
  ASSUME NEW T, NEW s \in Seq(T), NEW t \in Seq(T),
         IsInjective(s), IsInjective(t), Range(s) \cap Range(t) = {}
  PROVE  s \o t \in Seq(T) /\ IsInjective(s \o t)
<1>1. /\ s \o t \in Seq(T) /\ Len(s \o t) = Len(s) + Len(t)
      /\ \A k \in 1..Len(s) + Len(t) :
           (s \o t)[k] = IF k <= Len(s) THEN s[k] ELSE t[k - Len(s)]
      /\ DOMAIN (s \o t) = 1..Len(s) + Len(t)
  OBVIOUS
<1>2. /\ Len(s) \in Nat /\ DOMAIN s = 1..Len(s)
      /\ Len(t) \in Nat /\ DOMAIN t = 1..Len(t)
  OBVIOUS
<1>3. \A j \in 1..Len(s), k \in 1..Len(t) : s[j] # t[k]
  BY <1>2 DEF Range
<1>4. SUFFICES ASSUME NEW j \in 1..Len(s) + Len(t), NEW k \in 1..Len(s) + Len(t),
                      (s \o t)[j] = (s \o t)[k]
               PROVE  j = k
  BY <1>1 DEF IsInjective
<1>5. CASE j <= Len(s) /\ k <= Len(s)
  BY <1>1, <1>2, <1>4, <1>5 DEF IsInjective
<1>6. CASE ~(j <= Len(s)) /\ ~(k <= Len(s))
  <2>1. j - Len(s) \in 1..Len(t) /\ k - Len(s) \in 1..Len(t)
    BY <1>2, <1>6
  <2>2. t[j - Len(s)] = t[k - Len(s)]
    BY <1>1, <1>4, <1>6
  <2>3. QED BY <1>2, <2>1, <2>2 DEF IsInjective
<1>7. CASE j <= Len(s) /\ ~(k <= Len(s))
  <2>1. j \in 1..Len(s) /\ k - Len(s) \in 1..Len(t)
    BY <1>2, <1>7
  <2>2. QED BY <1>1, <1>3, <1>4, <1>7, <2>1
<1>8. CASE ~(j <= Len(s)) /\ k <= Len(s)
  <2>1. k \in 1..Len(s) /\ j - Len(s) \in 1..Len(t)
    BY <1>2, <1>8
  <2>2. QED BY <1>1, <1>3, <1>4, <1>8, <2>1
<1>9. QED BY <1>5, <1>6, <1>7, <1>8

\* Whatever the ids of a batch, the listings stay sequences of ids.
LEMMA SaveBatchLists ==
  ASSUME userURLs \in [Users -> Seq(IDs)],
         NEW n \in Nat, NEW es \in [1..n -> Entry], SaveBatch(es)
  PROVE  userURLs' \in [Users -> Seq(IDs)]
<1>1. \A k \in 1..n : es[k].id \in IDs
  BY DEF Entry
<1>2. ASSUME NEW u \in Users
      PROVE  userURLs[u] \o Listed(es, u) \in Seq(IDs)
  <2>1. Listed(es, u) \in Seq(IDs)
    BY <1>1, ListedEffect
  <2>2. QED BY <2>1
<1>3. QED BY <1>2 DEF SaveBatch, Put

\* A link has an owner exactly if it has a url.
Owned == \A i \in IDs : data[i] # None <=> owners[i] # None

\* A batch with ids of its own appends to each user's listing what the user owns now
\* and did not own before.
LEMMA SaveBatchListing ==
  ASSUME RepoType, Owned, ListingExact,
         NEW n \in Nat, NEW es \in [1..n -> Entry], SaveBatch(es),
         \A j, k \in 1..n : es[j].id = es[k].id => j = k
  PROVE  RepoType' /\ Owned' /\ ListingExact'
<1>1. MapsType /\ Put(es)
  BY DEF RepoType, MapsType, SaveBatch
<1>2. MapsType'
  BY <1>1, PutEffect
<1>3. \A k \in 1..n : es[k].id \in IDs /\ es[k].url \in URLs /\ es[k].user \in Owner
  BY DEF Entry
<1>4. \A k \in 1..n : data[es[k].id] = None /\ owners[es[k].id] = None
  BY <1>1, <1>3, SaveBatchIsNew DEF Owned
<1>5. ASSUME NEW i \in IDs
      PROVE  \/ \E k \in 1..n : /\ es[k].id = i /\ data'[i] = es[k].url
                                /\ owners'[i] = es[k].user
             \/ /\ \A k \in 1..n : es[k].id # i
                /\ data'[i] = data[i] /\ owners'[i] = owners[i]
  BY <1>1, PutEffect
<1>6. Owned'
  <2>1. None \notin URLs /\ None \notin Owner
    BY NoneAssumption DEF Owner
  <2>2. QED BY <1>3, <1>5, <2>1 DEF Owned
<1>7. ASSUME NEW u \in Users
      PROVE  /\ userURLs'[u] \in Seq(IDs)
             /\ IsInjective(userURLs'[u])
             /\ Range(userURLs'[u]) = {i \in IDs : owners'[i] = u}
  <2> DEFINE old == userURLs[u]
             new == Listed(es, u)
  <2>1. old \in Seq(IDs) /\ IsInjective(old) /\ Range(old) = {i \in IDs : owners[i] = u}
    BY DEF RepoType, ListingExact
  <2>2. /\ new \in Seq(IDs) /\ IsInjective(new)
        /\ \A i : i \in Range(new) <=> \E k \in 1..n : es[k].user = u /\ es[k].id = i
    BY <1>3, ListedEffect
  <2>3. userURLs'[u] = old \o new
    BY <1>1 DEF Put
  <2>4. u # None
    BY NoneAssumption
  <2> HIDE DEF old, new
  <2>5. Range(old) \cap Range(new) = {}
    BY <1>4, <2>1, <2>2, <2>4
  <2>6. old \o new \in Seq(IDs) /\ IsInjective(old \o new)
    BY <2>1, <2>2, <2>5, ConcatInjective
  <2>7. Range(old \o new) = Range(old) \cup Range(new)
    BY <2>1, <2>2, RangeConcatenation
  <2>8. ASSUME NEW i \in IDs
        PROVE  owners'[i] = u <=> i \in Range(old) \/ i \in Range(new)
    BY <1>3, <1>4, <1>5, <2>1, <2>2, <2>4
  <2>9. Range(old) \subseteq IDs /\ Range(new) \subseteq IDs
    BY <1>3, <2>1, <2>2
  <2>10. QED BY <2>3, <2>6, <2>7, <2>8, <2>9
<1>8. userURLs' \in [Users -> Seq(IDs)]
  BY <1>1, <1>7 DEF Put
<1>9. QED BY <1>2, <1>6, <1>7, <1>8 DEF RepoType, MapsType, ListingExact
=============================================================================
