--------------------------- MODULE ShortenerProofs ---------------------------
(***************************************************************************)
(* Proofs about Shortener, for any number of requests, ids, urls, users    *)
(* and retries and batches of any length.                                  *)
(*                                                                         *)
(* Base is the type of the variables the properties are about and where a  *)
(* request is in its urls.  The rest is cumulative: what holds of every    *)
(* draw of ids, what needs the ids of a batch to differ from each other    *)
(* (DrawApart), and what needs its urls to differ as well.                 *)
(***************************************************************************)
EXTENDS Shortener, MemoryRepositoryProofs, SequenceTheorems

\* TypeOK but for the listings, the attempts and the bound of item.
RequestType ==
  /\ MapsType
  /\ phase \in [Requests -> {"idle", "batch", "save", "lookup", "done"}]
  /\ isBatch \in [Requests -> BOOLEAN]
  /\ urls \in [Requests -> Seq(URLs)]
  /\ user \in [Requests -> Owner]
  /\ ids \in [Requests -> Seq(IDs)]
  /\ item \in [Requests -> Nat \ {0}]
  /\ results \in [Requests -> Seq(IDs)]
  /\ outcome \in [Requests -> {"none", "ok", "conflict", "error"}]
  /\ \A r \in Requests : Len(ids[r]) = Len(urls[r]) /\ Len(results[r]) = Len(urls[r])

\* A request that is under way has no outcome yet and is at one of its urls.
Progress ==
  \A r \in Requests :
    /\ phase[r] # "done" => outcome[r] = "none"
    /\ phase[r] \in {"idle", "batch"} => item[r] = 1
    /\ phase[r] \in {"batch", "save", "lookup"} => item[r] <= Len(urls[r])

Base == RequestType /\ Progress

\* What no step takes back.
Keeps ==
  /\ \A i \in IDs : data[i] # None => data'[i] = data[i] /\ owners'[i] = owners[i]
  /\ \A u \in URLs : reverse[u] # None => reverse'[u] = reverse[u]
  /\ deleted \subseteq deleted'

\* The urls done with so far, and all of them in the end, have their link.
Resolved(r) ==
  /\ phase[r] \in {"save", "lookup"} =>
       \A k \in 1..item[r] - 1 : data[results[r][k]] = urls[r][k]
  /\ Answered(r) =>
       \A k \in 1..Len(urls[r]) : data[results[r][k]] = urls[r][k]

\* The ids of a batch are those to be answered, and differ.
Drawn(r) ==
  phase[r] = "batch" =>
    /\ results[r] = ids[r]
    /\ \A j, k \in 1..Len(ids[r]) : ids[r][j] = ids[r][k] => j = k

ResolveInv ==
  /\ ReverseRight
  /\ \A r \in Requests : Resolved(r) /\ Drawn(r)

----------------------------------------------------------------------------
(* The pieces of a step                                                    *)

\* The entries of a request are entries of the repository.
LEMMA EntriesType ==
  ASSUME RequestType, NEW r \in Requests
  PROVE  /\ EntriesOf(r) \in [1..Len(urls[r]) -> Entry]
         /\ \A k \in 1..Len(urls[r]) :
              /\ EntriesOf(r)[k] = EntryOf(r, k)
              /\ EntryOf(r, k) \in Entry
              /\ EntryOf(r, k).id = ids[r][k]
              /\ EntryOf(r, k).url = urls[r][k]
              /\ ids[r][k] \in IDs
              /\ urls[r][k] \in URLs
<1>1. urls[r] \in Seq(URLs) /\ ids[r] \in Seq(IDs) /\ user[r] \in Owner
      /\ Len(ids[r]) = Len(urls[r])
  BY DEF RequestType
<1>2. DOMAIN urls[r] = 1..Len(urls[r])
  BY <1>1
<1>3. ASSUME NEW k \in 1..Len(urls[r])
      PROVE  urls[r][k] \in URLs /\ ids[r][k] \in IDs
  BY <1>1, <1>3
<1>4. QED BY <1>1, <1>2, <1>3 DEF EntriesOf, EntryOf, Entry

\* A draw has an id for each url.
LEMMA DrawType ==
  ASSUME RequestType, NEW r \in Requests, NEW n \in Nat, Draw(r, n)
  PROVE  /\ ids' \in [Requests -> Seq(IDs)]
         /\ results' \in [Requests -> Seq(IDs)]
         /\ Len(ids'[r]) = n
         /\ ids'[r] = results'[r]
         /\ \A s \in Requests : s # r => ids'[s] = ids[s] /\ results'[s] = results[s]
         /\ DrawApart => \A j, k \in 1..n : ids'[r][j] = ids'[r][k] => j = k
<1>1. PICK d \in Draws(n) : /\ ids' = [ids EXCEPT ![r] = d]
                            /\ results' = [results EXCEPT ![r] = d]
  BY DEF Draw
<1>2. d \in [1..n -> IDs] /\ (DrawApart => IsInjective(d))
  BY DEF Draws
<1>3. d \in Seq(IDs) /\ Len(d) = n /\ DOMAIN d = 1..n
  BY <1>2
<1>4. ids \in [Requests -> Seq(IDs)] /\ results \in [Requests -> Seq(IDs)]
  BY DEF RequestType
<1>5. DrawApart => \A j, k \in 1..n : d[j] = d[k] => j = k
  BY <1>2, <1>3 DEF IsInjective
<1>6. QED BY <1>1, <1>3, <1>4, <1>5

\* An answer is one id, written at the url at hand.
LEMMA AnswerType ==
  ASSUME RequestType, NEW r \in Requests, item[r] <= Len(urls[r]),
         NEW id \in IDs, NEW o, Answer(r, id, o)
  PROVE  /\ results' \in [Requests -> Seq(IDs)]
         /\ Len(results'[r]) = Len(results[r])
         /\ results'[r][item[r]] = id
         /\ \A k \in 1..Len(urls[r]) : k # item[r] => results'[r][k] = results[r][k]
         /\ \A s \in Requests : s # r => results'[s] = results[s]
<1>1. results \in [Requests -> Seq(IDs)] /\ item[r] \in 1..Len(results[r])
      /\ Len(results[r]) = Len(urls[r])
  BY DEF RequestType
<1>2. results' = [results EXCEPT ![r][item[r]] = id]
  BY DEF Answer
<1>3. [results[r] EXCEPT ![item[r]] = id] \in Seq(IDs)
      /\ Len([results[r] EXCEPT ![item[r]] = id]) = Len(results[r])
  BY <1>1
<1>4. QED BY <1>1, <1>2, <1>3

\* A call has one url at least, and a batch is one of Batches.
LEMMA BatchType ==
  ASSUME NEW us \in Batches
  PROVE  us \in Seq(URLs) /\ Len(us) \in Nat /\ Len(us) >= 1 /\ Len(us) <= MaxBatch
<1>1. PICK n \in 1..MaxBatch : us \in [1..n -> URLs]
  BY BatchesAssumption
<1>2. n \in Nat /\ n >= 1
  BY MaxBatchAssumption
<1>3. QED BY <1>1, <1>2

----------------------------------------------------------------------------
(* Where a request is                                                      *)

\* Saving the entry at hand, or all of a batch, keeps what is stored.
LEMMA SavedKeeps ==
  ASSUME Base, NEW r \in Requests,
         \/ phase[r] = "batch" /\ SaveBatch(EntriesOf(r))
         \/ phase[r] = "save" /\ Save(EntryOf(r, item[r]))
  PROVE  MapsType' /\ Keeps
<1>1. MapsType /\ Len(urls[r]) \in Nat
  BY DEF Base, RequestType
<1>2. CASE phase[r] = "batch" /\ SaveBatch(EntriesOf(r))
  <2>1. EntriesOf(r) \in [1..Len(urls[r]) -> Entry]
    BY EntriesType DEF Base
  <2>2. QED BY <1>1, <1>2, <2>1, SaveBatchKeeps DEF Keeps
<1>3. CASE phase[r] = "save" /\ Save(EntryOf(r, item[r]))
  <2>1. item[r] \in 1..Len(urls[r])
    BY <1>3 DEF Base, RequestType, Progress
  <2>2. EntryOf(r, item[r]) \in Entry
    BY <2>1, EntriesType DEF Base
  <2>3. <<EntryOf(r, item[r])>> \in [1..1 -> Entry]
    BY <2>2
  <2>4. SaveBatch(<<EntryOf(r, item[r])>>)
    BY <1>3 DEF Save
  <2>5. QED BY <1>1, <2>3, <2>4, SaveBatchKeeps DEF Keeps
<1>4. QED BY <1>2, <1>3

\* A new request.
LEMMA SubmitBase ==
  ASSUME Base, NEW r \in Requests, NEW batch \in BOOLEAN, NEW us \in Seq(URLs),
         Len(us) >= 1, NEW u \in Owner, Submit(r, batch, us, u)
  PROVE  Base' /\ Keeps
<1>1. Len(us) \in Nat
  OBVIOUS
<1>2. /\ ids' \in [Requests -> Seq(IDs)]
      /\ results' \in [Requests -> Seq(IDs)]
      /\ Len(ids'[r]) = Len(us)
      /\ ids'[r] = results'[r]
      /\ \A s \in Requests : s # r => ids'[s] = ids[s] /\ results'[s] = results[s]
  BY <1>1, DrawType DEF Submit, Base
<1>3. RequestType'
  BY <1>2 DEF Submit, Base, RequestType, MapsType, repoVars
<1>4. Progress'
  BY <1>1 DEF Submit, Base, RequestType, Progress
<1>5. Keeps
  BY DEF Submit, Keeps, repoVars
<1>6. QED BY <1>3, <1>4, <1>5 DEF Base

\* A url answered.
LEMMA AnswerBase ==
  ASSUME Base, NEW r \in Requests, phase[r] \in {"save", "lookup"},
         NEW id \in IDs, NEW o \in {"ok", "conflict"}, Answer(r, id, o),
         MapsType', UNCHANGED <<isBatch, urls, user, ids>>
  PROVE  Base'
<1>1. item[r] \in 1..Len(urls[r]) /\ Len(urls[r]) \in Nat
  BY DEF Base, RequestType, Progress
<1>2. /\ results' \in [Requests -> Seq(IDs)]
      /\ \A s \in Requests : Len(results'[s]) = Len(results[s])
  BY <1>1, AnswerType DEF Base
<1>3. RequestType'
  <2>1. CASE item[r] = Len(urls[r])
    BY <1>1, <1>2, <2>1 DEF Answer, Finish, Base, RequestType
  <2>2. CASE item[r] # Len(urls[r])
    <3>1. item' \in [Requests -> Nat \ {0}]
      <4>1. item' = [item EXCEPT ![r] = item[r] + 1]
        BY <2>2 DEF Answer
      <4>2. item \in [Requests -> Nat \ {0}] /\ item[r] + 1 \in Nat \ {0}
        BY DEF Base, RequestType
      <4>3. QED BY <4>1, <4>2
    <3>2. phase' \in [Requests -> {"idle", "batch", "save", "lookup", "done"}]
          /\ outcome' = outcome
      BY <2>2 DEF Answer, Base, RequestType
    <3>3. QED BY <1>2, <3>1, <3>2 DEF Base, RequestType
  <2>3. QED BY <2>1, <2>2
<1>4. Progress'
  BY <1>1 DEF Answer, Finish, Base, RequestType, Progress
<1>5. QED BY <1>3, <1>4 DEF Base

\* Every step keeps Base, and never takes back a link.
LEMMA BaseStep ==
  ASSUME Base, [Next]_vars
  PROVE  Base' /\ Keeps
<1>1. ASSUME NEW r \in Requests, Shorten(r)
      PROVE  Base' /\ Keeps
  <2>1. PICK url \in URLs, u \in Owner : Submit(r, FALSE, <<url>>, u)
    BY <1>1 DEF Shorten
  <2>2. <<url>> \in Seq(URLs) /\ Len(<<url>>) >= 1
    OBVIOUS
  <2>3. QED BY <2>1, <2>2, SubmitBase
<1>2. ASSUME NEW r \in Requests, ShortenBatch(r)
      PROVE  Base' /\ Keeps
  <2>1. PICK us \in Batches, u \in Users : Submit(r, TRUE, us, u)
    BY <1>2 DEF ShortenBatch
  <2>2. us \in Seq(URLs) /\ Len(us) >= 1 /\ u \in Owner
    BY BatchType DEF Owner
  <2>3. QED BY <2>1, <2>2, SubmitBase
<1>3. ASSUME NEW r \in Requests, SaveStored(r)
      PROVE  Base' /\ Keeps
  <2>1. MapsType' /\ Keeps
    BY <1>3, SavedKeeps DEF SaveStored
  <2>2. item[r] \in 1..Len(urls[r])
    BY <1>3 DEF SaveStored, Base, RequestType, Progress
  <2>3. ids[r][item[r]] \in IDs
    BY <2>2, EntriesType DEF Base
  <2>4. QED BY <1>3, <2>1, <2>3, AnswerBase DEF SaveStored
<1>4. ASSUME NEW r \in Requests, SaveURLExists(r)
      PROVE  Base' /\ Keeps
  BY <1>4 DEF SaveURLExists, Base, RequestType, MapsType, Progress, Keeps, repoVars
<1>5. ASSUME NEW r \in Requests, SaveConflict(r)
      PROVE  Base' /\ Keeps
  <2>1. Keeps /\ MapsType'
    BY <1>5 DEF SaveConflict, Base, RequestType, MapsType, Keeps, repoVars
  <2>2. item[r] \in 1..Len(ids[r]) /\ ids[r] \in Seq(IDs)
    BY <1>5 DEF SaveConflict, Base, RequestType, Progress
  <2>3. CASE LastAttempt(r)
    BY <1>5, <2>1, <2>3 DEF SaveConflict, Finish, Base, RequestType, Progress
  <2>4. CASE ~LastAttempt(r)
    <3>1. PICK i \in IDs : ids' = [ids EXCEPT ![r][item[r]] = i]
      BY <1>5, <2>4 DEF SaveConflict
    <3>2. [ids[r] EXCEPT ![item[r]] = i] \in Seq(IDs)
          /\ Len([ids[r] EXCEPT ![item[r]] = i]) = Len(ids[r])
      BY <2>2
    <3>3. ids' \in [Requests -> Seq(IDs)] /\ \A s \in Requests : Len(ids'[s]) = Len(ids[s])
      BY <3>1, <3>2 DEF Base, RequestType
    <3>4. QED
      BY <1>5, <2>1, <2>4, <3>3 DEF SaveConflict, Base, RequestType, Progress
  <2>5. QED BY <2>3, <2>4
<1>6. ASSUME NEW r \in Requests, Lookup(r)
      PROVE  Base' /\ Keeps
  <2>1. Keeps /\ MapsType'
    BY <1>6 DEF Lookup, Base, RequestType, MapsType, Keeps, repoVars
  <2>2. item[r] \in 1..Len(urls[r]) /\ urls[r] \in Seq(URLs)
    BY <1>6 DEF Lookup, Base, RequestType, Progress
  <2>3. reverse[urls[r][item[r]]] \in IDs \cup {None}
    BY <2>2 DEF Base, RequestType, MapsType
  <2>4. CASE reverse[urls[r][item[r]]] = None
    BY <1>6, <2>1, <2>4 DEF Lookup, GetByOriginalURL, Finish, Base, RequestType, Progress
  <2>5. CASE reverse[urls[r][item[r]]] # None
    <3>1. ExistingOutcome(r) \in {"ok", "conflict"}
      BY DEF ExistingOutcome
    <3>2. Answer(r, reverse[urls[r][item[r]]], ExistingOutcome(r))
      BY <1>6, <2>5 DEF Lookup, GetByOriginalURL
    <3>3. QED BY <1>6, <2>1, <2>3, <2>5, <3>1, <3>2, AnswerBase DEF Lookup
  <2>6. QED BY <2>4, <2>5
<1>7. ASSUME NEW r \in Requests, BatchStored(r)
      PROVE  Base' /\ Keeps
  <2>1. MapsType' /\ Keeps
    BY <1>7, SavedKeeps DEF BatchStored
  <2>2. QED BY <1>7, <2>1 DEF BatchStored, Finish, Base, RequestType, Progress
<1>8. ASSUME NEW r \in Requests, BatchURLExists(r)
      PROVE  Base' /\ Keeps
  BY <1>8 DEF BatchURLExists, Base, RequestType, MapsType, Progress, Keeps, repoVars
<1>9. ASSUME NEW r \in Requests, BatchConflict(r)
      PROVE  Base' /\ Keeps
  <2>1. Keeps /\ MapsType'
    BY <1>9 DEF BatchConflict, Base, RequestType, MapsType, Keeps, repoVars
  <2>2. CASE LastAttempt(r)
    BY <1>9, <2>1, <2>2 DEF BatchConflict, Finish, Base, RequestType, Progress
  <2>3. CASE ~LastAttempt(r)
    <3>1. Len(urls[r]) \in Nat
      BY DEF Base, RequestType
    <3>2. /\ ids' \in [Requests -> Seq(IDs)]
          /\ results' \in [Requests -> Seq(IDs)]
          /\ \A s \in Requests : Len(ids'[s]) = Len(ids[s]) /\ Len(results'[s]) = Len(results[s])
      BY <1>9, <2>3, <3>1, DrawType DEF BatchConflict, Base, RequestType
    <3>3. QED
      BY <1>9, <2>1, <2>3, <3>2 DEF BatchConflict, Base, RequestType, Progress
  <2>4. QED BY <2>2, <2>3
<1>10. ASSUME NEW r \in Requests, Fail(r)
       PROVE  Base' /\ Keeps
  BY <1>10 DEF Fail, Finish, Base, RequestType, MapsType, Progress, Keeps, repoVars
<1>11. CASE WorkerDeletes
  BY <1>11 DEF WorkerDeletes, DeleteUserURLs, requestVars, Base, RequestType,
               MapsType, Progress, Keeps
<1>12. CASE UNCHANGED vars
  BY <1>12 DEF vars, repoVars, requestVars, Base, RequestType, MapsType, Progress, Keeps
<1>13. QED
  BY <1>1, <1>2, <1>3, <1>4, <1>5, <1>6, <1>7, <1>8, <1>9, <1>10, <1>11, <1>12
  DEF Next, RequestStep

LEMMA BaseInit == Init => Base
BY DEF Init, RepoInit, Base, RequestType, MapsType, Progress, Owner

\* A stored link is never redirected, re-owned or brought back, whatever the
\* batches and however the ids collide.
THEOREM LinkImmutableHolds == Spec => LinkImmutable
<1>1. Init => Base
  BY BaseInit
<1>2. Base /\ [Next]_vars => Base'
  BY BaseStep
<1>3. Base /\ [Next]_vars => [KeepsLinks]_vars
  BY BaseStep DEF Keeps, KeepsLinks
<1>4. QED BY <1>1, <1>2, <1>3, PTL DEF Spec, LinkImmutable

----------------------------------------------------------------------------
(* Types and bounds                                                        *)

\* No request has more urls, or gets farther in them, than a batch is long, and
\* the attempts stop before the last one is repeated.
Bounds ==
  /\ attempt \in [Requests -> 0..MaxSaveRetries - 1]
  /\ \A r \in Requests : item[r] <= MaxBatch /\ Len(urls[r]) <= MaxBatch
  /\ userURLs \in [Users -> Seq(IDs)]

\* A url answered starts the count of attempts for the next one.
LEMMA AnswerBounds ==
  ASSUME Base, Bounds, NEW r \in Requests, phase[r] \in {"save", "lookup"},
         NEW id, NEW o, Answer(r, id, o), UNCHANGED urls
  PROVE  /\ attempt' \in [Requests -> 0..MaxSaveRetries - 1]
         /\ \A s \in Requests : item'[s] <= MaxBatch /\ Len(urls'[s]) <= MaxBatch
<1>1. MaxSaveRetries \in Nat \ {0} /\ MaxBatch \in Nat
  BY MaxSaveRetriesAssumption, MaxBatchAssumption
<1>2. item[r] <= Len(urls[r]) /\ item[r] \in Nat /\ Len(urls[r]) \in Nat
      /\ item \in [Requests -> Nat \ {0}]
  BY DEF Base, RequestType, Progress
<1>3. CASE item[r] = Len(urls[r])
  BY <1>3 DEF Answer, Bounds
<1>4. CASE item[r] # Len(urls[r])
  <2>1. item' = [item EXCEPT ![r] = item[r] + 1] /\ attempt' = [attempt EXCEPT ![r] = 0]
    BY <1>4 DEF Answer
  <2>2. item[r] + 1 <= Len(urls[r])
    BY <1>2, <1>4
  <2>3. item[r] + 1 <= MaxBatch
    BY <1>1, <1>2, <2>2 DEF Bounds
  <2>4. QED BY <1>1, <1>2, <2>1, <2>3 DEF Bounds
<1>5. QED BY <1>3, <1>4

\* The listings stay sequences of ids, whatever is saved.
LEMMA ListsStep ==
  ASSUME Base, Bounds, [Next]_vars
  PROVE  userURLs' \in [Users -> Seq(IDs)]
<1>1. ASSUME NEW r \in Requests, SaveStored(r)
      PROVE  userURLs' \in [Users -> Seq(IDs)]
  <2>1. item[r] \in 1..Len(urls[r])
    BY <1>1 DEF SaveStored, Base, RequestType, Progress
  <2>2. <<EntryOf(r, item[r])>> \in [1..1 -> Entry]
    BY <2>1, EntriesType DEF Base
  <2>3. SaveBatch(<<EntryOf(r, item[r])>>)
    BY <1>1 DEF SaveStored, Save
  <2>4. QED BY <2>2, <2>3, SaveBatchLists DEF Bounds
<1>2. ASSUME NEW r \in Requests, BatchStored(r)
      PROVE  userURLs' \in [Users -> Seq(IDs)]
  <2>1. EntriesOf(r) \in [1..Len(urls[r]) -> Entry] /\ Len(urls[r]) \in Nat
    BY EntriesType DEF Base, RequestType
  <2>2. QED BY <1>2, <2>1, SaveBatchLists DEF BatchStored, Bounds
<1>3. ASSUME NEW r \in Requests,
             \/ Shorten(r) \/ ShortenBatch(r) \/ SaveURLExists(r) \/ SaveConflict(r)
             \/ Lookup(r) \/ BatchURLExists(r) \/ BatchConflict(r) \/ Fail(r)
      PROVE  userURLs' = userURLs
  BY <1>3 DEF Shorten, ShortenBatch, Submit, SaveURLExists, SaveConflict, Lookup,
     BatchURLExists, BatchConflict, Fail, repoVars
<1>4. WorkerDeletes \/ UNCHANGED vars => userURLs' = userURLs
  BY DEF WorkerDeletes, DeleteUserURLs, vars, repoVars
<1>5. QED BY <1>1, <1>2, <1>3, <1>4 DEF Next, RequestStep, Bounds

\* The attempts, and the urls, of every request stay within their bounds.
LEMMA BoundsStep ==
  ASSUME Base, Bounds, [Next]_vars
  PROVE  Bounds'
<1> DEFINE InBounds == /\ attempt' \in [Requests -> 0..MaxSaveRetries - 1]
                       /\ \A r \in Requests : item'[r] <= MaxBatch /\ Len(urls'[r]) <= MaxBatch
<1>1. MaxSaveRetries \in Nat \ {0} /\ MaxBatch \in Nat \ {0}
  BY MaxSaveRetriesAssumption, MaxBatchAssumption
<1>2. ASSUME NEW r \in Requests, Shorten(r) \/ ShortenBatch(r)
      PROVE  InBounds
  <2>1. PICK batch, us, u : Submit(r, batch, us, u) /\ Len(us) <= MaxBatch
    <3>1. CASE Shorten(r)
      <4>1. PICK url \in URLs, u \in Owner : Submit(r, FALSE, <<url>>, u)
        BY <3>1 DEF Shorten
      <4>2. Len(<<url>>) <= MaxBatch
        BY <1>1
      <4>3. QED BY <4>1, <4>2
    <3>2. CASE ShortenBatch(r)
      BY <3>2, BatchType DEF ShortenBatch
    <3>3. QED BY <1>2, <3>1, <3>2
  <2>2. QED BY <2>1 DEF Submit, Base, RequestType, Bounds
<1>3. ASSUME NEW r \in Requests, SaveStored(r)
      PROVE  InBounds
  BY <1>3, AnswerBounds DEF SaveStored
<1>4. ASSUME NEW r \in Requests, Lookup(r)
      PROVE  InBounds
  <2>1. CASE reverse[urls[r][item[r]]] = None
    BY <1>4, <2>1 DEF Lookup, GetByOriginalURL, Bounds
  <2>2. CASE reverse[urls[r][item[r]]] # None
    BY <1>4, <2>2, AnswerBounds DEF Lookup, GetByOriginalURL
  <2>3. QED BY <2>1, <2>2
<1>5. ASSUME NEW r \in Requests, SaveConflict(r) \/ BatchConflict(r)
      PROVE  InBounds
  <2>1. UNCHANGED <<urls, item>>
    BY <1>5 DEF SaveConflict, BatchConflict
  <2>2. CASE LastAttempt(r)
    BY <1>5, <2>1, <2>2 DEF SaveConflict, BatchConflict, Bounds
  <2>3. CASE ~LastAttempt(r)
    <3>1. attempt' = [attempt EXCEPT ![r] = attempt[r] + 1]
      BY <1>5, <2>3 DEF SaveConflict, BatchConflict, NextAttempt
    <3>2. attempt[r] + 1 \in 0..MaxSaveRetries - 1
      BY <1>1, <2>3 DEF LastAttempt, Bounds
    <3>3. QED BY <2>1, <3>1, <3>2 DEF Bounds
  <2>4. QED BY <2>2, <2>3
<1>6. ASSUME NEW r \in Requests,
             \/ SaveURLExists(r) \/ BatchStored(r) \/ BatchURLExists(r) \/ Fail(r)
      PROVE  InBounds
  BY <1>1, <1>6 DEF SaveURLExists, BatchStored, BatchURLExists, Fail, Bounds
<1>7. WorkerDeletes \/ UNCHANGED vars => InBounds
  BY DEF WorkerDeletes, vars, requestVars, Bounds
<1>8. InBounds
  BY <1>2, <1>3, <1>4, <1>5, <1>6, <1>7 DEF Next, RequestStep
<1>9. QED BY <1>8, ListsStep DEF Bounds

LEMMA BoundsInit == Init => Bounds
<1>1. MaxSaveRetries \in Nat \ {0} /\ MaxBatch \in Nat \ {0}
  BY MaxSaveRetriesAssumption, MaxBatchAssumption
<1>2. QED BY <1>1 DEF Init, RepoInit, Bounds

\* Every variable keeps its type; among others, no request tries a save more often
\* than maxSaveRetries, and each has as many answers as urls.
THEOREM TypeCorrect == Spec => []TypeOK
<1>1. Init => Base /\ Bounds
  BY BaseInit, BoundsInit
<1>2. Base /\ Bounds /\ [Next]_vars => Base' /\ Bounds'
  BY BaseStep, BoundsStep
<1>3. ASSUME Base, Bounds
      PROVE  TypeOK
  <2>1. item \in [Requests -> 1..MaxBatch]
    BY <1>3, MaxBatchAssumption DEF Base, RequestType, Bounds
  <2>2. QED BY <1>3, <2>1 DEF Base, RequestType, MapsType, Bounds, TypeOK, RepoType
<1>4. QED BY <1>1, <1>2, <1>3, PTL DEF Spec

----------------------------------------------------------------------------
(* How long a request takes                                                *)

\* The saves that the url at hand and those after it have left, if every one of
\* them meets a taken id each time.
Saves(r) == MaxSaveRetries * (Len(urls[r]) - item[r]) + MaxSaveRetries - attempt[r]

\* The calls of the repository a request has left at most: those of the batch, and for
\* each save a lookup.
Work(r) ==
  CASE phase[r] = "batch"  -> 2 * (MaxSaveRetries * Len(urls[r])) + MaxSaveRetries - attempt[r]
    [] phase[r] = "save"   -> 2 * Saves(r)
    [] phase[r] = "lookup" -> 2 * Saves(r) - 1
    [] OTHER               -> 0

\* Each call of the repository leaves fewer of them, and nothing that others do adds any.
WorkDecreases ==
  [][\A r \in Requests : phase[r] # "idle" =>
       /\ RequestStep(r) => Work(r)' < Work(r)
       /\ Work(r)' = Work(r) \/ Work(r)' < Work(r)]_vars

\* A product with the number of retries, for the numbers at hand.
LEMMA Times ==
  ASSUME NEW k \in Nat
  PROVE  /\ MaxSaveRetries * k \in Nat
         /\ MaxSaveRetries * (k + 1) = MaxSaveRetries * k + MaxSaveRetries
BY MaxSaveRetriesAssumption

\* Where a request is, as numbers.
LEMMA WorkFacts ==
  ASSUME Base, Bounds, NEW r \in Requests
  PROVE  /\ attempt[r] \in Nat /\ attempt[r] < MaxSaveRetries /\ MaxSaveRetries \in Nat
         /\ Len(urls[r]) \in Nat /\ item[r] \in Nat
         /\ phase[r] \in {"batch", "save", "lookup"} => Len(urls[r]) - item[r] \in Nat
         /\ phase[r] \in {"save", "lookup"} => Saves(r) \in Nat /\ Saves(r) > 0
         /\ phase[r] \in {"batch", "save", "lookup"} => Work(r) \in Nat /\ Work(r) > 0
         /\ phase[r] \in {"idle", "done"} => Work(r) = 0
<1>1. /\ attempt[r] \in Nat /\ attempt[r] < MaxSaveRetries /\ MaxSaveRetries \in Nat
      /\ Len(urls[r]) \in Nat /\ item[r] \in Nat
  BY MaxSaveRetriesAssumption DEF Base, RequestType, Bounds
<1>2. phase[r] \in {"batch", "save", "lookup"} => Len(urls[r]) - item[r] \in Nat
  BY <1>1 DEF Base, Progress
<1>3. phase[r] \in {"save", "lookup"} => Saves(r) \in Nat /\ Saves(r) > 0
  <2> DEFINE p == MaxSaveRetries * (Len(urls[r]) - item[r])
  <2>1. SUFFICES ASSUME phase[r] \in {"save", "lookup"} PROVE Saves(r) \in Nat /\ Saves(r) > 0
    OBVIOUS
  <2>2. p \in Nat
    BY <1>2, <2>1, Times
  <2>3. Saves(r) = p + MaxSaveRetries - attempt[r]
    BY DEF Saves
  <2> HIDE DEF p
  <2>4. QED BY <1>1, <2>2, <2>3
<1>4. phase[r] = "batch" => Work(r) \in Nat /\ Work(r) > 0
  <2> DEFINE p == MaxSaveRetries * Len(urls[r])
  <2>1. p \in Nat
    BY <1>1, Times
  <2>2. phase[r] = "batch" => Work(r) = 2 * p + MaxSaveRetries - attempt[r]
    BY DEF Work
  <2> HIDE DEF p
  <2>3. QED BY <1>1, <2>1, <2>2
<1>5. phase[r] \in {"save", "lookup"} => Work(r) \in Nat /\ Work(r) > 0
  BY <1>3 DEF Work
<1>6. phase[r] \in {"idle", "done"} => Work(r) = 0
  BY DEF Work
<1>7. QED BY <1>1, <1>2, <1>3, <1>4, <1>5, <1>6

\* An answer leaves the urls after the one at hand.
LEMMA AnswerWork ==
  ASSUME Base, Bounds, NEW r \in Requests, phase[r] \in {"save", "lookup"},
         NEW id, NEW o, Answer(r, id, o), UNCHANGED urls
  PROVE  Work(r)' < Work(r)
<1>1. /\ attempt[r] \in Nat /\ attempt[r] < MaxSaveRetries /\ MaxSaveRetries \in Nat
      /\ Len(urls[r]) \in Nat /\ item[r] \in Nat /\ Len(urls[r]) - item[r] \in Nat
      /\ Work(r) \in Nat /\ Work(r) > 0
  BY WorkFacts
<1>2. CASE item[r] = Len(urls[r])
  <2>1. phase'[r] = "done"
    BY <1>2 DEF Answer, Finish, Base, RequestType
  <2>2. Work(r)' = 0
    BY <2>1 DEF Work
  <2>3. QED BY <1>1, <2>2
<1>3. CASE item[r] # Len(urls[r])
  <2> DEFINE k == Len(urls[r]) - (item[r] + 1)
             p == MaxSaveRetries * k
  <2>1. phase'[r] = "save" /\ item'[r] = item[r] + 1 /\ attempt'[r] = 0
    BY <1>3 DEF Answer, Base, RequestType, Bounds
  <2>2. k \in Nat /\ Len(urls[r]) - item[r] = k + 1
    BY <1>1, <1>3
  <2>3. p \in Nat /\ MaxSaveRetries * (Len(urls[r]) - item[r]) = p + MaxSaveRetries
    BY <2>2, Times
  <2>4. Saves(r) = p + MaxSaveRetries + MaxSaveRetries - attempt[r]
    BY <2>3 DEF Saves
  <2>5. Saves(r)' = p + MaxSaveRetries - 0
    BY <2>1 DEF Saves
  <2>6. Work(r)' = 2 * Saves(r)' /\ (Work(r) = 2 * Saves(r) \/ Work(r) = 2 * Saves(r) - 1)
    BY <2>1 DEF Work
  <2> HIDE DEF p
  <2>7. QED BY <1>1, <2>3, <2>4, <2>5, <2>6
<1>4. QED BY <1>2, <1>3

\* A request that has met its last taken id, or whose lookup fails, is done.
LEMMA DoneWork ==
  ASSUME Base, Bounds, NEW r \in Requests, phase[r] \in {"batch", "save", "lookup"},
         NEW o, Finish(r, o)
  PROVE  Work(r)' < Work(r)
<1>1. Work(r) \in Nat /\ Work(r) > 0
  BY WorkFacts
<1>2. phase'[r] = "done"
  BY DEF Finish, Base, RequestType
<1>3. Work(r)' = 0
  BY <1>2 DEF Work
<1>4. QED BY <1>1, <1>3

\* What other requests and the worker do leaves the work of a request as it is.
LEMMA OthersWork ==
  ASSUME Base, Bounds, [Next]_vars, NEW r \in Requests, phase[r] # "idle", ~RequestStep(r)
  PROVE  Work(r)' = Work(r) \/ Work(r)' < Work(r)
<1>1. CASE Fail(r)
  BY <1>1, DoneWork DEF Fail
<1>2. CASE /\ phase'[r] = phase[r] /\ urls'[r] = urls[r]
           /\ item'[r] = item[r] /\ attempt'[r] = attempt[r]
  BY <1>2 DEF Work, Saves
<1>3. ASSUME NEW s \in Requests, s # r,
             Shorten(s) \/ ShortenBatch(s) \/ RequestStep(s) \/ Fail(s)
      PROVE  /\ phase'[r] = phase[r] /\ urls'[r] = urls[r]
             /\ item'[r] = item[r] /\ attempt'[r] = attempt[r]
  <2>1. /\ phase \in [Requests -> {"idle", "batch", "save", "lookup", "done"}]
        /\ DOMAIN urls = Requests /\ DOMAIN item = Requests /\ DOMAIN attempt = Requests
    BY DEF Base, RequestType, Bounds
  <2>2. CASE Shorten(s) \/ ShortenBatch(s)
    BY <1>3, <2>1, <2>2 DEF Shorten, ShortenBatch, Submit
  <2>3. CASE Fail(s) \/ BatchStored(s) \/ SaveURLExists(s) \/ BatchURLExists(s)
    BY <1>3, <2>1, <2>3 DEF Fail, BatchStored, SaveURLExists, BatchURLExists, Finish
  <2>4. CASE SaveConflict(s) \/ BatchConflict(s)
    BY <1>3, <2>1, <2>4 DEF SaveConflict, BatchConflict, Finish, NextAttempt
  <2>5. CASE SaveStored(s)
    BY <1>3, <2>1, <2>5 DEF SaveStored, Answer, Finish
  <2>6. CASE Lookup(s)
    BY <1>3, <2>1, <2>6 DEF Lookup, Answer, Finish
  <2>7. QED BY <1>3, <2>2, <2>3, <2>4, <2>5, <2>6 DEF RequestStep
<1>4. CASE WorkerDeletes \/ UNCHANGED vars
  <2>1. phase' = phase /\ urls' = urls /\ item' = item /\ attempt' = attempt
    BY <1>4 DEF WorkerDeletes, vars, requestVars
  <2>2. QED BY <1>2, <2>1
<1>5. CASE Shorten(r) \/ ShortenBatch(r)
  BY <1>5 DEF Shorten, ShortenBatch, Submit
<1>6. QED BY <1>1, <1>2, <1>3, <1>4, <1>5 DEF Next

\* A product with the number of retries grows with the other factor.
LEMMA TimesGrows ==
  ASSUME NEW j \in Nat, NEW k \in Nat, j <= k
  PROVE  MaxSaveRetries * j <= MaxSaveRetries * k
<1>1. MaxSaveRetries \in Nat
  BY MaxSaveRetriesAssumption
<1>2. k - j \in Nat /\ k = j + (k - j)
  OBVIOUS
<1>3. MaxSaveRetries * (k - j) \in Nat
  BY <1>2, Times
<1>4. MaxSaveRetries * k = MaxSaveRetries * j + MaxSaveRetries * (k - j)
  BY <1>1
<1>5. MaxSaveRetries * j \in Nat /\ MaxSaveRetries * k \in Nat
  BY Times
<1>6. QED BY <1>3, <1>4, <1>5

\* The work of a request that has just arrived is the most it can be.
WorkBounded == \A r \in Requests : Work(r) <= MaxSaveRetries * (2 * MaxBatch + 1)

LEMMA WorkBound ==
  ASSUME Base, Bounds
  PROVE  WorkBounded
<1> DEFINE all == MaxSaveRetries * (2 * MaxBatch + 1)
<1>1. SUFFICES ASSUME NEW r \in Requests
               PROVE  Work(r) <= all
  BY DEF WorkBounded
<1> DEFINE n == Len(urls[r])
           p == MaxSaveRetries * n
           q == MaxSaveRetries * (n - item[r])
           b == MaxSaveRetries * MaxBatch
<1>2. /\ attempt[r] \in Nat /\ attempt[r] < MaxSaveRetries /\ MaxSaveRetries \in Nat
      /\ n \in Nat /\ item[r] \in Nat /\ MaxBatch \in Nat /\ n <= MaxBatch
      /\ phase[r] \in {"batch", "save", "lookup"} => n - item[r] \in Nat /\ item[r] >= 1
  BY WorkFacts, MaxBatchAssumption DEF Bounds, Base, RequestType
<1>3. p \in Nat /\ b \in Nat /\ p <= b
  BY <1>2, Times, TimesGrows
<1>4. all = 2 * b + MaxSaveRetries
  BY <1>2
<1>5. CASE phase[r] = "batch"
  <2>1. Work(r) = 2 * p + MaxSaveRetries - attempt[r]
    BY <1>5 DEF Work
  <2> HIDE DEF p, b, all
  <2>2. QED BY <1>2, <1>3, <1>4, <2>1
<1>6. CASE phase[r] \in {"save", "lookup"}
  <2>1. Work(r) = 2 * Saves(r) \/ Work(r) = 2 * Saves(r) - 1
    BY <1>6 DEF Work
  <2>2. Saves(r) = q + MaxSaveRetries - attempt[r]
    BY DEF Saves
  <2>3. q \in Nat /\ q + MaxSaveRetries <= p
    <3>1. n - item[r] + 1 \in Nat /\ n - item[r] + 1 <= n
      BY <1>2, <1>6
    <3>2. MaxSaveRetries * (n - item[r] + 1) <= p
      BY <1>2, <3>1, TimesGrows
    <3>3. q \in Nat /\ MaxSaveRetries * (n - item[r] + 1) = q + MaxSaveRetries
      BY <1>2, <1>6, Times
    <3>4. QED BY <3>2, <3>3
  <2> HIDE DEF p, q, b, all
  <2>4. QED BY <1>2, <1>3, <1>4, <2>1, <2>2, <2>3
<1>7. CASE phase[r] \in {"idle", "done"}
  <2>1. Work(r) = 0
    BY <1>7 DEF Work
  <2> HIDE DEF b, all
  <2>2. QED BY <1>2, <1>3, <1>4, <2>1
<1>8. phase[r] \in {"idle", "batch", "save", "lookup", "done"}
  BY DEF Base, RequestType
<1>9. QED BY <1>5, <1>6, <1>7, <1>8

\* The calls of the repository that a request has left are bounded ...
THEOREM WorkBoundedHolds == Spec => []WorkBounded
<1>1. Init => Base /\ Bounds
  BY BaseInit, BoundsInit
<1>2. Base /\ Bounds /\ [Next]_vars => Base' /\ Bounds'
  BY BaseStep, BoundsStep
<1>3. QED BY <1>1, <1>2, WorkBound, PTL DEF Spec

\* ... and each call leaves fewer, whatever the other requests store and the worker
\* deletes in between. So with retries, lookups and the way from a batch to its single
\* urls, it makes MaxSaveRetries * (2 * MaxBatch + 1) of them at most.
THEOREM WorkDecreasesHolds == Spec => WorkDecreases
<1>1. Init => Base /\ Bounds
  BY BaseInit, BoundsInit
<1>2. Base /\ Bounds /\ [Next]_vars => Base' /\ Bounds'
  BY BaseStep, BoundsStep
<1>3. ASSUME Base, Bounds, NEW r \in Requests, RequestStep(r)
      PROVE  Work(r)' < Work(r)
  <2>1. /\ attempt[r] \in Nat /\ attempt[r] < MaxSaveRetries /\ MaxSaveRetries \in Nat
        /\ Len(urls[r]) \in Nat /\ item[r] \in Nat
        /\ phase[r] \in {"save", "lookup"} => Saves(r) \in Nat /\ Saves(r) > 0
        /\ phase[r] \in {"batch", "save", "lookup"} => Len(urls[r]) - item[r] \in Nat
    BY <1>3, WorkFacts
  <2>2. CASE SaveStored(r)
    BY <1>3, <2>2, AnswerWork DEF SaveStored
  <2>3. CASE SaveURLExists(r)
    <3>1. phase[r] = "save" /\ phase'[r] = "lookup" /\ UNCHANGED <<urls, item, attempt>>
      BY <1>3, <2>3 DEF SaveURLExists, Base, RequestType
    <3>2. Saves(r)' = Saves(r)
      BY <3>1 DEF Saves
    <3>3. Work(r) = 2 * Saves(r) /\ Work(r)' = 2 * Saves(r) - 1
      BY <3>1, <3>2 DEF Work
    <3>4. QED BY <2>1, <3>1, <3>3
  <2>4. CASE SaveConflict(r)
    <3>1. CASE LastAttempt(r)
      BY <1>3, <2>4, <3>1, DoneWork DEF SaveConflict
    <3>2. CASE ~LastAttempt(r)
      <4> DEFINE p == MaxSaveRetries * (Len(urls[r]) - item[r])
      <4>1. /\ phase[r] = "save" /\ UNCHANGED <<phase, urls, item>>
            /\ attempt'[r] = attempt[r] + 1
        BY <1>3, <2>4, <3>2 DEF SaveConflict, NextAttempt, Bounds
      <4>2. p \in Nat
        BY <2>1, <4>1, Times
      <4>3. Saves(r) = p + MaxSaveRetries - attempt[r]
            /\ Saves(r)' = p + MaxSaveRetries - (attempt[r] + 1)
        BY <4>1 DEF Saves
      <4>4. Work(r) = 2 * Saves(r) /\ Work(r)' = 2 * Saves(r)'
        BY <4>1 DEF Work
      <4> HIDE DEF p
      <4>5. QED BY <2>1, <4>2, <4>3, <4>4
    <3>3. QED BY <3>1, <3>2
  <2>5. CASE Lookup(r)
    <3>1. CASE reverse[urls[r][item[r]]] = None
      BY <1>3, <2>5, <3>1, DoneWork DEF Lookup, GetByOriginalURL
    <3>2. CASE reverse[urls[r][item[r]]] # None
      BY <1>3, <2>5, <3>2, AnswerWork DEF Lookup, GetByOriginalURL
    <3>3. QED BY <3>1, <3>2
  <2>6. CASE BatchStored(r)
    BY <1>3, <2>6, DoneWork DEF BatchStored
  <2>7. CASE BatchURLExists(r)
    <3> DEFINE k == Len(urls[r]) - 1
               p == MaxSaveRetries * k
    <3>1. /\ phase[r] = "batch" /\ phase'[r] = "save" /\ item[r] = 1 /\ attempt'[r] = 0
          /\ UNCHANGED <<urls, item>>
      BY <1>3, <2>7 DEF BatchURLExists, Base, RequestType, Progress, Bounds
    <3>2. k \in Nat /\ Len(urls[r]) = k + 1
      BY <2>1, <3>1
    <3>3. p \in Nat /\ MaxSaveRetries * Len(urls[r]) = p + MaxSaveRetries
      BY <3>2, Times
    <3>4. Saves(r)' = p + MaxSaveRetries - 0
      BY <3>1 DEF Saves
    <3>5. /\ Work(r)' = 2 * Saves(r)'
          /\ Work(r) = 2 * (MaxSaveRetries * Len(urls[r])) + MaxSaveRetries - attempt[r]
      BY <3>1 DEF Work
    <3>6. Work(r) = 2 * (p + MaxSaveRetries) + MaxSaveRetries - attempt[r]
      BY <3>3, <3>5
    <3> HIDE DEF p
    <3>7. QED BY <2>1, <3>3, <3>4, <3>5, <3>6
  <2>8. CASE BatchConflict(r)
    <3>1. CASE LastAttempt(r)
      BY <1>3, <2>8, <3>1, DoneWork DEF BatchConflict
    <3>2. CASE ~LastAttempt(r)
      <4> DEFINE p == MaxSaveRetries * Len(urls[r])
      <4>1. /\ phase[r] = "batch" /\ UNCHANGED <<phase, urls, item>>
            /\ attempt'[r] = attempt[r] + 1
        BY <1>3, <2>8, <3>2 DEF BatchConflict, NextAttempt, Bounds
      <4>2. p \in Nat
        BY <2>1, Times
      <4>3. /\ Work(r) = 2 * p + MaxSaveRetries - attempt[r]
            /\ Work(r)' = 2 * p + MaxSaveRetries - (attempt[r] + 1)
        BY <4>1 DEF Work
      <4> HIDE DEF p
      <4>4. QED BY <2>1, <4>2, <4>3
    <3>3. QED BY <3>1, <3>2
  <2>9. QED
    BY <1>3, <2>2, <2>3, <2>4, <2>5, <2>6, <2>7, <2>8 DEF RequestStep
<1>4. Base /\ Bounds /\ [Next]_vars =>
        [\A r \in Requests : phase[r] # "idle" =>
           /\ RequestStep(r) => Work(r)' < Work(r)
           /\ Work(r)' = Work(r) \/ Work(r)' < Work(r)]_vars
  BY <1>3, OthersWork
<1>5. QED BY <1>1, <1>2, <1>4, PTL DEF Spec, WorkDecreases

----------------------------------------------------------------------------
(* The lookup after ErrURLExists                                           *)

\* Once repo.Save has reported ErrURLExists the url stays taken, so the
\* lookup that follows finds its link, whatever runs in between.
THEOREM LookupNeverMissesHolds == Spec => []LookupNeverMisses
<1>1. Init => Base /\ LookupNeverMisses
  BY BaseInit DEF Init, LookupNeverMisses
<1>2. ASSUME Base, LookupNeverMisses, [Next]_vars
      PROVE  LookupNeverMisses'
  <2>1. Base' /\ Keeps
    BY <1>2, BaseStep
  <2>2. SUFFICES ASSUME NEW r \in Requests, phase'[r] = "lookup"
                 PROVE  reverse'[urls'[r][item'[r]]] # None
    BY DEF LookupNeverMisses
  <2>3. CASE phase[r] = "lookup" /\ urls'[r] = urls[r] /\ item'[r] = item[r]
    <3>1. item[r] \in 1..Len(urls[r]) /\ urls[r] \in Seq(URLs)
      BY <1>2, <2>3 DEF Base, RequestType, Progress
    <3>2. reverse[urls[r][item[r]]] # None
      BY <1>2, <2>3 DEF LookupNeverMisses
    <3>3. QED BY <2>1, <2>3, <3>1, <3>2 DEF Keeps
  <2>4. CASE SaveURLExists(r)
    <3>1. SaveOutcome(<<EntryOf(r, item[r])>>) = "ErrURLExists"
      BY <2>4 DEF SaveURLExists
    <3>2. Objections(<<EntryOf(r, item[r])>>) \subseteq {1}
      BY DEF Objections
    <3>3. Objections(<<EntryOf(r, item[r])>>) = {1}
      BY <3>1, <3>2 DEF SaveOutcome
    <3>4. reverse[<<EntryOf(r, item[r])>>[1].url] # None
      BY <3>1, <3>3 DEF SaveOutcome
    <3>5. QED BY <2>4, <3>4 DEF SaveURLExists, EntryOf, repoVars
  <2>5. (phase[r] = "lookup" /\ urls'[r] = urls[r] /\ item'[r] = item[r]) \/ SaveURLExists(r)
    <3>1. ASSUME NEW s \in Requests, \/ Shorten(s) \/ ShortenBatch(s)
          PROVE  phase[r] = "lookup" /\ urls'[r] = urls[r] /\ item'[r] = item[r]
      BY <1>2, <2>2, <3>1 DEF Shorten, ShortenBatch, Submit, Base, RequestType
    <3>2. ASSUME NEW s \in Requests, \/ SaveStored(s) \/ Lookup(s)
          PROVE  phase[r] = "lookup" /\ urls'[r] = urls[r] /\ item'[r] = item[r]
      BY <1>2, <2>2, <3>2 DEF SaveStored, Lookup, Answer, Finish, Base, RequestType
    <3>3. ASSUME NEW s \in Requests, SaveURLExists(s)
          PROVE  \/ phase[r] = "lookup" /\ urls'[r] = urls[r] /\ item'[r] = item[r]
                 \/ SaveURLExists(r)
      BY <1>2, <2>2, <3>3 DEF SaveURLExists, Base, RequestType
    <3>4. ASSUME NEW s \in Requests,
                 \/ SaveConflict(s) \/ BatchStored(s) \/ BatchURLExists(s)
                 \/ BatchConflict(s) \/ Fail(s)
          PROVE  phase[r] = "lookup" /\ urls'[r] = urls[r] /\ item'[r] = item[r]
      BY <1>2, <2>2, <3>4 DEF SaveConflict, BatchStored, BatchURLExists,
         BatchConflict, Fail, Finish, Base, RequestType
    <3>5. ASSUME \/ WorkerDeletes \/ UNCHANGED vars
          PROVE  phase[r] = "lookup" /\ urls'[r] = urls[r] /\ item'[r] = item[r]
      BY <2>2, <3>5 DEF WorkerDeletes, requestVars, vars
    <3>6. QED BY <1>2, <3>1, <3>2, <3>3, <3>4, <3>5 DEF Next, RequestStep
  <2>6. QED BY <2>3, <2>4, <2>5
<1>3. Base /\ LookupNeverMisses /\ [Next]_vars => Base' /\ LookupNeverMisses'
  BY <1>2, BaseStep
<1>4. QED BY <1>1, <1>3, PTL DEF Spec

----------------------------------------------------------------------------
(* Every id answered leads to its url                                      *)

\* A step of one request leaves the others' variables alone.
LEMMA OthersStay ==
  ASSUME Base, NEW r \in Requests, NEW s \in Requests, r # s,
         \/ Shorten(s) \/ ShortenBatch(s) \/ RequestStep(s) \/ Fail(s)
  PROVE  /\ phase'[r] = phase[r] /\ isBatch'[r] = isBatch[r]
         /\ urls'[r] = urls[r] /\ ids'[r] = ids[r] /\ item'[r] = item[r]
         /\ results'[r] = results[r] /\ outcome'[r] = outcome[r]
<1>1. CASE Shorten(s) \/ ShortenBatch(s)
  <2>1. PICK batch, us, u : Submit(s, batch, us, u)
    BY <1>1 DEF Shorten, ShortenBatch
  <2>2. QED BY <2>1 DEF Submit, Draw, Base, RequestType
<1>2. CASE SaveStored(s) \/ Lookup(s)
  BY <1>2 DEF SaveStored, Lookup, Answer, Finish, Base, RequestType
<1>3. CASE SaveURLExists(s) \/ SaveConflict(s) \/ Fail(s)
  BY <1>3 DEF SaveURLExists, SaveConflict, Fail, Finish, Base, RequestType
<1>4. CASE BatchStored(s) \/ BatchURLExists(s) \/ BatchConflict(s)
  BY <1>4 DEF BatchStored, BatchURLExists, BatchConflict, Draw, Finish, Base, RequestType
<1>5. QED BY <1>1, <1>2, <1>3, <1>4 DEF RequestStep

\* What a request has resolved stays resolved while others run.
LEMMA ResolvedStays ==
  ASSUME Base, Keeps, NEW r \in Requests, Resolved(r), Drawn(r),
         phase'[r] = phase[r], urls'[r] = urls[r], ids'[r] = ids[r],
         item'[r] = item[r], results'[r] = results[r], outcome'[r] = outcome[r]
  PROVE  Resolved(r)' /\ Drawn(r)'
<1>1. ASSUME NEW k \in 1..Len(urls[r]), data[results[r][k]] = urls[r][k]
      PROVE  data'[results[r][k]] = urls[r][k]
  <2>1. results[r] \in Seq(IDs) /\ urls[r] \in Seq(URLs) /\ Len(results[r]) = Len(urls[r])
    BY DEF Base, RequestType
  <2>2. results[r][k] \in IDs /\ urls[r][k] \in URLs
    BY <2>1
  <2>3. QED BY <1>1, <2>2, NoneAssumption DEF Keeps
<1>2. phase[r] \in {"save", "lookup"} => \A k \in 1..item[r] - 1 : k \in 1..Len(urls[r])
  BY DEF Base, RequestType, Progress
<1>3. QED BY <1>1, <1>2 DEF Resolved, Drawn, Answered

\* An answer that leads to the url at hand resolves the request so far.
LEMMA AnswerResolves ==
  ASSUME Base, Keeps, NEW r \in Requests, Resolved(r), phase[r] \in {"save", "lookup"},
         NEW id \in IDs, NEW o \in {"ok", "conflict"}, Answer(r, id, o),
         UNCHANGED <<isBatch, urls, user, ids>>,
         data'[id] = urls[r][item[r]]
  PROVE  Resolved(r)' /\ Drawn(r)'
<1>1. /\ item[r] \in 1..Len(urls[r]) /\ Len(urls[r]) \in Nat /\ item[r] \in Nat
      /\ results[r] \in Seq(IDs) /\ urls[r] \in Seq(URLs)
      /\ Len(results[r]) = Len(urls[r])
  BY DEF Base, RequestType, Progress
<1>2. /\ results'[r][item[r]] = id
      /\ \A k \in 1..Len(urls[r]) : k # item[r] => results'[r][k] = results[r][k]
  BY <1>1, AnswerType DEF Base
<1>3. ASSUME NEW k \in 1..item[r]
      PROVE  data'[results'[r][k]] = urls[r][k]
  <2>1. CASE k = item[r]
    BY <1>2, <2>1
  <2>2. CASE k # item[r]
    <3>1. k \in 1..item[r] - 1 /\ k \in 1..Len(urls[r])
      BY <1>1, <2>2
    <3>2. results'[r][k] = results[r][k] /\ data[results[r][k]] = urls[r][k]
      BY <1>2, <2>2, <3>1 DEF Resolved
    <3>3. results[r][k] \in IDs /\ urls[r][k] \in URLs
      BY <1>1, <3>1
    <3>4. QED BY <3>2, <3>3, NoneAssumption DEF Keeps
  <2>3. QED BY <2>1, <2>2
<1>4. CASE item[r] = Len(urls[r])
  <2>1. phase'[r] = "done" /\ urls'[r] = urls[r]
    BY <1>4 DEF Answer, Finish, Base, RequestType
  <2>2. QED BY <1>3, <1>4, <2>1 DEF Resolved, Drawn
<1>5. CASE item[r] # Len(urls[r])
  <2>1. /\ phase'[r] = "save" /\ urls'[r] = urls[r] /\ outcome'[r] = outcome[r]
        /\ item'[r] = item[r] + 1
    BY <1>5 DEF Answer, Base, RequestType
  <2>2. outcome'[r] = "none"
    BY <2>1 DEF Base, Progress
  <2>3. item'[r] - 1 = item[r]
    BY <1>1, <2>1
  <2>4. QED BY <1>3, <2>1, <2>2, <2>3 DEF Resolved, Drawn, Answered
<1>6. QED BY <1>4, <1>5

\* The reverse map leads back to the url after every step.
LEMMA ReverseStep ==
  ASSUME Base, ResolveInv, [Next]_vars
  PROVE  ReverseRight'
<1>1. CASE UNCHANGED <<data, reverse>>
  BY <1>1 DEF ResolveInv, ReverseRight
<1>2. ASSUME NEW r \in Requests, SaveStored(r)
      PROVE  ReverseRight'
  <2>1. item[r] \in 1..Len(urls[r])
    BY <1>2 DEF SaveStored, Base, RequestType, Progress
  <2>2. EntryOf(r, item[r]) \in Entry
    BY <2>1, EntriesType DEF Base
  <2>3. <<EntryOf(r, item[r])>> \in [1..1 -> Entry]
    BY <2>2
  <2>4. \A j, k \in 1..1 : j = k
    OBVIOUS
  <2>5. MapsType /\ ReverseRight /\ SaveBatch(<<EntryOf(r, item[r])>>)
    BY <1>2 DEF SaveStored, Save, Base, RequestType, ResolveInv
  <2>6. QED BY <2>3, <2>4, <2>5, SaveBatchReverse
<1>3. ASSUME NEW r \in Requests, BatchStored(r)
      PROVE  ReverseRight'
  <2>1. /\ EntriesOf(r) \in [1..Len(urls[r]) -> Entry]
        /\ \A k \in 1..Len(urls[r]) : EntriesOf(r)[k].id = ids[r][k]
    BY EntriesType DEF Base
  <2>2. \A j, k \in 1..Len(urls[r]) : ids[r][j] = ids[r][k] => j = k
    BY <1>3 DEF BatchStored, ResolveInv, Drawn, Base, RequestType
  <2>3. \A j, k \in 1..Len(urls[r]) : EntriesOf(r)[j].id = EntriesOf(r)[k].id => j = k
    BY <2>1, <2>2
  <2>4. MapsType /\ ReverseRight /\ SaveBatch(EntriesOf(r)) /\ Len(urls[r]) \in Nat
    BY <1>3 DEF BatchStored, Base, RequestType, ResolveInv
  <2>5. QED BY <2>1, <2>3, <2>4, SaveBatchReverse
<1>4. ASSUME NEW r \in Requests,
             \/ Shorten(r) \/ ShortenBatch(r) \/ SaveURLExists(r) \/ SaveConflict(r)
             \/ Lookup(r) \/ BatchURLExists(r) \/ BatchConflict(r) \/ Fail(r)
      PROVE  UNCHANGED <<data, reverse>>
  BY <1>4 DEF Shorten, ShortenBatch, Submit, SaveURLExists, SaveConflict, Lookup,
     BatchURLExists, BatchConflict, Fail, repoVars
<1>5. WorkerDeletes \/ UNCHANGED vars => UNCHANGED <<data, reverse>>
  BY DEF WorkerDeletes, DeleteUserURLs, vars, repoVars
<1>6. QED BY <1>1, <1>2, <1>3, <1>4, <1>5 DEF Next, RequestStep

\* The request that takes a step goes on being resolved.
LEMMA OwnStep ==
  ASSUME DrawApart, Base, ResolveInv, Base', Keeps, NEW r \in Requests,
         \/ Shorten(r) \/ ShortenBatch(r) \/ RequestStep(r) \/ Fail(r)
  PROVE  Resolved(r)' /\ Drawn(r)'
<1>1. Resolved(r) /\ Drawn(r) /\ ReverseRight
  BY DEF ResolveInv
<1>2. CASE Shorten(r) \/ ShortenBatch(r)
  <2>1. PICK batch \in BOOLEAN, us \in Seq(URLs), u \in Owner : Submit(r, batch, us, u)
    <3>1. CASE Shorten(r)
      <4>1. PICK url \in URLs, u \in Owner : Submit(r, FALSE, <<url>>, u)
        BY <3>1 DEF Shorten
      <4>2. <<url>> \in Seq(URLs)
        OBVIOUS
      <4>3. QED BY <4>1, <4>2
    <3>2. CASE ShortenBatch(r)
      <4>1. PICK us \in Batches, u \in Users : Submit(r, TRUE, us, u)
        BY <3>2 DEF ShortenBatch
      <4>2. QED BY <4>1, BatchType DEF Owner
    <3>3. QED BY <1>2, <3>1, <3>2
  <2>2. /\ ids'[r] = results'[r] /\ Len(ids'[r]) = Len(us)
        /\ \A j, k \in 1..Len(us) : ids'[r][j] = ids'[r][k] => j = k
    BY <2>1, DrawType DEF Submit, Base
  <2>3. item'[r] = 1 /\ outcome'[r] = "none"
    BY <2>1 DEF Submit, Base, RequestType, Progress
  <2>4. QED BY <2>2, <2>3 DEF Resolved, Drawn, Answered
<1>3. CASE SaveStored(r)
  <2>1. item[r] \in 1..Len(urls[r])
    BY <1>3 DEF SaveStored, Base, RequestType, Progress
  <2>2. /\ EntryOf(r, item[r]) \in Entry
        /\ EntryOf(r, item[r]).id = ids[r][item[r]]
        /\ EntryOf(r, item[r]).url = urls[r][item[r]]
        /\ ids[r][item[r]] \in IDs
    BY <2>1, EntriesType DEF Base
  <2>3. <<EntryOf(r, item[r])>> \in [1..1 -> Entry]
    BY <2>2
  <2>4. MapsType /\ SaveBatch(<<EntryOf(r, item[r])>>)
    BY <1>3 DEF SaveStored, Save, Base, RequestType
  <2>5. data'[ids[r][item[r]]] = urls[r][item[r]]
    <3> DEFINE es == <<EntryOf(r, item[r])>>
    <3>1. es \in [1..1 -> Entry] /\ SaveBatch(es) /\ MapsType /\ es[1] = EntryOf(r, item[r])
      BY <2>3, <2>4
    <3>2. \A j, k \in 1..1 : es[j].id = es[k].id => j = k
      OBVIOUS
    <3> HIDE DEF es
    <3>3. \A k \in 1..1 : data'[es[k].id] = es[k].url
      BY <3>1, <3>2, SaveBatchStores
    <3>4. QED BY <2>2, <3>1, <3>3
  <2>6. QED BY <1>1, <1>3, <2>2, <2>5, AnswerResolves DEF SaveStored
<1>4. CASE SaveURLExists(r)
  <2>1. /\ phase[r] = "save" /\ phase'[r] = "lookup" /\ data' = data
        /\ UNCHANGED <<urls, item, results, outcome>>
    BY <1>4 DEF SaveURLExists, repoVars, Base, RequestType
  <2>2. QED BY <1>1, <2>1 DEF Resolved, Drawn, Answered
<1>5. CASE SaveConflict(r)
  <2>1. /\ phase[r] = "save" /\ phase'[r] \in {"save", "done"} /\ data' = data
        /\ UNCHANGED <<urls, item, results>>
        /\ outcome'[r] \in {"error", outcome[r]}
    BY <1>5 DEF SaveConflict, Finish, repoVars, Base, RequestType
  <2>2. QED BY <1>1, <2>1 DEF Resolved, Drawn, Answered
<1>6. CASE Lookup(r)
  <2>1. item[r] \in 1..Len(urls[r]) /\ urls[r] \in Seq(URLs)
    BY <1>6 DEF Lookup, Base, RequestType, Progress
  <2> DEFINE id == reverse[urls[r][item[r]]]
  <2>2. id \in IDs \cup {None} /\ (id # None => data[id] = urls[r][item[r]])
    BY <1>1, <2>1 DEF Base, RequestType, MapsType, ReverseRight
  <2>3. CASE id = None
    <3>1. phase'[r] = "done" /\ outcome'[r] = "error"
      BY <1>6, <2>3 DEF Lookup, GetByOriginalURL, Finish, Base, RequestType
    <3>2. QED BY <3>1 DEF Resolved, Drawn, Answered
  <2>4. CASE id # None
    <3>1. ExistingOutcome(r) \in {"ok", "conflict"}
      BY DEF ExistingOutcome
    <3>2. Answer(r, id, ExistingOutcome(r)) /\ data' = data
      BY <1>6, <2>4 DEF Lookup, GetByOriginalURL, repoVars
    <3>3. QED BY <1>1, <1>6, <2>2, <2>4, <3>1, <3>2, AnswerResolves DEF Lookup
  <2>5. QED BY <2>3, <2>4
<1>7. CASE BatchStored(r)
  <2>1. /\ EntriesOf(r) \in [1..Len(urls[r]) -> Entry]
        /\ \A k \in 1..Len(urls[r]) : /\ EntriesOf(r)[k].id = ids[r][k]
                                      /\ EntriesOf(r)[k].url = urls[r][k]
    BY EntriesType DEF Base
  <2>2. /\ results[r] = ids[r]
        /\ \A j, k \in 1..Len(urls[r]) : ids[r][j] = ids[r][k] => j = k
    BY <1>1, <1>7 DEF BatchStored, Drawn, Base, RequestType
  <2>3. \A j, k \in 1..Len(urls[r]) : EntriesOf(r)[j].id = EntriesOf(r)[k].id => j = k
    BY <2>1, <2>2
  <2>4. MapsType /\ SaveBatch(EntriesOf(r)) /\ Len(urls[r]) \in Nat
    BY <1>7 DEF BatchStored, Base, RequestType
  <2>5. \A k \in 1..Len(urls[r]) : data'[ids[r][k]] = urls[r][k]
    <3>1. \A k \in 1..Len(urls[r]) : data'[EntriesOf(r)[k].id] = EntriesOf(r)[k].url
      BY <2>1, <2>3, <2>4, SaveBatchStores
    <3>2. QED BY <2>1, <3>1
  <2>6. phase'[r] = "done" /\ UNCHANGED <<urls, results>>
    BY <1>7 DEF BatchStored, Finish, Base, RequestType
  <2>7. QED BY <2>2, <2>5, <2>6 DEF Resolved, Drawn
<1>8. CASE BatchURLExists(r)
  <2>1. phase'[r] = "save" /\ item'[r] = 1 /\ outcome'[r] = "none"
    BY <1>8 DEF BatchURLExists, Base, RequestType, Progress
  <2>2. QED BY <2>1 DEF Resolved, Drawn, Answered
<1>9. CASE BatchConflict(r)
  <2>1. CASE LastAttempt(r)
    <3>1. phase'[r] = "done" /\ outcome'[r] = "error"
      BY <1>9, <2>1 DEF BatchConflict, Finish, Base, RequestType
    <3>2. QED BY <3>1 DEF Resolved, Drawn, Answered
  <2>2. CASE ~LastAttempt(r)
    <3>1. Len(urls[r]) \in Nat
      BY DEF Base, RequestType
    <3>2. /\ ids'[r] = results'[r] /\ Len(ids'[r]) = Len(urls[r])
          /\ \A j, k \in 1..Len(urls[r]) : ids'[r][j] = ids'[r][k] => j = k
      BY <1>9, <2>2, <3>1, DrawType DEF BatchConflict, Base
    <3>3. phase'[r] = "batch" /\ outcome'[r] = "none"
      BY <1>9, <2>2 DEF BatchConflict, Base, Progress
    <3>4. QED BY <3>2, <3>3 DEF Resolved, Drawn, Answered
  <2>3. QED BY <2>1, <2>2
<1>10. CASE Fail(r)
  <2>1. phase'[r] = "done" /\ outcome'[r] = "error"
    BY <1>10 DEF Fail, Finish, Base, RequestType
  <2>2. QED BY <2>1 DEF Resolved, Drawn, Answered
<1>11. QED BY <1>2, <1>3, <1>4, <1>5, <1>6, <1>7, <1>8, <1>9, <1>10 DEF RequestStep

LEMMA ResolveStep ==
  ASSUME DrawApart, Base, ResolveInv, [Next]_vars
  PROVE  ResolveInv'
<1>1. Base' /\ Keeps
  BY BaseStep
<1>2. ReverseRight'
  BY ReverseStep
<1>3. ASSUME NEW r \in Requests
      PROVE  Resolved(r)' /\ Drawn(r)'
  <2>1. Resolved(r) /\ Drawn(r)
    BY DEF ResolveInv
  <2>2. ASSUME NEW s \in Requests,
               \/ Shorten(s) \/ ShortenBatch(s) \/ RequestStep(s) \/ Fail(s)
        PROVE  Resolved(r)' /\ Drawn(r)'
    <3>1. CASE s = r
      BY <1>1, <2>2, <3>1, OwnStep
    <3>2. CASE s # r
      <4>1. /\ phase'[r] = phase[r] /\ urls'[r] = urls[r] /\ ids'[r] = ids[r]
            /\ item'[r] = item[r] /\ results'[r] = results[r] /\ outcome'[r] = outcome[r]
        BY <2>2, <3>2, OthersStay
      <4>2. QED BY <1>1, <2>1, <4>1, ResolvedStays
    <3>3. QED BY <3>1, <3>2
  <2>3. ASSUME WorkerDeletes \/ UNCHANGED vars
        PROVE  Resolved(r)' /\ Drawn(r)'
    <3>1. UNCHANGED requestVars
      BY <2>3 DEF WorkerDeletes, vars
    <3>2. QED BY <1>1, <2>1, <3>1, ResolvedStays DEF requestVars
  <2>4. QED BY <2>2, <2>3 DEF Next
<1>4. QED BY <1>2, <1>3 DEF ResolveInv

LEMMA ResolveInit == Init => ResolveInv
BY DEF Init, RepoInit, ResolveInv, ReverseRight, Resolved, Drawn, Answered

\* If the ids drawn for one batch differ from each other, every id answered
\* leads to the url it was asked for, now and later, whatever ids were
\* taken, whichever urls were known and whoever deletes what.
THEOREM AnswersResolveHolds ==
  ASSUME DrawApart
  PROVE  Spec => []AnswersResolve
<1>1. Init => Base /\ ResolveInv
  BY BaseInit, ResolveInit
<1>2. Base /\ ResolveInv /\ [Next]_vars => Base' /\ ResolveInv'
  BY BaseStep, ResolveStep
<1>3. ASSUME Base, ResolveInv
      PROVE  AnswersResolve
  <2>1. \A r \in Requests : DOMAIN urls[r] = 1..Len(urls[r])
    BY <1>3 DEF Base, RequestType
  <2>2. QED BY <1>3, <2>1 DEF ResolveInv, Resolved, AnswersResolve
<1>4. QED BY <1>1, <1>2, <1>3, PTL DEF Spec

----------------------------------------------------------------------------
(* One short id for a url, and one creator                                 *)

\* No batch names a url twice.
DistinctURLs == \A us \in Batches : \A j, k \in DOMAIN us : us[j] = us[k] => j = k

\* A batch is one of Batches.
BatchInv ==
  \A r \in Requests : phase[r] = "batch" =>
    /\ isBatch[r]
    /\ \A j, k \in 1..Len(urls[r]) : urls[r][j] = urls[r][k] => j = k

\* Of the calls of Shorten for a url, one at most is told that it is new.
SingleCreator ==
  \A r, s \in Requests :
    r # s /\ Answered(r) /\ Answered(s) /\ ~isBatch[r] /\ ~isBatch[s] /\ urls[r] = urls[s]
      => "conflict" \in {outcome[r], outcome[s]}

CreateInv == OneIDPerURL /\ BatchInv /\ SingleCreator

\* A batch without repetitions keeps the two maps each other's mirror.
LEMMA SaveBatchMirrors ==
  ASSUME MapsType, OneIDPerURL,
         NEW n \in Nat, NEW es \in [1..n -> Entry], SaveBatch(es),
         \A j, k \in 1..n : es[j].id = es[k].id => j = k,
         \A j, k \in 1..n : es[j].url = es[k].url => j = k
  PROVE  OneIDPerURL'
<1>1. SUFFICES ASSUME NEW i \in IDs, NEW u \in URLs
               PROVE  data'[i] = u <=> reverse'[u] = i
  BY DEF OneIDPerURL
<1>2. Put(es) /\ u # None /\ i # None
  BY NoneAssumption DEF SaveBatch
<1>3. /\ data[i] # None => data'[i] = data[i]
      /\ reverse[u] # None => reverse'[u] = reverse[u]
  BY SaveBatchKeeps
<1>4. data[i] = u <=> reverse[u] = i
  BY DEF OneIDPerURL
<1>5. \A k \in 1..n : data'[es[k].id] = es[k].url
  BY SaveBatchStores
<1>6. ASSUME data'[i] = u
      PROVE  reverse'[u] = i
  <2>1. CASE \E k \in 1..n : es[k].id = i /\ data'[i] = es[k].url
    <3>1. PICK k \in 1..n : es[k].id = i /\ es[k].url = u
      BY <1>6, <2>1
    <3>2. PICK j \in 1..n : es[j].url = u /\ reverse'[u] = es[j].id
      BY <1>2, <3>1, PutEffect
    <3>3. QED BY <3>1, <3>2
  <2>2. CASE data'[i] = data[i]
    BY <1>2, <1>3, <1>4, <1>6, <2>2
  <2>3. QED BY <1>2, <2>1, <2>2, PutEffect
<1>7. ASSUME reverse'[u] = i
      PROVE  data'[i] = u
  <2>1. CASE \E k \in 1..n : es[k].url = u /\ reverse'[u] = es[k].id
    BY <1>5, <1>7, <2>1
  <2>2. CASE reverse'[u] = reverse[u]
    BY <1>2, <1>3, <1>4, <1>7, <2>2
  <2>3. QED BY <1>2, <2>1, <2>2, PutEffect
<1>8. QED BY <1>6, <1>7

LEMMA OneIDStep ==
  ASSUME Base, ResolveInv, OneIDPerURL, BatchInv, [Next]_vars
  PROVE  OneIDPerURL'
<1>1. CASE UNCHANGED <<data, reverse>>
  BY <1>1 DEF OneIDPerURL
<1>2. ASSUME NEW r \in Requests, SaveStored(r)
      PROVE  OneIDPerURL'
  <2>1. item[r] \in 1..Len(urls[r])
    BY <1>2 DEF SaveStored, Base, RequestType, Progress
  <2>2. EntryOf(r, item[r]) \in Entry
    BY <2>1, EntriesType DEF Base
  <2>3. <<EntryOf(r, item[r])>> \in [1..1 -> Entry]
    BY <2>2
  <2>4. MapsType /\ SaveBatch(<<EntryOf(r, item[r])>>)
    BY <1>2 DEF SaveStored, Save, Base, RequestType
  <2>5. \A j, k \in 1..1 : j = k
    OBVIOUS
  <2>6. QED BY <2>3, <2>4, <2>5, SaveBatchMirrors
<1>3. ASSUME NEW r \in Requests, BatchStored(r)
      PROVE  OneIDPerURL'
  <2>1. /\ EntriesOf(r) \in [1..Len(urls[r]) -> Entry]
        /\ \A k \in 1..Len(urls[r]) : /\ EntriesOf(r)[k].id = ids[r][k]
                                      /\ EntriesOf(r)[k].url = urls[r][k]
    BY EntriesType DEF Base
  <2>2. \A j, k \in 1..Len(urls[r]) : /\ ids[r][j] = ids[r][k] => j = k
                                      /\ urls[r][j] = urls[r][k] => j = k
    BY <1>3 DEF BatchStored, ResolveInv, Drawn, BatchInv, Base, RequestType
  <2>3. \A j, k \in 1..Len(urls[r]) : /\ EntriesOf(r)[j].id = EntriesOf(r)[k].id => j = k
                                      /\ EntriesOf(r)[j].url = EntriesOf(r)[k].url => j = k
    BY <2>1, <2>2
  <2>4. MapsType /\ SaveBatch(EntriesOf(r)) /\ Len(urls[r]) \in Nat
    BY <1>3 DEF BatchStored, Base, RequestType
  <2>5. QED BY <2>1, <2>3, <2>4, SaveBatchMirrors
<1>4. ASSUME NEW r \in Requests,
             \/ Shorten(r) \/ ShortenBatch(r) \/ SaveURLExists(r) \/ SaveConflict(r)
             \/ Lookup(r) \/ BatchURLExists(r) \/ BatchConflict(r) \/ Fail(r)
      PROVE  UNCHANGED <<data, reverse>>
  BY <1>4 DEF Shorten, ShortenBatch, Submit, SaveURLExists, SaveConflict, Lookup,
     BatchURLExists, BatchConflict, Fail, repoVars
<1>5. WorkerDeletes \/ UNCHANGED vars => UNCHANGED <<data, reverse>>
  BY DEF WorkerDeletes, DeleteUserURLs, vars, repoVars
<1>6. QED BY <1>1, <1>2, <1>3, <1>4, <1>5 DEF Next, RequestStep

LEMMA BatchStep ==
  ASSUME DistinctURLs, Base, BatchInv, [Next]_vars
  PROVE  BatchInv'
<1>1. SUFFICES ASSUME NEW r \in Requests, phase'[r] = "batch"
               PROVE  /\ isBatch'[r]
                      /\ \A j, k \in 1..Len(urls'[r]) : urls'[r][j] = urls'[r][k] => j = k
  BY DEF BatchInv
<1>2. CASE phase[r] = "batch" /\ isBatch'[r] = isBatch[r] /\ urls'[r] = urls[r]
  BY <1>2 DEF BatchInv
<1>3. CASE ShortenBatch(r)
  <2>1. PICK us \in Batches, u \in Users : Submit(r, TRUE, us, u)
    BY <1>3 DEF ShortenBatch
  <2>2. us \in Seq(URLs)
    BY BatchType
  <2>3. DOMAIN us = 1..Len(us)
    BY <2>2
  <2>4. isBatch'[r] = TRUE /\ urls'[r] = us
    BY <2>1 DEF Submit, Base, RequestType
  <2>5. QED BY <2>3, <2>4 DEF DistinctURLs
<1>4. ASSUME NEW s \in Requests, s # r,
             \/ Shorten(s) \/ ShortenBatch(s) \/ RequestStep(s) \/ Fail(s)
      PROVE  phase[r] = "batch" /\ isBatch'[r] = isBatch[r] /\ urls'[r] = urls[r]
  BY <1>1, <1>4, OthersStay
<1>5. CASE Shorten(r)
  BY <1>1, <1>5 DEF Shorten, Submit, Base, RequestType
<1>6. CASE SaveStored(r) \/ Lookup(r)
  BY <1>1, <1>6 DEF SaveStored, Lookup, Answer, Finish, Base, RequestType
<1>7. CASE SaveURLExists(r) \/ SaveConflict(r) \/ Fail(r)
  BY <1>1, <1>7 DEF SaveURLExists, SaveConflict, Fail, Finish, Base, RequestType
<1>8. CASE BatchStored(r) \/ BatchURLExists(r) \/ BatchConflict(r)
  <2>1. BatchConflict(r) /\ phase[r] = "batch"
    BY <1>1, <1>8 DEF BatchStored, BatchURLExists, BatchConflict, Finish, Base, RequestType
  <2>2. QED BY <1>2, <2>1 DEF BatchConflict
<1>9. CASE WorkerDeletes \/ UNCHANGED vars
  BY <1>1, <1>2, <1>9 DEF WorkerDeletes, requestVars, vars
<1>10. QED
  BY <1>2, <1>3, <1>4, <1>5, <1>6, <1>7, <1>8, <1>9 DEF Next, RequestStep

\* A call of Shorten is not told that a url is new which another request has
\* been answered a link for.
LEMMA NotNewAgain ==
  ASSUME Base, ResolveInv, OneIDPerURL, BatchInv,
         NEW r \in Requests, NEW s \in Requests, Answered(s),
         \/ Shorten(r) \/ ShortenBatch(r) \/ RequestStep(r) \/ Fail(r),
         ~isBatch'[r], urls'[r] = urls[s]
  PROVE  outcome'[r] # "ok"
<1>1. CASE Shorten(r) \/ ShortenBatch(r)
  <2>1. PICK batch, us, u : Submit(r, batch, us, u)
    BY <1>1 DEF Shorten, ShortenBatch
  <2>2. QED BY <2>1 DEF Submit, Base, Progress
<1>2. CASE SaveStored(r)
  <2>1. item[r] \in 1..Len(urls[r]) /\ urls[r] = urls[s]
    BY <1>2 DEF SaveStored, Base, RequestType, Progress
  <2>2. /\ EntryOf(r, item[r]) \in Entry
        /\ EntryOf(r, item[r]).url = urls[r][item[r]]
        /\ urls[r][item[r]] \in URLs
    BY <2>1, EntriesType DEF Base
  <2>3. reverse[urls[r][item[r]]] = None
    <3> DEFINE es == <<EntryOf(r, item[r])>>
    <3>1. es \in [1..1 -> Entry] /\ SaveBatch(es) /\ MapsType /\ es[1] = EntryOf(r, item[r])
      BY <1>2, <2>2 DEF SaveStored, Save, Base, RequestType
    <3> HIDE DEF es
    <3>2. \A k \in 1..1 : reverse[es[k].url] = None
      BY <3>1, SaveBatchIsNew
    <3>3. QED BY <2>2, <3>1, <3>2
  <2>4. data[results[s][item[r]]] = urls[r][item[r]]
    BY <2>1 DEF ResolveInv, Resolved
  <2>5. results[s][item[r]] \in IDs
    <3>1. results[s] \in Seq(IDs) /\ Len(results[s]) = Len(urls[s])
      BY DEF Base, RequestType
    <3>2. QED BY <2>1, <3>1
  <2>6. QED BY <2>2, <2>3, <2>4, <2>5, NoneAssumption DEF OneIDPerURL
<1>3. CASE Lookup(r)
  <2>1. ExistingOutcome(r) = "conflict"
    BY <1>3 DEF Lookup, ExistingOutcome
  <2>2. outcome'[r] \in {"error", "conflict", outcome[r]} /\ outcome[r] = "none"
    BY <1>3, <2>1 DEF Lookup, Answer, Finish, Base, RequestType, Progress
  <2>3. QED BY <2>2
<1>4. CASE SaveURLExists(r) \/ SaveConflict(r) \/ Fail(r)
  BY <1>4 DEF SaveURLExists, SaveConflict, Fail, Finish, Base, RequestType, Progress
<1>5. CASE BatchStored(r) \/ BatchURLExists(r) \/ BatchConflict(r)
  <2>1. phase[r] = "batch" /\ isBatch' = isBatch
    BY <1>5 DEF BatchStored, BatchURLExists, BatchConflict
  <2>2. QED BY <2>1 DEF BatchInv
<1>6. QED BY <1>1, <1>2, <1>3, <1>4, <1>5 DEF RequestStep

LEMMA CreatorStep ==
  ASSUME Base, Base', ResolveInv, OneIDPerURL, BatchInv, SingleCreator, [Next]_vars
  PROVE  SingleCreator'
<1>1. ASSUME NEW r \in Requests, NEW s \in Requests, r # s, Answered(r)', Answered(s)',
             ~isBatch'[r], ~isBatch'[s], urls'[r] = urls'[s],
             outcome'[r] = "ok", outcome'[s] = "ok"
      PROVE  FALSE
  <2>1. ASSUME NEW q \in Requests,
               \/ Shorten(q) \/ ShortenBatch(q) \/ RequestStep(q) \/ Fail(q)
        PROVE  FALSE
    <3>1. CASE q = r
      <4>1. outcome[s] = "ok" /\ urls[s] = urls'[s]
        BY <1>1, <2>1, <3>1, OthersStay
      <4>2. Answered(s)
        BY <4>1 DEF Answered
      <4>3. QED BY <1>1, <2>1, <3>1, <4>1, <4>2, NotNewAgain
    <3>2. CASE q = s
      <4>1. outcome[r] = "ok" /\ urls[r] = urls'[r]
        BY <1>1, <2>1, <3>2, OthersStay
      <4>2. Answered(r)
        BY <4>1 DEF Answered
      <4>3. QED BY <1>1, <2>1, <3>2, <4>1, <4>2, NotNewAgain
    <3>3. CASE q # r /\ q # s
      <4>1. /\ outcome[r] = "ok" /\ outcome[s] = "ok" /\ urls[r] = urls[s]
            /\ ~isBatch[r] /\ ~isBatch[s]
        BY <1>1, <2>1, <3>3, OthersStay
      <4>2. QED BY <1>1, <4>1 DEF SingleCreator, Answered
    <3>4. QED BY <3>1, <3>2, <3>3
  <2>2. CASE WorkerDeletes \/ UNCHANGED vars
    BY <1>1, <2>2 DEF WorkerDeletes, vars, requestVars, SingleCreator, Answered
  <2>3. QED BY <2>1, <2>2 DEF Next
<1>2. QED BY <1>1 DEF SingleCreator, Answered

LEMMA CreateStep ==
  ASSUME DistinctURLs, Base, ResolveInv, CreateInv, [Next]_vars
  PROVE  CreateInv'
BY BaseStep, OneIDStep, BatchStep, CreatorStep DEF CreateInv

LEMMA CreateInit == Init => CreateInv
BY NoneAssumption DEF Init, RepoInit, CreateInv, OneIDPerURL, BatchInv, SingleCreator,
   Answered

\* If no batch names a url twice and the ids drawn for one batch differ, a
\* url has one short id and a short id one url, whoever saves them.
THEOREM OneIDPerURLHolds ==
  ASSUME DrawApart, DistinctURLs
  PROVE  Spec => []OneIDPerURL
<1>1. Init => Base /\ ResolveInv /\ CreateInv
  BY BaseInit, ResolveInit, CreateInit
<1>2. Base /\ ResolveInv /\ CreateInv /\ [Next]_vars => Base' /\ ResolveInv' /\ CreateInv'
  BY BaseStep, ResolveStep, CreateStep
<1>3. CreateInv => OneIDPerURL
  BY DEF CreateInv
<1>4. QED BY <1>1, <1>2, <1>3, PTL DEF Spec

\* Under the same conditions concurrent requests for a url are all given the
\* same link, and one call of Shorten at most is told that it created it.
THEOREM OneCreatorHolds ==
  ASSUME DrawApart, DistinctURLs
  PROVE  Spec => []OneCreator
<1>1. Init => Base /\ ResolveInv /\ CreateInv
  BY BaseInit, ResolveInit, CreateInit
<1>2. Base /\ ResolveInv /\ CreateInv /\ [Next]_vars => Base' /\ ResolveInv' /\ CreateInv'
  BY BaseStep, ResolveStep, CreateStep
<1>3. ASSUME Base, ResolveInv, CreateInv
      PROVE  OneCreator
  <2>1. SUFFICES ASSUME NEW r \in Requests, NEW s \in Requests, r # s,
                        Answered(r), Answered(s)
                 PROVE  /\ \A k \in DOMAIN urls[r], l \in DOMAIN urls[s] :
                             urls[r][k] = urls[s][l] => results[r][k] = results[s][l]
                        /\ ~isBatch[r] /\ ~isBatch[s] /\ urls[r] = urls[s]
                             => "conflict" \in {outcome[r], outcome[s]}
    BY DEF OneCreator
  <2>2. ASSUME NEW q \in Requests, Answered(q), NEW k \in DOMAIN urls[q]
        PROVE  urls[q][k] \in URLs /\ reverse[urls[q][k]] = results[q][k]
    <3>1. /\ urls[q] \in Seq(URLs) /\ results[q] \in Seq(IDs)
          /\ Len(results[q]) = Len(urls[q])
      BY <1>3 DEF Base, RequestType
    <3>2. k \in 1..Len(urls[q]) /\ urls[q][k] \in URLs /\ results[q][k] \in IDs
      BY <2>2, <3>1
    <3>3. data[results[q][k]] = urls[q][k]
      BY <1>3, <2>2, <3>2 DEF ResolveInv, Resolved
    <3>4. QED BY <1>3, <3>2, <3>3 DEF CreateInv, OneIDPerURL
  <2>3. ASSUME NEW k \in DOMAIN urls[r], NEW l \in DOMAIN urls[s], urls[r][k] = urls[s][l]
        PROVE  results[r][k] = results[s][l]
    BY <2>1, <2>2, <2>3
  <2>4. QED BY <1>3, <2>1, <2>3 DEF CreateInv, SingleCreator
<1>4. QED BY <1>1, <1>2, <1>3, PTL DEF Spec

----------------------------------------------------------------------------
(* The listings                                                            *)

\* What the maps of the repository are between two calls.
ListInv == Owned /\ ListingExact

LEMMA ListStep ==
  ASSUME DrawApart, Base, Bounds, ResolveInv, ListInv, [Next]_vars
  PROVE  ListInv'
<1>1. RepoType
  BY DEF Base, RequestType, MapsType, Bounds, RepoType
<1>2. ASSUME NEW r \in Requests, SaveStored(r)
      PROVE  ListInv'
  <2> DEFINE es == <<EntryOf(r, item[r])>>
  <2>1. item[r] \in 1..Len(urls[r])
    BY <1>2 DEF SaveStored, Base, RequestType, Progress
  <2>2. es \in [1..1 -> Entry]
    BY <2>1, EntriesType DEF Base
  <2>3. SaveBatch(es)
    BY <1>2 DEF SaveStored, Save
  <2>4. \A j, k \in 1..1 : es[j].id = es[k].id => j = k
    OBVIOUS
  <2> HIDE DEF es
  <2>5. QED BY <1>1, <2>2, <2>3, <2>4, SaveBatchListing DEF ListInv
<1>3. ASSUME NEW r \in Requests, BatchStored(r)
      PROVE  ListInv'
  <2>1. /\ EntriesOf(r) \in [1..Len(urls[r]) -> Entry] /\ Len(urls[r]) \in Nat
        /\ \A k \in 1..Len(urls[r]) : EntriesOf(r)[k].id = ids[r][k]
    BY EntriesType DEF Base, RequestType
  <2>2. \A j, k \in 1..Len(urls[r]) : ids[r][j] = ids[r][k] => j = k
    BY <1>3 DEF BatchStored, ResolveInv, Drawn, Base, RequestType
  <2>3. \A j, k \in 1..Len(urls[r]) : EntriesOf(r)[j].id = EntriesOf(r)[k].id => j = k
    BY <2>1, <2>2
  <2>4. SaveBatch(EntriesOf(r))
    BY <1>3 DEF BatchStored
  <2>5. QED BY <1>1, <2>1, <2>3, <2>4, SaveBatchListing DEF ListInv
<1>4. ASSUME UNCHANGED <<data, owners, userURLs>>
      PROVE  ListInv'
  BY <1>4 DEF ListInv, Owned, ListingExact
<1>5. ASSUME NEW r \in Requests,
             \/ Shorten(r) \/ ShortenBatch(r) \/ SaveURLExists(r) \/ SaveConflict(r)
             \/ Lookup(r) \/ BatchURLExists(r) \/ BatchConflict(r) \/ Fail(r)
      PROVE  UNCHANGED <<data, owners, userURLs>>
  BY <1>5 DEF Shorten, ShortenBatch, Submit, SaveURLExists, SaveConflict, Lookup,
     BatchURLExists, BatchConflict, Fail, repoVars
<1>6. WorkerDeletes \/ UNCHANGED vars => UNCHANGED <<data, owners, userURLs>>
  BY DEF WorkerDeletes, DeleteUserURLs, vars, repoVars
<1>7. QED BY <1>2, <1>3, <1>4, <1>5, <1>6 DEF Next, RequestStep

LEMMA ListInit == Init => ListInv
<1>1. SUFFICES ASSUME Init PROVE ListInv
  OBVIOUS
<1>2. Owned
  BY <1>1 DEF Init, RepoInit, Owned
<1>3. ASSUME NEW u \in Users
      PROVE  IsInjective(userURLs[u]) /\ Range(userURLs[u]) = {i \in IDs : owners[i] = u}
  <2>1. userURLs[u] = <<>> /\ u # None /\ \A i \in IDs : owners[i] = None
    BY <1>1, NoneAssumption DEF Init, RepoInit
  <2>2. DOMAIN userURLs[u] = {}
    BY <2>1
  <2>3. QED BY <2>1, <2>2 DEF IsInjective, Range
<1>4. QED BY <1>2, <1>3 DEF ListInv, ListingExact

\* If the ids drawn for one batch differ from each other, a user's listing shows each
\* link of the user once, and no other link, whoever else shortens the same urls and
\* whatever is deleted.
THEOREM ListingExactHolds ==
  ASSUME DrawApart
  PROVE  Spec => []ListingExact
<1>1. Init => Base /\ Bounds /\ ResolveInv /\ ListInv
  BY BaseInit, BoundsInit, ResolveInit, ListInit
<1>2. Base /\ Bounds /\ ResolveInv /\ ListInv /\ [Next]_vars
        => Base' /\ Bounds' /\ ResolveInv' /\ ListInv'
  BY BaseStep, BoundsStep, ResolveStep, ListStep
<1>3. ListInv => ListingExact
  BY DEF ListInv
<1>4. QED BY <1>1, <1>2, <1>3, PTL DEF Spec
=============================================================================
