----------------------------- MODULE Shortener -----------------------------
(***************************************************************************)
(* Creating links: service.Shortener.Shorten and ShortenBatch              *)
(* (internal/service/shortener.go) over the memory repository, called      *)
(* concurrently by any number of requests.                                 *)
(*                                                                         *)
(* The service holds no lock across its calls of the repository, so each   *)
(* call is a step of its own and the other requests, and the delete worker,*)
(* run in between.  A new short id is eight random characters: any id may  *)
(* be drawn, one that is taken included.  The request's context may be     *)
(* cancelled before any call of the repository.  The definitions introduced*)
(* as slips are mutations, not part of the specification.                  *)
(***************************************************************************)
EXTENDS MemoryRepository

CONSTANTS
  Requests,       \* the calls of Shorten and ShortenBatch
  Batches,        \* the url sequences that ShortenBatch is called with
  DrawApart,      \* TRUE: the ids drawn for one batch differ from each other
  MaxSaveRetries  \* maxSaveRetries: 5 in the code

ASSUME BatchesAssumption == Batches \subseteq UNION {[1..n -> URLs] : n \in 1..MaxBatch}
ASSUME DrawApartAssumption == DrawApart \in BOOLEAN
ASSUME MaxSaveRetriesAssumption == MaxSaveRetries \in Nat \ {0}

VARIABLES
  phase,          \* next call of the repository each request makes, or "done"
  isBatch,        \* ShortenBatch, not Shorten
  urls,           \* the urls of the request
  user,           \* who makes it
  ids,            \* ids drawn for the urls
  item,           \* index of the url being saved one by one
  attempt,        \* how often that save, or the batch's, met a taken id
  results,        \* the ids to be answered
  outcome         \* "ok", "conflict" (ErrURLConflict) or "error"

requestVars == <<phase, isBatch, urls, user, ids, item, attempt, results, outcome>>
vars == <<repoVars, requestVars>>

Draws(n) == {d \in [1..n -> IDs] : DrawApart => IsInjective(d)}

\* Slip: the results keep the ids of the draw before.
DrawNoResults(r, n) ==
  /\ \E d \in Draws(n) : ids' = [ids EXCEPT ![r] = d]
  /\ IF phase[r] = "batch" THEN UNCHANGED results
     ELSE results' = [results EXCEPT ![r] = ids'[r]]

\* generateUniqueID for each of n urls
Draw(r, n) == \E d \in Draws(n) : /\ ids' = [ids EXCEPT ![r] = d]
                                 /\ results' = [results EXCEPT ![r] = d]

TypeOK ==
  /\ RepoType
  /\ phase \in [Requests -> {"idle", "batch", "save", "lookup", "done"}]
  /\ isBatch \in [Requests -> BOOLEAN]
  /\ urls \in [Requests -> Seq(URLs)]
  /\ user \in [Requests -> Owner]
  /\ ids \in [Requests -> Seq(IDs)]
  /\ item \in [Requests -> 1..MaxBatch]
  /\ attempt \in [Requests -> 0..MaxSaveRetries - 1]
  /\ results \in [Requests -> Seq(IDs)]
  /\ outcome \in [Requests -> {"none", "ok", "conflict", "error"}]
  /\ \A r \in Requests : Len(ids[r]) = Len(urls[r]) /\ Len(results[r]) = Len(urls[r])

EntryOf(r, k) == [id |-> ids[r][k], url |-> urls[r][k], user |-> user[r]]
EntriesOf(r) == [k \in DOMAIN urls[r] |-> EntryOf(r, k)]

----------------------------------------------------------------------------
(* The calls                                                               *)

\* A call arrives and draws its first ids.
Submit(r, batch, us, u) ==
  /\ phase[r] = "idle"
  /\ phase' = [phase EXCEPT ![r] = IF batch THEN "batch" ELSE "save"]
  /\ isBatch' = [isBatch EXCEPT ![r] = batch]
  /\ urls' = [urls EXCEPT ![r] = us]
  /\ user' = [user EXCEPT ![r] = u]
  /\ Draw(r, Len(us))
  /\ UNCHANGED <<repoVars, item, attempt, outcome>>

\* Anyone may shorten one url; a batch needs an authenticated user.
Shorten(r) == \E url \in URLs, u \in Owner : Submit(r, FALSE, <<url>>, u)
ShortenBatch(r) == \E us \in Batches, u \in Users : Submit(r, TRUE, us, u)

\* The request ends with this outcome.
Finish(r, o) ==
  /\ phase' = [phase EXCEPT ![r] = "done"]
  /\ outcome' = [outcome EXCEPT ![r] = o]

\* The context is cancelled, or no random bytes are to be had.
Fail(r) ==
  /\ phase[r] \in {"batch", "save", "lookup"}
  /\ Finish(r, "error")
  /\ UNCHANGED <<repoVars, isBatch, urls, user, ids, item, attempt, results>>

\* The url at hand has its answer: go on to the next, or finish with o.
Answer(r, id, o) ==
  /\ results' = [results EXCEPT ![r][item[r]] = id]
  /\ IF item[r] = Len(urls[r])
       THEN Finish(r, o) /\ UNCHANGED <<item, attempt>>
       ELSE /\ item' = [item EXCEPT ![r] = @ + 1]
            /\ attempt' = [attempt EXCEPT ![r] = 0]
            /\ phase' = [phase EXCEPT ![r] = "save"]
            /\ UNCHANGED outcome

\* Slip: one retry too many.
LastAttemptLate(r) == attempt[r] = MaxSaveRetries

LastAttempt(r) == attempt[r] + 1 = MaxSaveRetries

\* Slip: the retries are not counted.
SameAttempt(r) == UNCHANGED attempt

NextAttempt(r) == attempt' = [attempt EXCEPT ![r] = @ + 1]

----------------------------------------------------------------------------
(* Shorten, and shortenBatchOneByOne for each entry of a batch             *)

\* repo.Save stores the link.
SaveStored(r) ==
  /\ phase[r] = "save"
  /\ Save(EntryOf(r, item[r]))
  /\ Answer(r, ids[r][item[r]], "ok")
  /\ UNCHANGED <<isBatch, urls, user, ids>>

\* repo.Save finds the url taken: its link is looked up in a second call.
SaveURLExists(r) ==
  /\ phase[r] = "save"
  /\ SaveOutcome(<<EntryOf(r, item[r])>>) = "ErrURLExists"
  /\ phase' = [phase EXCEPT ![r] = "lookup"]
  /\ UNCHANGED <<repoVars, isBatch, urls, user, ids, item, attempt, results, outcome>>

\* repo.Save finds the id taken: draw another, up to maxSaveRetries times.
SaveConflict(r) ==
  /\ phase[r] = "save"
  /\ SaveOutcome(<<EntryOf(r, item[r])>>) = "ErrConflict"
  /\ IF LastAttempt(r)
       THEN Finish(r, "error") /\ UNCHANGED <<ids, attempt>>
       ELSE /\ NextAttempt(r)
            /\ \E i \in IDs : ids' = [ids EXCEPT ![r][item[r]] = i]
            /\ UNCHANGED <<phase, outcome>>
  /\ UNCHANGED <<repoVars, isBatch, urls, user, item, results>>

\* Slip: an existing link is answered as if it were new.
ExistingAsNew(r) == "ok"

\* ErrURLConflict; a batch does not tell that the link was there already.
ExistingOutcome(r) == IF isBatch[r] THEN "ok" ELSE "conflict"

\* findExistingShortURL, and its like in shortenBatchOneByOne.
Lookup(r) ==
  /\ phase[r] = "lookup"
  /\ LET id == GetByOriginalURL(urls[r][item[r]])
     IN  IF id = None
           THEN Finish(r, "error") /\ UNCHANGED <<results, item, attempt>>
           ELSE Answer(r, id, ExistingOutcome(r))
  /\ UNCHANGED <<repoVars, isBatch, urls, user, ids>>

----------------------------------------------------------------------------
(* ShortenBatch                                                            *)

\* repo.SaveBatch stores every entry.
BatchStored(r) ==
  /\ phase[r] = "batch"
  /\ SaveBatch(EntriesOf(r))
  /\ Finish(r, "ok")
  /\ UNCHANGED <<isBatch, urls, user, ids, item, attempt, results>>

\* Some url is taken: go through the entries one by one.
BatchURLExists(r) ==
  /\ phase[r] = "batch"
  /\ SaveOutcome(EntriesOf(r)) = "ErrURLExists"
  /\ phase' = [phase EXCEPT ![r] = "save"]
  /\ attempt' = [attempt EXCEPT ![r] = 0]
  /\ UNCHANGED <<repoVars, isBatch, urls, user, ids, item, results, outcome>>

\* Some id is taken: draw new ones for all entries.
BatchConflict(r) ==
  /\ phase[r] = "batch"
  /\ SaveOutcome(EntriesOf(r)) = "ErrConflict"
  /\ IF LastAttempt(r)
       THEN Finish(r, "error") /\ UNCHANGED <<ids, results, attempt>>
       ELSE /\ NextAttempt(r)
            /\ Draw(r, Len(urls[r]))
            /\ UNCHANGED <<phase, outcome>>
  /\ UNCHANGED <<repoVars, isBatch, urls, user, item>>

----------------------------------------------------------------------------
(* The specification                                                       *)

Init ==
  /\ RepoInit
  /\ phase = [r \in Requests |-> "idle"]
  /\ isBatch = [r \in Requests |-> FALSE]
  /\ urls = [r \in Requests |-> <<>>]
  /\ user = [r \in Requests |-> Anonymous]
  /\ ids = [r \in Requests |-> <<>>]
  /\ item = [r \in Requests |-> 1]
  /\ attempt = [r \in Requests |-> 0]
  /\ results = [r \in Requests |-> <<>>]
  /\ outcome = [r \in Requests |-> "none"]

RequestStep(r) ==
  \/ SaveStored(r) \/ SaveURLExists(r) \/ SaveConflict(r) \/ Lookup(r)
  \/ BatchStored(r) \/ BatchURLExists(r) \/ BatchConflict(r)

\* flushDeleteBatch calls the repository on behalf of u.
WorkerDeletes == \E S \in (SUBSET IDs) \ {{}}, u \in Users :
  DeleteUserURLs(S, u) /\ UNCHANGED requestVars

Next ==
  \/ \E r \in Requests : \/ Shorten(r) \/ ShortenBatch(r)
                         \/ RequestStep(r) \/ Fail(r)
  \/ WorkerDeletes

Spec == Init /\ [][Next]_vars

\* A request's goroutine runs until it has answered.
FairSpec == Spec /\ \A r \in Requests : WF_vars(RequestStep(r))

----------------------------------------------------------------------------
(* Properties                                                              *)

Answered(r) == outcome[r] \in {"ok", "conflict"}

\* "original url conflict but record not found" is never reported: between
\* ErrURLExists and the second call nobody takes the url away.
LookupNeverMisses ==
  \A r \in Requests : phase[r] = "lookup" => reverse[urls[r][item[r]]] # None

\* Every id answered leads to the url it was asked for, now and later.
AnswersResolve ==
  \A r \in Requests : Answered(r) =>
    \A k \in DOMAIN urls[r] : data[results[r][k]] = urls[r][k]

\* The two maps mirror each other: a url has one short id.
OneIDPerURL ==
  \A i \in IDs, u \in URLs : data[i] = u <=> reverse[u] = i

\* However many requests shorten a url at once, all are given the same link
\* and at most one of them is told that it created it.
OneCreator ==
  \A r, s \in Requests :
    r # s /\ Answered(r) /\ Answered(s) =>
      /\ \A k \in DOMAIN urls[r], l \in DOMAIN urls[s] :
           urls[r][k] = urls[s][l] => results[r][k] = results[s][l]
      /\ ~isBatch[r] /\ ~isBatch[s] /\ urls[r] = urls[s]
           => "conflict" \in {outcome[r], outcome[s]}

KeepsLinks ==
  \A i \in IDs : data[i] # None => /\ data'[i] = data[i]
                                   /\ owners'[i] = owners[i]
                                   /\ i \in deleted => i \in deleted'

\* A stored link is never redirected, re-owned or brought back.
LinkImmutable == [][KeepsLinks]_vars

\* Every request is answered: the retries are bounded.
EveryRequestEnds ==
  \A r \in Requests : phase[r] # "idle" ~> phase[r] = "done"
=============================================================================
