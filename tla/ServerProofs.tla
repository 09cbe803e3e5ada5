---------------------------- MODULE ServerProofs ----------------------------
(***************************************************************************)
(* Proofs about Server, for any clients, calls, ids and urls, and about    *)
(* Response, for any number of writes.                                     *)
(***************************************************************************)
EXTENDS Server, Response, FiniteSetTheorems, SequenceTheorems, TLAPS

GoneStatuses == {"Gone", "FailedPrecondition"}
AnswerStatuses == {"none", "Unauthorized", "Gone", "NotFound", "InternalServerError",
             "Unauthenticated", "FailedPrecondition", "Internal", "Conflict",
             "OK, conflict", "Created", "OK", "TemporaryRedirect", "NoContent", "Accepted"}
Creates == {"ShortenURL", "ShortenBatch"}

\* TypeOK, and the type of the answers
Types ==
  /\ TypeOK
  /\ answer \in [Requests -> [status : AnswerStatuses, links : SUBSET (IDs \X URLs)]]

\* Users are numbered as they are generated.
IssuedInOrder == \E n \in 0..MaxUsers : issued = 1..n

\* What a request is before it has come, and before it has been served
Fresh ==
  \A r \in Requests :
    /\ state[r] = "new" => call[r] = NoCall /\ user[r] = None /\ before[r] = {}
    /\ state[r] \in {"new", "running"} => answer[r] = NoAnswer
    /\ state[r] # "new" => call[r] \in Calls

\* A user belongs to one client, and a good cookie to the client that holds it.
OneClient ==
  /\ \A c \in Clients : cookie[c] \in Users =>
       \E r \in Requests : user[r] = cookie[c] /\ call[r].client = c
  /\ \A q, r \in Requests :
       user[q] = user[r] /\ user[q] # None => call[q].client = call[r].client

LinksDistinct == \A l, m \in links : l.id = m.id \/ l.url = m.url => l = m

\* The links in an answer are stored, and the stored ones have been asked for.
AnswersStored == \A r \in Requests : \A p \in answer[r].links :
                   \E l \in links : p = <<l.id, l.url>>

Wanted(l) == \E q \in Requests : /\ call[q].op \in Creates /\ l.url \in call[q].urls
                                 /\ user[q] = l.user
LinksAsked == \A l \in links : Wanted(l)

BeforeDelivered == \A r \in Requests : \A q \in before[r] : state[q] = "delivered"

\* A deletion is scheduled by a request of its user.
DeletionAsked(t) == \E r \in Requests : /\ Answered(r, "DeleteUserURLs") /\ t[1] \in call[r].ids
                                        /\ user[r] = t[2] /\ t[2] # None
PendingAsked == \A t \in pending : DeletionAsked(t)

\* Who is told that a link is gone has asked for one that is.
GoneIsDeleted ==
  \A r \in Requests : answer[r].status \in GoneStatuses =>
    /\ Answered(r, "ExpandURL") /\ call[r].ids \subseteq deleted
    /\ \E l \in links : l.id \in call[r].ids

\* How far the stop has come says which requests there may be.
Drained ==
  /\ life \notin {"serving", "stopping"} => Running("rpc") = {}
  /\ life \in {"stopped", "closing", "exited"} /\ ~timedOut => Running("http") = {}
  /\ life = "exited" => pending = {}

\* A deletion that was answered with 202 is pending until it is applied or lost.
Kept(i, u) == i \in deleted \/ <<i, u>> \in lost \/ <<i, u>> \in pending
Scheduled ==
  ~timedOut =>
    \A r \in Requests : Answered(r, "DeleteUserURLs") =>
      \A q \in before[r] : \A p \in Told(q) :
        user[q] = user[r] /\ p[1] \in call[r].ids => Kept(p[1], user[r])

IndInv ==
  /\ Types /\ IssuedInOrder /\ Fresh /\ OneClient
  /\ LinksDistinct /\ AnswersStored /\ LinksAsked /\ BeforeDelivered
  /\ PendingAsked /\ GoneIsDeleted /\ Drained /\ Scheduled
  /\ NeverForgotten /\ ListsOwn /\ DeletedByOwner

----------------------------------------------------------------------------
(* The initial states                                                      *)

LEMMA RequestsFinite == /\ Requests \subseteq Nat
                        /\ MaxUsers \in Nat
BY BoundsAssumption DEF Requests

LEMMA InitInv == Init => IndInv
<1> SUFFICES ASSUME Init PROVE IndInv
  OBVIOUS
<1>1. Types
  BY CookiesAssumption DEF Init, Types, TypeOK, NoAnswer, AnswerStatuses, Lives
<1>2. IssuedInOrder
  <2>1. 1..0 = {}
    OBVIOUS
  <2>2. QED
    BY <2>1, BoundsAssumption DEF Init, IssuedInOrder
<1>3. Fresh /\ OneClient
  BY CookiesAssumption, NoneAssumption DEF Init, Fresh, OneClient
<1>4. LinksDistinct /\ AnswersStored /\ LinksAsked /\ BeforeDelivered /\ PendingAsked
  BY DEF Init, LinksDistinct, AnswersStored, LinksAsked, BeforeDelivered, PendingAsked, NoAnswer
<1>5. GoneIsDeleted /\ Drained
  BY DEF Init, GoneIsDeleted, GoneStatuses, NoAnswer, Drained
<1>6. Scheduled /\ NeverForgotten /\ ListsOwn /\ DeletedByOwner
  BY DEF Init, Scheduled, Answered, NeverForgotten, ListsOwn, DeletedByOwner
<1>7. QED
  BY <1>1, <1>2, <1>3, <1>4, <1>5, <1>6 DEF IndInv

----------------------------------------------------------------------------
(* What the steps do                                                       *)

Advances == Stop \/ WindDown

LEMMA Steps ==
  ASSUME [Next]_vars
  PROVE  \/ UNCHANGED vars
         \/ \E r \in Requests, k \in Calls, u \in Users \cup {None} : Arrive(r, k, u)
         \/ \E r \in Requests : Serve(r) \/ Deliver(r)
         \/ \E t \in pending : Flush(t)
         \/ Advances
BY DEF Next, Advances, Ended

\* The links that a step adds are those of its request.
Grows(r) ==
  /\ links \subseteq links' /\ links' \subseteq Link
  /\ \A l \in links' \ links : l.user = user[r] /\ l.url \in call[r].urls /\ call[r].op \in Creates

LEMMA CallsAre ==
  \A k \in Calls : /\ k \in Call
                   /\ k.op \in {"ShortenBatch", "DeleteUserURLs"} => k.proto = "http"
                   /\ k.op \notin Creates => k.urls = {}
BY CallsAssumption DEF Creates

LEMMA CreateGrows ==
  ASSUME Types, Fresh, LinksDistinct, NEW r \in Requests, state[r] # "new", NEW us,
         NEW new \in SUBSET [id : IDs, url : call[r].urls, user : {user[r]}],
         Create(us, user[r], new), us \subseteq call[r].urls
  PROVE  /\ Grows(r) /\ LinksDistinct' /\ links' = links \cup new
         /\ UNCHANGED <<deleted, pending, lost>>
<1>1. call[r] \in Calls /\ call[r] \in Call
  BY CallsAssumption DEF Fresh
<1>2. new \subseteq Link
  <2>1. call[r].urls \subseteq URLs
    BY <1>1 DEF Call
  <2>2. user[r] \in Users \cup {None}
    BY DEF Types, TypeOK
  <2>3. QED
    BY <2>1, <2>2 DEF Link
<1>3. call[r].op \in Creates \/ new = {}
  <2>1. call[r].op \in Creates \/ call[r].urls = {}
    BY <1>1, CallsAre
  <2>2. ASSUME call[r].urls = {} PROVE new = {}
    BY <2>2
  <2>3. QED
    BY <2>1, <2>2
<1>4. Grows(r)
  BY <1>2, <1>3 DEF Grows, Create, Types, TypeOK
<1>5. \A l \in links, m \in new : l.id # m.id /\ l.url # m.url
  BY DEF Create
<1>6. \A l, m \in new : l.id = m.id \/ l.url = m.url => l = m
  BY DEF Create
<1>7. links' = links \cup new
  BY DEF Create
<1>8. LinksDistinct'
  BY <1>5, <1>6, <1>7 DEF LinksDistinct
<1>9. QED
  BY <1>4, <1>7, <1>8 DEF Create

\* A handler's step is a reply, whose links are stored when it ends.  It fails,
\* which it need not, or does what the call is about.
Replies(r, status, ls) ==
  /\ state[r] = "running" /\ life # "exited" /\ call[r] \in Calls
  /\ Reply(r, status, ls) /\ status \in AnswerStatuses
  /\ ls \subseteq links'
  /\ Grows(r) /\ LinksDistinct' /\ UNCHANGED <<deleted, lost>>
  /\ status \in GoneStatuses =>
       /\ call[r].op = "ExpandURL" /\ call[r].ids \subseteq deleted
       /\ \E l \in links : l.id \in call[r].ids
  /\ call[r].op = "ExpandURL" => \/ r \in failed'
                                 \/ /\ Expanded(r) # {} /\ call[r].ids \subseteq deleted
                                    /\ status \in GoneStatuses
                                 \/ ~(call[r].ids \subseteq deleted) /\ ls = Expanded(r)
                                 \/ Expanded(r) = {}
  /\ call[r].op = "ListUserURLs" /\ user[r] # None => r \in failed' \/ ls = OwnedBy(user[r])
  /\ failed \subseteq failed' /\ failed' \subseteq failed \cup {r}
  /\ IF call[r].op = "DeleteUserURLs" /\ life # "closing"
       THEN user[r] # None /\ pending' = pending \cup (call[r].ids \X {user[r]})
       ELSE pending' = pending

ServeInv == Types /\ Fresh /\ LinksDistinct

LEMMA CallOf ==
  ASSUME ServeInv, NEW r \in Requests, state[r] # "new"
  PROVE  /\ call[r] \in Calls /\ call[r].client \in Clients /\ call[r].proto \in {"http", "rpc"}
         /\ call[r].urls \subseteq URLs /\ call[r].ids \subseteq IDs
         /\ call[r].op \in {"ShortenBatch", "DeleteUserURLs"} => call[r].proto = "http"
         /\ call[r].op = "DeleteUserURLs" => user[r] # None
<1>1. call[r] \in Calls /\ call[r] \in Call
  BY CallsAssumption DEF ServeInv, Fresh
<1>2. /\ call[r].client \in Clients /\ call[r].proto \in {"http", "rpc"}
      /\ call[r].urls \subseteq URLs /\ call[r].ids \subseteq IDs
  BY <1>1 DEF Call
<1>3. call[r].op \in {"ShortenBatch", "DeleteUserURLs"} => call[r].proto = "http"
  BY <1>1, CallsAre
<1>4. call[r].proto = "http" => user[r] # None
  BY DEF ServeInv, Types, TypeOK
<1>5. QED
  BY <1>1, <1>2, <1>3, <1>4

LEMMA NothingStored ==
  ASSUME ServeInv, NEW r \in Requests, UNCHANGED links
  PROVE  Grows(r) /\ LinksDistinct'
BY DEF ServeInv, Grows, LinksDistinct, Types, TypeOK

LEMMA ErrorStatusIs ==
  ASSUME NEW proto, NEW err \in {"ErrNoUserID", "ErrDeleted", "ErrNotFound", "error"}
  PROVE  /\ ErrorStatus(proto, err) \in AnswerStatuses
         /\ ErrorStatus(proto, err) \in GoneStatuses <=> err = "ErrDeleted"
<1> USE DEF ErrorStatus, statusFromError, grpcStatusFromError, AnswerStatuses, GoneStatuses
<1>1. CASE err = "ErrNoUserID"
  BY <1>1
<1>2. CASE err = "ErrDeleted"
  BY <1>2
<1>3. CASE err = "ErrNotFound"
  BY <1>3
<1>4. CASE err = "error"
  BY <1>4
<1>5. QED
  BY <1>1, <1>2, <1>3, <1>4

LEMMA ServeReplies ==
  ASSUME ServeInv, NEW r \in Requests, Serve(r)
  PROVE  \E status, ls : Replies(r, status, ls)
<1> USE DEF ServeInv
<1>1. ASSUME NEW new \in SUBSET [id : IDs, url : call[r].urls, user : {user[r]}],
             ShortenURL(r, new)
      PROVE  \E status, ls : Replies(r, status, ls)
  <2> DEFINE status == IF new = {} THEN ConflictStatus(call[r].proto)
                                   ELSE CreatedStatus(call[r].proto)
             ls == AnswerStored(call[r].urls, new)
  <2>1. state[r] = "running" /\ life # "exited" /\ call[r] \in Calls /\ call[r].op = "ShortenURL"
    BY <1>1, CallOf DEF ShortenURL, Handles
  <2>2. Grows(r) /\ LinksDistinct' /\ links' = links \cup new /\ UNCHANGED <<deleted, pending, lost>>
    BY <1>1, <2>1, CreateGrows DEF ShortenURL
  <2>3. Reply(r, status, ls) /\ UNCHANGED failed
    BY <1>1 DEF ShortenURL
  <2>4. status \in AnswerStatuses /\ status \notin GoneStatuses
    BY DEF ConflictStatus, CreatedStatus, AnswerStatuses, GoneStatuses
  <2>5. ls \subseteq links'
    BY <2>2 DEF AnswerStored, WithURLs
  <2>6. QED
    BY <2>1, <2>2, <2>3, <2>4, <2>5 DEF Replies
<1>2. ASSUME NEW new \in SUBSET [id : IDs, url : call[r].urls, user : {user[r]}],
             ShortenBatch(r, new)
      PROVE  \E status, ls : Replies(r, status, ls)
  <2> DEFINE ls == WithURLs(links \cup new, call[r].urls)
  <2>1. state[r] = "running" /\ life # "exited" /\ call[r] \in Calls /\ call[r].op = "ShortenBatch"
    BY <1>2, CallOf DEF ShortenBatch, Handles
  <2>2. Grows(r) /\ LinksDistinct' /\ links' = links \cup new /\ UNCHANGED <<deleted, pending, lost>>
    BY <1>2, <2>1, CreateGrows DEF ShortenBatch
  <2>3. Reply(r, "Created", ls) /\ UNCHANGED failed
    BY <1>2 DEF ShortenBatch
  <2>4. "Created" \in AnswerStatuses /\ "Created" \notin GoneStatuses
    BY DEF AnswerStatuses, GoneStatuses
  <2>5. ls \subseteq links'
    BY <2>2 DEF WithURLs
  <2>6. QED
    BY <2>1, <2>2, <2>3, <2>4, <2>5 DEF Replies
<1>3. ASSUME NEW new \in SUBSET [id : IDs, url : call[r].urls, user : {user[r]}],
             Fail(r, new)
      PROVE  \E status, ls : Replies(r, status, ls)
  <2> DEFINE err == IF call[r].op = "ExpandURL" THEN "ErrNotFound" ELSE "error"
             status == ErrorStatus(call[r].proto, err)
  <2>1. state[r] = "running" /\ life # "exited" /\ call[r] \in Calls /\ call[r].op # "DeleteUserURLs"
    BY <1>3, CallOf DEF Fail, Handles
  <2>2. Create({l.url : l \in new}, user[r], new) /\ {l.url : l \in new} \subseteq call[r].urls
    BY <1>3 DEF Fail
  <2>3. Grows(r) /\ LinksDistinct' /\ UNCHANGED <<deleted, pending, lost>>
    BY <2>1, <2>2, CreateGrows
  <2>4. Reply(r, status, {}) /\ failed' = failed \cup {r}
    BY <1>3 DEF Fail, Refuse
  <2>5. status \in AnswerStatuses /\ status \notin GoneStatuses
    BY ErrorStatusIs
  <2>6. QED
    BY <2>1, <2>3, <2>4, <2>5 DEF Replies
<1>4. ASSUME ExpandURL(r) PROVE \E status, ls : Replies(r, status, ls)
  <2>1. state[r] = "running" /\ life # "exited" /\ call[r] \in Calls /\ call[r].op = "ExpandURL"
    BY <1>4, CallOf DEF ExpandURL, Handles
  <2>2. UNCHANGED <<storeVars, failed>> /\ Grows(r) /\ LinksDistinct'
    BY <1>4, NothingStored DEF ExpandURL, storeVars
  <2>3. CASE Expanded(r) = {} /\ Refuse(r, "ErrNotFound")
    <3> DEFINE status == ErrorStatus(call[r].proto, "ErrNotFound")
    <3>1. status \in AnswerStatuses /\ status \notin GoneStatuses
      BY ErrorStatusIs
    <3>2. Replies(r, status, {})
      BY <2>1, <2>2, <2>3, <3>1 DEF Replies, Refuse, storeVars
    <3>3. QED
      BY <3>2
  <2>4. CASE Expanded(r) # {} /\ call[r].ids \subseteq deleted /\ Refuse(r, "ErrDeleted")
    <3> DEFINE status == ErrorStatus(call[r].proto, "ErrDeleted")
    <3>1. status \in AnswerStatuses /\ status \in GoneStatuses
      BY ErrorStatusIs
    <3>2. \E l \in links : l.id \in call[r].ids
      BY <2>4 DEF Expanded
    <3>3. Replies(r, status, {})
      BY <2>1, <2>2, <2>4, <3>1, <3>2 DEF Replies, Refuse, storeVars
    <3>4. QED
      BY <3>3
  <2>5. CASE /\ Expanded(r) # {} /\ ~(call[r].ids \subseteq deleted)
             /\ Reply(r, IF call[r].proto = "http" THEN "TemporaryRedirect" ELSE "OK", Expanded(r))
    <3> DEFINE status == IF call[r].proto = "http" THEN "TemporaryRedirect" ELSE "OK"
    <3>1. status \in AnswerStatuses /\ status \notin GoneStatuses
      BY DEF AnswerStatuses, GoneStatuses
    <3>2. Replies(r, status, Expanded(r))
      BY <2>1, <2>2, <2>5, <3>1 DEF Replies, storeVars, Expanded
    <3>3. QED
      BY <3>2
  <2>6. QED
    BY <1>4, <2>3, <2>4, <2>5 DEF ExpandURL
<1>5. ASSUME ListUserURLs(r) PROVE \E status, ls : Replies(r, status, ls)
  <2> DEFINE status == IF OwnedBy(user[r]) = {} /\ call[r].proto = "http" THEN "NoContent" ELSE "OK"
  <2>1. state[r] = "running" /\ life # "exited" /\ call[r] \in Calls /\ call[r].op = "ListUserURLs"
    BY <1>5, CallOf DEF ListUserURLs, Handles
  <2>2. UNCHANGED <<storeVars, failed>> /\ Grows(r) /\ LinksDistinct'
    BY <1>5, NothingStored DEF ListUserURLs, storeVars
  <2>3. status \in AnswerStatuses /\ status \notin GoneStatuses
    BY DEF AnswerStatuses, GoneStatuses
  <2>4. Reply(r, status, OwnedBy(user[r]))
    BY <1>5 DEF ListUserURLs
  <2>5. Replies(r, status, OwnedBy(user[r]))
    BY <2>1, <2>2, <2>3, <2>4 DEF Replies, storeVars, OwnedBy
  <2>6. QED
    BY <2>5
<1>6. ASSUME Unauthorized(r) PROVE \E status, ls : Replies(r, status, ls)
  <2> DEFINE status == ErrorStatus(call[r].proto, "ErrNoUserID")
  <2>1. /\ state[r] = "running" /\ life # "exited" /\ call[r] \in Calls /\ user[r] = None
        /\ call[r].op \in {"ShortenBatch", "ListUserURLs"}
    BY <1>6, CallOf DEF Unauthorized, Handles
  <2>2. UNCHANGED <<storeVars, failed>> /\ Grows(r) /\ LinksDistinct'
    BY <1>6, NothingStored DEF Unauthorized, storeVars
  <2>3. status \in AnswerStatuses /\ status \notin GoneStatuses
    BY ErrorStatusIs
  <2>4. Replies(r, status, {})
    BY <1>6, <2>1, <2>2, <2>3 DEF Replies, Refuse, storeVars, Unauthorized
  <2>5. QED
    BY <2>4
<1>7. ASSUME DeleteUserURLs(r) PROVE \E status, ls : Replies(r, status, ls)
  <2>1. /\ state[r] = "running" /\ life # "exited" /\ call[r] \in Calls
        /\ call[r].op = "DeleteUserURLs" /\ user[r] # None
    BY <1>7, CallOf DEF DeleteUserURLs, Handles
  <2>2. UNCHANGED <<links, deleted, lost, failed>> /\ Grows(r) /\ LinksDistinct'
    BY <1>7, NothingStored DEF DeleteUserURLs
  <2>3. "Accepted" \in AnswerStatuses /\ "Accepted" \notin GoneStatuses
    BY DEF AnswerStatuses, GoneStatuses
  <2>4. Replies(r, "Accepted", {})
    BY <1>7, <2>1, <2>2, <2>3 DEF Replies, DeleteUserURLs, Closed
  <2>5. QED
    BY <2>4
<1>8. QED
  BY <1>1, <1>2, <1>3, <1>4, <1>5, <1>6, <1>7 DEF Serve

\* No request and no link is touched.
Quiet == UNCHANGED <<state, reqVars, answer, failed, authVars, storeVars>>

LEMMA Kinds ==
  ASSUME IndInv, [Next]_vars
  PROVE  \/ Quiet
         \/ \E r \in Requests, k \in Calls, u \in Users \cup {None} : Arrive(r, k, u)
         \/ \E r \in Requests : \E status, ls : Replies(r, status, ls)
         \/ \E r \in Requests : Deliver(r)
         \/ \E t \in pending : Flush(t)
<1>1. ServeInv
  BY DEF IndInv, ServeInv
<1>2. Advances \/ UNCHANGED vars => Quiet
  BY DEF Advances, Stop, WindDown, GracefulStop, Shutdown, ShutdownTimesOut, Wait, Close, Advance,
     Quiet, vars
<1>3. QED
  BY <1>1, <1>2, Steps, ServeReplies

\* What a reply changes of the requests
LEMMA ReplyMoves ==
  ASSUME Types, NEW r \in Requests, NEW status, NEW ls, Replies(r, status, ls)
  PROVE  /\ UNCHANGED <<reqVars, authVars, lifeVars>>
         /\ state' = [state EXCEPT ![r] = "served"] /\ state'[r] = "served"
         /\ answer'[r].status = status /\ answer'[r].links = {<<l.id, l.url>> : l \in ls}
         /\ \A q \in Requests \ {r} : state'[q] = state[q] /\ answer'[q] = answer[q]
         /\ answer' \in [Requests -> [status : AnswerStatuses, links : SUBSET (IDs \X URLs)]]
<1>1. state \in [Requests -> {"new", "running", "served", "delivered"}]
  BY DEF Types, TypeOK
<1>2. answer \in [Requests -> [status : AnswerStatuses, links : SUBSET (IDs \X URLs)]]
  BY DEF Types
<1>3. Reply(r, status, ls) /\ status \in AnswerStatuses /\ ls \subseteq Link
  BY DEF Replies, Grows
<1>4. [status |-> status, links |-> {<<l.id, l.url>> : l \in ls}]
        \in [status : AnswerStatuses, links : SUBSET (IDs \X URLs)]
  BY <1>3 DEF Link
<1>5. QED
  BY <1>1, <1>2, <1>3, <1>4 DEF Reply

\* What an arrival changes, and what it finds
LEMMA ArriveMoves ==
  ASSUME Types, OneClient, NEW r \in Requests, NEW k \in Calls, NEW u \in Users \cup {None},
         Arrive(r, k, u)
  PROVE  /\ state[r] = "new" /\ Taken(k.proto)
         /\ UNCHANGED <<answer, failed, cookie, storeVars, lifeVars>>
         /\ state' = [state EXCEPT ![r] = "running"]
         /\ call'[r] = k /\ user'[r] = u /\ k \in Call /\ k.client \in Clients
         /\ before'[r] = {q \in Requests : state[q] = "delivered"}
         /\ \A q \in Requests \ {r} : /\ state'[q] = state[q] /\ call'[q] = call[q]
                                      /\ user'[q] = user[q] /\ before'[q] = before[q]
         /\ call' \in [Requests -> Calls \cup {NoCall}]
         /\ token' \in [Requests -> Users \cup {None, Invalid}]
         /\ before' \in [Requests -> SUBSET Requests]
         /\ user' = [user EXCEPT ![r] = u]
         /\ k.proto = "http" => u # None
         /\ \/ issued' = issued /\ u = None
            \/ issued' = issued /\ u \in issued /\ u = cookie[k.client]
            \/ u \in Users /\ u = Cardinality(issued) + 1 /\ issued' = issued \cup {u}
<1>1. /\ state \in [Requests -> {"new", "running", "served", "delivered"}]
      /\ call \in [Requests -> Calls \cup {NoCall}]
      /\ token \in [Requests -> Users \cup {None, Invalid}]
      /\ user \in [Requests -> issued \cup {None}]
      /\ before \in [Requests -> SUBSET Requests]
      /\ cookie \in [Clients -> Users \cup {None, Invalid}]
  BY DEF Types, TypeOK
<1>2. k \in Call /\ k.client \in Clients /\ k.proto \in {"http", "rpc"}
  BY CallsAre DEF Call
<1>3. cookie[k.client] \in Users \cup {None, Invalid}
  BY <1>1, <1>2
<1>4. cookie[k.client] \in Users => cookie[k.client] \in issued
  <2> SUFFICES ASSUME cookie[k.client] \in Users PROVE cookie[k.client] \in issued
    OBVIOUS
  <2>1. PICK q \in Requests : user[q] = cookie[k.client]
    BY <1>2 DEF OneClient
  <2>2. user[q] \in issued \cup {None}
    BY <1>1
  <2>3. QED
    BY <2>1, <2>2, NoneAssumption
<1>5. /\ k.proto = "http" => u # None
      /\ \/ issued' = issued /\ u = None
         \/ issued' = issued /\ u \in issued /\ u = cookie[k.client]
         \/ u \in Users /\ u = Cardinality(issued) + 1 /\ issued' = issued \cup {u}
  <2>1. CASE k.proto = "http"
    <3>1. AuthMiddleware(cookie[k.client], u)
      BY <2>1 DEF Arrive
    <3>2. QED
      BY <2>1, <3>1, <1>4, NoneAssumption DEF AuthMiddleware, VerifyToken
  <2>2. CASE k.proto # "http"
    <3>1. GRPCAuthUnaryInterceptor(cookie[k.client], u)
      BY <2>2 DEF Arrive
    <3>2. QED
      BY <2>2, <3>1, <1>4 DEF GRPCAuthUnaryInterceptor, VerifyToken
  <2>3. QED
    BY <2>1, <2>2
<1>6. QED
  BY <1>1, <1>2, <1>3, <1>5 DEF Arrive

LEMMA DeliverMoves ==
  ASSUME Types, NEW r \in Requests, Deliver(r)
  PROVE  /\ state[r] = "served" /\ life \in {"serving", "stopping"}
         /\ UNCHANGED <<reqVars, answer, failed, issued, storeVars, lifeVars>>
         /\ state' = [state EXCEPT ![r] = "delivered"] /\ state'[r] = "delivered"
         /\ \A q \in Requests \ {r} : state'[q] = state[q]
         /\ \/ cookie' = cookie
            \/ call[r].proto = "http" /\ cookie' = [cookie EXCEPT ![call[r].client] = user[r]]
BY DEF Deliver, Types, TypeOK

----------------------------------------------------------------------------
(* The invariant is preserved, part by part                                *)

LEMMA LifeType ==
  ASSUME Types, [Next]_vars
  PROVE  life' \in Lives /\ timedOut' \in BOOLEAN
<1>1. life \in Lives /\ timedOut \in BOOLEAN
  BY DEF Types, TypeOK
<1>2. CASE UNCHANGED lifeVars
  BY <1>1, <1>2 DEF lifeVars
<1>3. CASE Advances
  BY <1>1, <1>3 DEF Advances, Stop, WindDown, GracefulStop, Shutdown, ShutdownTimesOut, Wait, Close,
     Advance, Lives
<1>4. UNCHANGED lifeVars \/ Advances
  <2>1. ASSUME NEW r \in Requests, Serve(r) PROVE UNCHANGED lifeVars
    BY <2>1 DEF Serve, ShortenURL, ShortenBatch, Fail, ExpandURL, ListUserURLs, Unauthorized,
       DeleteUserURLs, Refuse, Reply
  <2>2. QED
    BY <2>1, Steps DEF vars, Arrive, Deliver, Flush
<1>5. QED
  BY <1>2, <1>3, <1>4

LEMMA TypesStep ==
  ASSUME IndInv, [Next]_vars
  PROVE  Types'
<1> USE DEF Types, TypeOK
<1>1. Types /\ OneClient /\ Fresh /\ ServeInv
  BY DEF IndInv, ServeInv
<1>2. life' \in Lives /\ timedOut' \in BOOLEAN
  BY <1>1, LifeType
<1>3. CASE Quiet
  BY <1>1, <1>2, <1>3 DEF Quiet, reqVars, authVars, storeVars
<1>4. ASSUME NEW r \in Requests, NEW k \in Calls, NEW u \in Users \cup {None}, Arrive(r, k, u)
      PROVE  Types'
  <2>1. issued' \subseteq Users /\ issued \subseteq issued' /\ u \in issued' \cup {None}
    BY <1>1, <1>4, ArriveMoves
  <2>2. user' \in [Requests -> issued' \cup {None}]
    BY <1>1, <1>4, <2>1, ArriveMoves
  <2>3. ASSUME NEW q \in Requests, state'[q] # "new", call'[q].proto = "http"
        PROVE  user'[q] # None
    <3>1. CASE q = r
      BY <1>1, <1>4, <2>3, <3>1, ArriveMoves
    <3>2. CASE q # r
      BY <1>1, <1>4, <2>3, <3>2, ArriveMoves
    <3>3. QED
      BY <3>1, <3>2
  <2>4. pending' \subseteq IDs \X issued' /\ lost' \subseteq IDs \X issued'
    <3>1. pending' = pending /\ lost' = lost
      BY <1>1, <1>4, ArriveMoves DEF storeVars
    <3>2. QED
      BY <1>1, <2>1, <3>1
  <2>5. state' \in [Requests -> {"new", "running", "served", "delivered"}]
    BY <1>1, <1>4, ArriveMoves
  <2>6. UNCHANGED <<answer, failed, cookie, links, deleted>>
    BY <1>1, <1>4, ArriveMoves DEF storeVars
  <2>7. /\ call' \in [Requests -> Calls \cup {NoCall}]
        /\ token' \in [Requests -> Users \cup {None, Invalid}]
        /\ before' \in [Requests -> SUBSET Requests]
    BY <1>1, <1>4, ArriveMoves
  <2>8. QED
    BY <1>1, <1>2, <2>1, <2>2, <2>3, <2>4, <2>5, <2>6, <2>7
<1>5. ASSUME NEW r \in Requests, NEW status, NEW ls, Replies(r, status, ls)
      PROVE  Types'
  <2>1. UNCHANGED <<reqVars, authVars, lifeVars>> /\ state' = [state EXCEPT ![r] = "served"]
    BY <1>1, <1>5, ReplyMoves
  <2>2. answer' \in [Requests -> [status : AnswerStatuses, links : SUBSET (IDs \X URLs)]]
    BY <1>1, <1>5, ReplyMoves
  <2>3. links \subseteq links' /\ links' \subseteq Link /\ UNCHANGED <<deleted, lost>>
        /\ failed' \subseteq Requests
    BY <1>1, <1>5 DEF Replies, Grows
  <2>4. pending' \subseteq IDs \X issued
    <3>1. CASE pending' = pending
      BY <1>1, <3>1
    <3>2. CASE user[r] # None /\ pending' = pending \cup (call[r].ids \X {user[r]})
      <4>1. call[r].ids \subseteq IDs /\ user[r] \in issued
        BY <1>1, <1>5, <3>2, CallOf DEF Replies
      <4>2. QED
        BY <1>1, <3>2, <4>1
    <3>3. QED
      BY <1>5, <3>1, <3>2 DEF Replies
  <2>5. state' \in [Requests -> {"new", "running", "served", "delivered"}]
        /\ \A q \in Requests : state'[q] # "new" => state[q] # "new"
    BY <1>1, <1>5, <2>1 DEF Replies
  <2>6. QED
    BY <1>1, <1>2, <2>1, <2>2, <2>3, <2>4, <2>5 DEF reqVars, authVars
<1>6. ASSUME NEW r \in Requests, Deliver(r) PROVE Types'
  <2>1. /\ UNCHANGED <<reqVars, answer, failed, issued, storeVars, lifeVars>>
        /\ state' = [state EXCEPT ![r] = "delivered"] /\ state[r] # "new"
    BY <1>1, <1>6, DeliverMoves
  <2>2. cookie' \in [Clients -> Users \cup {None, Invalid}]
    BY <1>1, <1>6, DeliverMoves
  <2>3. state' \in [Requests -> {"new", "running", "served", "delivered"}]
        /\ \A q \in Requests : state'[q] # "new" => state[q] # "new"
    BY <1>1, <2>1
  <2>4. QED
    BY <1>1, <1>2, <2>1, <2>2, <2>3 DEF reqVars, storeVars
<1>7. ASSUME NEW t \in pending, Flush(t) PROVE Types'
  <2>1. /\ UNCHANGED <<state, reqVars, answer, failed, authVars, links>>
        /\ pending' \subseteq pending /\ lost' \subseteq lost \cup {t}
        /\ deleted' \subseteq {l.id : l \in links}
    BY <1>1, <1>7 DEF Flush, Mark, DueTo
  <2>2. QED
    BY <1>1, <1>2, <2>1 DEF reqVars, authVars
<1>8. QED
  BY <1>3, <1>4, <1>5, <1>6, <1>7, Kinds

LEMMA IssuedStep ==
  ASSUME IndInv, [Next]_vars
  PROVE  IssuedInOrder'
<1>1. Types /\ OneClient /\ IssuedInOrder
  BY DEF IndInv
<1>2. CASE issued' = issued
  BY <1>1, <1>2 DEF IssuedInOrder
<1>3. ASSUME NEW r \in Requests, NEW k \in Calls, NEW u \in Users \cup {None}, Arrive(r, k, u)
      PROVE  IssuedInOrder'
  <2>1. CASE issued' = issued
    BY <1>2, <2>1
  <2>2. CASE u \in Users /\ u = Cardinality(issued) + 1 /\ issued' = issued \cup {u}
    <3>1. PICK n \in 0..MaxUsers : issued = 1..n
      BY <1>1 DEF IssuedInOrder
    <3>2. Cardinality(issued) = n
      BY <3>1, RequestsFinite, FS_Interval
    <3>3. n + 1 \in 0..MaxUsers /\ issued' = 1..(n + 1)
      BY <2>2, <3>1, <3>2, RequestsFinite DEF Users
    <3>4. QED
      BY <3>3 DEF IssuedInOrder
  <2>3. QED
    BY <1>1, <1>3, <2>1, <2>2, ArriveMoves
<1>4. ASSUME NEW r \in Requests, NEW status, NEW ls, Replies(r, status, ls)
      PROVE  issued' = issued
  BY <1>1, <1>4, ReplyMoves DEF authVars
<1>5. ASSUME NEW r \in Requests, Deliver(r) PROVE issued' = issued
  BY <1>1, <1>5, DeliverMoves
<1>6. QED
  BY <1>2, <1>3, <1>4, <1>5, Kinds DEF Quiet, authVars, Flush

\* A fresh user is nobody's.
LEMMA FreshUser ==
  ASSUME IssuedInOrder, NEW u, u = Cardinality(issued) + 1
  PROVE  u \notin issued
<1>1. PICK n \in 0..MaxUsers : issued = 1..n
  BY DEF IssuedInOrder
<1>2. Cardinality(issued) = n
  BY <1>1, RequestsFinite, FS_Interval
<1>3. QED
  BY <1>1, <1>2, RequestsFinite

LEMMA FreshStep ==
  ASSUME IndInv, [Next]_vars
  PROVE  Fresh'
<1>1. Types /\ OneClient /\ Fresh
  BY DEF IndInv
<1>2. CASE UNCHANGED <<state, reqVars, answer>>
  BY <1>1, <1>2 DEF Fresh, reqVars
<1>3. ASSUME NEW r \in Requests, NEW k \in Calls, NEW u \in Users \cup {None}, Arrive(r, k, u)
      PROVE  Fresh'
  <2>1. answer' = answer /\ state[r] = "new" /\ state'[r] = "running" /\ call'[r] \in Calls
    BY <1>1, <1>3, ArriveMoves DEF Types, TypeOK
  <2>2. \A q \in Requests \ {r} : /\ state'[q] = state[q] /\ call'[q] = call[q]
                                 /\ user'[q] = user[q] /\ before'[q] = before[q]
    BY <1>1, <1>3, ArriveMoves
  <2>3. QED
    BY <1>1, <2>1, <2>2 DEF Fresh
<1>4. ASSUME NEW r \in Requests, NEW status, NEW ls, Replies(r, status, ls)
      PROVE  Fresh'
  <2>1. UNCHANGED reqVars /\ state'[r] = "served" /\ state[r] = "running"
    BY <1>1, <1>4, ReplyMoves DEF Replies
  <2>2. \A q \in Requests \ {r} : state'[q] = state[q] /\ answer'[q] = answer[q]
    BY <1>1, <1>4, ReplyMoves
  <2>3. QED
    BY <1>1, <2>1, <2>2 DEF Fresh, reqVars
<1>5. ASSUME NEW r \in Requests, Deliver(r) PROVE Fresh'
  <2>1. /\ UNCHANGED <<reqVars, answer>> /\ state'[r] = "delivered" /\ state[r] = "served"
        /\ \A q \in Requests \ {r} : state'[q] = state[q]
    BY <1>1, <1>5, DeliverMoves
  <2>2. QED
    BY <1>1, <2>1 DEF Fresh, reqVars
<1>6. QED
  BY <1>2, <1>3, <1>4, <1>5, Kinds DEF Quiet, Flush

LEMMA OneClientStep ==
  ASSUME IndInv, [Next]_vars
  PROVE  OneClient'
<1>1. Types /\ OneClient /\ Fresh /\ IssuedInOrder /\ ServeInv
  BY DEF IndInv, ServeInv
<1>2. CASE UNCHANGED <<reqVars, cookie>>
  BY <1>1, <1>2 DEF OneClient, reqVars
<1>3. ASSUME NEW r \in Requests, NEW k \in Calls, NEW u \in Users \cup {None}, Arrive(r, k, u)
      PROVE  OneClient'
  <2>1. /\ cookie' = cookie /\ user'[r] = u /\ call'[r] = k /\ user[r] = None
        /\ \A q \in Requests \ {r} : call'[q] = call[q] /\ user'[q] = user[q]
    BY <1>1, <1>3, ArriveMoves DEF Fresh
  <2>2. ASSUME NEW c \in Clients, cookie[c] \in Users
        PROVE  \E q \in Requests : user'[q] = cookie'[c] /\ call'[q].client = c
    <3>1. PICK q \in Requests : user[q] = cookie[c] /\ call[q].client = c
      BY <1>1, <2>2 DEF OneClient
    <3>2. q # r
      BY <2>1, <2>2, <3>1, NoneAssumption
    <3>3. QED
      BY <2>1, <3>1, <3>2
  <2>3. ASSUME NEW q \in Requests \ {r}, user[q] = u, u # None
        PROVE  call[q].client = k.client
    <3>1. user[q] \in issued
      BY <1>1, <2>3 DEF Types, TypeOK
    <3>2. u = cookie[k.client] /\ u \in Users
      BY <1>1, <1>3, <2>3, <3>1, ArriveMoves, FreshUser DEF Types, TypeOK
    <3>3. PICK p \in Requests : user[p] = cookie[k.client] /\ call[p].client = k.client
      BY <1>1, <1>3, <3>2, ArriveMoves DEF OneClient
    <3>4. QED
      BY <1>1, <2>3, <3>2, <3>3 DEF OneClient
  <2>4. ASSUME NEW p \in Requests, NEW q \in Requests, user'[p] = user'[q], user'[p] # None
        PROVE  call'[p].client = call'[q].client
    BY <1>1, <2>1, <2>3, <2>4 DEF OneClient
  <2>5. QED
    BY <2>1, <2>2, <2>4 DEF OneClient
<1>4. ASSUME NEW r \in Requests, NEW status, NEW ls, Replies(r, status, ls)
      PROVE  UNCHANGED <<reqVars, cookie>>
  BY <1>1, <1>4, ReplyMoves DEF authVars
<1>5. ASSUME NEW r \in Requests, Deliver(r) PROVE OneClient'
  <2>1. UNCHANGED reqVars
    BY <1>1, <1>5, DeliverMoves
  <2>2. CASE cookie' = cookie
    BY <1>2, <2>1, <2>2
  <2>3. CASE cookie' = [cookie EXCEPT ![call[r].client] = user[r]]
    <3>1. call[r].client \in Clients
      BY <1>1, <1>5, CallOf, DeliverMoves
    <3>2. ASSUME NEW c \in Clients, cookie'[c] \in Users
          PROVE  \E q \in Requests : user[q] = cookie'[c] /\ call[q].client = c
      <4>1. CASE c = call[r].client
        BY <1>1, <2>3, <3>1, <4>1 DEF Types, TypeOK
      <4>2. CASE c # call[r].client
        BY <1>1, <2>3, <3>2, <4>2 DEF Types, TypeOK, OneClient
      <4>3. QED
        BY <4>1, <4>2
    <3>3. QED
      BY <1>1, <2>1, <3>2 DEF OneClient, reqVars
  <2>4. QED
    BY <1>1, <1>5, <2>2, <2>3, DeliverMoves
<1>6. QED
  BY <1>2, <1>3, <1>4, <1>5, Kinds DEF Quiet, Flush, authVars

\* Links are added and marks are set, and never taken back.
LEMMA StoreGrows ==
  ASSUME IndInv, [Next]_vars
  PROVE  /\ links \subseteq links' /\ deleted \subseteq deleted' /\ LinksDistinct'
         /\ deleted' = deleted \/ \E t \in pending : Flush(t) /\ Mark(t)
<1>1. Types /\ OneClient /\ LinksDistinct
  BY DEF IndInv
<1>2. ASSUME NEW r \in Requests, NEW k \in Calls, NEW u \in Users \cup {None}, Arrive(r, k, u)
      PROVE  UNCHANGED <<links, deleted>>
  BY <1>1, <1>2, ArriveMoves DEF storeVars
<1>3. ASSUME NEW r \in Requests, Deliver(r) PROVE UNCHANGED <<links, deleted>>
  BY <1>1, <1>3, DeliverMoves DEF storeVars
<1>4. QED
  BY <1>1, <1>2, <1>3, Kinds DEF LinksDistinct, Quiet, storeVars, Flush, Mark, Replies, Grows

Served(r) == state[r] \in {"served", "delivered"}

\* What has been said stays said; and only a reply says something.
LEMMA RequestsStay ==
  ASSUME IndInv, [Next]_vars, NEW q \in Requests
  PROVE  /\ state[q] # "new" => /\ call'[q] = call[q] /\ user'[q] = user[q]
                                /\ before'[q] = before[q] /\ state'[q] # "new"
         /\ state[q] = "delivered" => state'[q] = "delivered"
         /\ Served(q) => Served(q)' /\ answer'[q] = answer[q] /\ (q \in failed' <=> q \in failed)
         /\ Served(q)' /\ ~Served(q) => \E status, ls : Replies(q, status, ls)
         /\ answer'[q] = answer[q] \/ \E status, ls : Replies(q, status, ls)
<1>1. Types /\ OneClient
  BY DEF IndInv
<1>2. CASE UNCHANGED <<state, reqVars, answer, failed>>
  BY <1>2 DEF reqVars, Served
<1>3. ASSUME NEW r \in Requests, NEW k \in Calls, NEW u \in Users \cup {None}, Arrive(r, k, u)
      PROVE  /\ UNCHANGED <<answer, failed>> /\ state[r] = "new" /\ state'[r] = "running"
             /\ \A p \in Requests \ {r} : /\ state'[p] = state[p] /\ call'[p] = call[p]
                                          /\ user'[p] = user[p] /\ before'[p] = before[p]
  BY <1>1, <1>3, ArriveMoves DEF Types, TypeOK
<1>4. ASSUME NEW r \in Requests, NEW status, NEW ls, Replies(r, status, ls)
      PROVE  /\ UNCHANGED reqVars /\ state[r] = "running" /\ state'[r] = "served"
             /\ \A p \in Requests \ {r} : /\ state'[p] = state[p] /\ answer'[p] = answer[p]
                                          /\ p \in failed' <=> p \in failed
  BY <1>1, <1>4, ReplyMoves DEF Replies
<1>5. ASSUME NEW r \in Requests, Deliver(r)
      PROVE  /\ UNCHANGED <<reqVars, answer, failed>>
             /\ state[r] = "served" /\ state'[r] = "delivered"
             /\ \A p \in Requests \ {r} : state'[p] = state[p]
  BY <1>1, <1>5, DeliverMoves
<1>6. QED
  BY <1>2, <1>3, <1>4, <1>5, Kinds DEF Quiet, Flush, reqVars, Served

LEMMA AnswersStoredStep ==
  ASSUME IndInv, [Next]_vars
  PROVE  AnswersStored'
<1> SUFFICES ASSUME NEW r \in Requests, NEW p \in answer'[r].links
    PROVE \E l \in links' : p = <<l.id, l.url>>
  BY DEF AnswersStored
<1>1. CASE answer'[r] = answer[r]
  BY <1>1, StoreGrows DEF IndInv, AnswersStored
<1>2. ASSUME NEW status, NEW ls, Replies(r, status, ls)
      PROVE  \E l \in links' : p = <<l.id, l.url>>
  <2>1. answer'[r].links = {<<l.id, l.url>> : l \in ls} /\ ls \subseteq links'
    BY <1>2, ReplyMoves DEF IndInv, Replies
  <2>2. QED
    BY <2>1
<1>3. QED
  BY <1>1, <1>2, RequestsStay

\* A link that was asked for stays so.
LEMMA WantedStays ==
  ASSUME IndInv, [Next]_vars, NEW q \in Requests, call[q].op \in Creates
  PROVE  call'[q] = call[q] /\ user'[q] = user[q]
<1>1. state[q] # "new"
  BY DEF IndInv, Fresh, NoCall, Creates
<1>2. QED
  BY <1>1, RequestsStay

LEMMA LinksAskedStep ==
  ASSUME IndInv, [Next]_vars
  PROVE  LinksAsked'
<1> SUFFICES ASSUME NEW l \in links' PROVE Wanted(l)'
  BY DEF LinksAsked
<1>1. CASE l \in links
  <2>1. PICK q \in Requests : call[q].op \in Creates /\ l.url \in call[q].urls /\ user[q] = l.user
    BY <1>1 DEF IndInv, LinksAsked, Wanted
  <2>2. QED
    BY <2>1, WantedStays DEF Wanted
<1>2. CASE l \notin links
  <2>1. PICK r \in Requests : \E status, ls : Replies(r, status, ls)
    <3>1. ASSUME NEW r \in Requests, NEW k \in Calls, NEW u \in Users \cup {None}, Arrive(r, k, u)
          PROVE  links' = links
      BY <3>1, ArriveMoves DEF IndInv, storeVars
    <3>2. ASSUME NEW r \in Requests, Deliver(r) PROVE links' = links
      BY <3>2, DeliverMoves DEF IndInv, storeVars
    <3>3. QED
      BY <1>2, <3>1, <3>2, Kinds DEF Quiet, storeVars, Flush, Mark
  <2>2. l.user = user[r] /\ l.url \in call[r].urls /\ call[r].op \in Creates
    BY <1>2, <2>1 DEF Replies, Grows
  <2>3. QED
    BY <2>2, WantedStays DEF Wanted
<1>3. QED
  BY <1>1, <1>2

LEMMA BeforeDeliveredStep ==
  ASSUME IndInv, [Next]_vars
  PROVE  BeforeDelivered'
<1> SUFFICES ASSUME NEW r \in Requests, NEW q \in before'[r] PROVE state'[q] = "delivered"
  BY DEF BeforeDelivered
<1>1. CASE q \in before[r]
  <2>1. state[q] = "delivered" /\ q \in Requests
    BY <1>1 DEF IndInv, BeforeDelivered, Types, TypeOK
  <2>2. QED
    BY <2>1, RequestsStay
<1>2. CASE q \notin before[r]
  <2>1. ASSUME NEW p \in Requests, NEW k \in Calls, NEW u \in Users \cup {None}, Arrive(p, k, u)
        PROVE  q \in Requests /\ state[q] = "delivered"
    BY <1>2, <2>1, ArriveMoves DEF IndInv
  <2>2. ASSUME NEW p \in Requests, NEW status, NEW ls, Replies(p, status, ls)
        PROVE  UNCHANGED reqVars
    BY <2>2, ReplyMoves DEF IndInv
  <2>3. ASSUME NEW p \in Requests, Deliver(p) PROVE UNCHANGED reqVars
    BY <2>3, DeliverMoves DEF IndInv
  <2>4. q \in Requests /\ state[q] = "delivered"
    BY <1>2, <2>1, <2>2, <2>3, Kinds DEF Quiet, Flush, reqVars
  <2>5. QED
    BY <2>4, RequestsStay
<1>3. QED
  BY <1>1, <1>2

LEMMA PendingAskedStep ==
  ASSUME IndInv, [Next]_vars
  PROVE  PendingAsked'
<1>1. ASSUME NEW t, DeletionAsked(t) PROVE DeletionAsked(t)'
  <2>1. PICK r \in Requests : /\ Answered(r, "DeleteUserURLs") /\ t[1] \in call[r].ids
                              /\ user[r] = t[2] /\ t[2] # None
    BY <1>1 DEF DeletionAsked
  <2>2. Served(r) /\ state[r] # "new"
    BY <2>1 DEF Answered, Served
  <2>3. Served(r)' /\ call'[r] = call[r] /\ user'[r] = user[r]
    BY <2>2, RequestsStay
  <2>4. QED
    BY <2>1, <2>3 DEF DeletionAsked, Answered, Served
<1>2. CASE pending' \subseteq pending
  BY <1>1, <1>2 DEF PendingAsked, IndInv
<1>3. ASSUME NEW r \in Requests, NEW status, NEW ls, Replies(r, status, ls)
      PROVE  PendingAsked'
  <2>1. CASE call[r].op = "DeleteUserURLs" /\ user[r] # None
             /\ pending' = pending \cup (call[r].ids \X {user[r]})
    <3>1. UNCHANGED reqVars /\ state'[r] = "served"
      BY <1>3, ReplyMoves DEF IndInv
    <3>2. \A t \in call[r].ids \X {user[r]} : DeletionAsked(t)'
      BY <2>1, <3>1 DEF DeletionAsked, Answered, reqVars
    <3>3. QED
      BY <1>1, <2>1, <3>2 DEF PendingAsked, IndInv
  <2>2. QED
    BY <1>2, <1>3, <2>1 DEF Replies
<1>4. ASSUME NEW r \in Requests, NEW k \in Calls, NEW u \in Users \cup {None}, Arrive(r, k, u)
      PROVE  pending' = pending
  BY <1>4, ArriveMoves DEF IndInv, storeVars
<1>5. ASSUME NEW r \in Requests, Deliver(r) PROVE pending' = pending
  BY <1>5, DeliverMoves DEF IndInv, storeVars
<1>6. QED
  BY <1>2, <1>3, <1>4, <1>5, Kinds DEF Quiet, storeVars, Flush

LEMMA GoneStep ==
  ASSUME IndInv, [Next]_vars
  PROVE  GoneIsDeleted'
<1> SUFFICES ASSUME NEW r \in Requests, answer'[r].status \in GoneStatuses
    PROVE  /\ Answered(r, "ExpandURL")' /\ call'[r].ids \subseteq deleted'
           /\ \E l \in links' : l.id \in call'[r].ids
  BY DEF GoneIsDeleted
<1>1. CASE answer'[r] = answer[r]
  <2>1. /\ Answered(r, "ExpandURL") /\ call[r].ids \subseteq deleted
        /\ \E l \in links : l.id \in call[r].ids
    BY <1>1 DEF IndInv, GoneIsDeleted
  <2>2. Served(r) /\ state[r] # "new"
    BY <2>1 DEF Answered, Served
  <2>3. Served(r)' /\ call'[r] = call[r]
    BY <2>2, RequestsStay
  <2>4. QED
    BY <2>1, <2>3, StoreGrows DEF Answered, Served
<1>2. ASSUME NEW status, NEW ls, Replies(r, status, ls)
      PROVE  /\ Answered(r, "ExpandURL")' /\ call'[r].ids \subseteq deleted'
             /\ \E l \in links' : l.id \in call'[r].ids
  <2>1. UNCHANGED reqVars /\ state'[r] = "served" /\ answer'[r].status = status
    BY <1>2, ReplyMoves DEF IndInv
  <2>2. call[r].op = "ExpandURL" /\ call[r].ids \subseteq deleted /\ \E l \in links : l.id \in call[r].ids
    BY <1>2, <2>1 DEF Replies
  <2>3. QED
    BY <2>1, <2>2, StoreGrows DEF reqVars, Answered
<1>3. QED
  BY <1>1, <1>2, RequestsStay

LEMMA DrainedStep ==
  ASSUME IndInv, [Next]_vars
  PROVE  Drained'
<1> USE DEF Drained, Running
<1>1. Types /\ OneClient /\ Drained /\ Fresh
  BY DEF IndInv
<1>2. CASE UNCHANGED vars
  BY <1>1, <1>2 DEF vars, reqVars, storeVars, lifeVars
<1>3. ASSUME NEW r \in Requests, NEW k \in Calls, NEW u \in Users \cup {None}, Arrive(r, k, u)
      PROVE  Drained'
  <2>1. UNCHANGED <<pending, life, timedOut>> /\ Taken(k.proto) /\ k.proto \in {"http", "rpc"}
    BY <1>1, <1>3, ArriveMoves DEF storeVars, lifeVars, Call
  <2>2. \A q \in Requests \ {r} : state'[q] = state[q] /\ call'[q] = call[q]
    BY <1>1, <1>3, ArriveMoves
  <2>3. QED
    BY <1>1, <2>1, <2>2 DEF Taken
<1>4. ASSUME NEW r \in Requests, NEW status, NEW ls, Replies(r, status, ls)
      PROVE  Drained'
  <2>1. /\ UNCHANGED <<reqVars, lifeVars>> /\ state'[r] = "served" /\ life # "exited"
        /\ \A q \in Requests \ {r} : state'[q] = state[q]
    BY <1>1, <1>4, ReplyMoves DEF Replies
  <2>2. QED
    BY <1>1, <2>1 DEF reqVars, lifeVars
<1>5. ASSUME NEW r \in Requests, Deliver(r) PROVE Drained'
  <2>1. /\ UNCHANGED <<reqVars, pending, lifeVars>> /\ state'[r] = "delivered"
        /\ \A q \in Requests \ {r} : state'[q] = state[q]
    BY <1>1, <1>5, DeliverMoves DEF storeVars
  <2>2. QED
    BY <1>1, <2>1 DEF reqVars, lifeVars
<1>6. ASSUME NEW t \in pending, Flush(t) PROVE Drained'
  BY <1>1, <1>6 DEF Flush, reqVars, lifeVars
<1>7. CASE Advances
  <2>1. UNCHANGED <<state, call, pending>>
    BY <1>7 DEF Advances, Stop, WindDown, GracefulStop, Shutdown, ShutdownTimesOut, Wait, Close,
       Advance, reqVars, storeVars
  <2>2. QED
    BY <1>1, <1>7, <2>1 DEF Advances, Stop, WindDown, GracefulStop, Shutdown, ShutdownTimesOut,
       Wait, Close, Advance, AllFlushed
<1>8. QED
  <2>1. ServeInv
    BY DEF IndInv, ServeInv
  <2>2. QED
    BY <2>1, <1>2, <1>3, <1>4, <1>5, <1>6, <1>7, Steps, ServeReplies

\* An answer tells of no link that it did not tell of when it was given.
LEMMA ToldBefore ==
  ASSUME IndInv, [Next]_vars, NEW q \in Requests, Served(q)
  PROVE  Told(q)' \subseteq Told(q)
<1> SUFFICES ASSUME NEW p \in Told(q)' PROVE p \in Told(q)
  OBVIOUS
<1>1. state[q] # "new" /\ answer'[q] = answer[q] /\ user'[q] = user[q]
  BY RequestsStay DEF Served
<1> DEFINE m == [id |-> p[1], url |-> p[2], user |-> user[q]]
<1>2. p \in answer[q].links /\ m \in links'
  BY <1>1 DEF Told
<1>3. PICK l \in links : p = <<l.id, l.url>>
  BY <1>2 DEF IndInv, AnswersStored
<1>4. m = l
  BY <1>2, <1>3, StoreGrows DEF LinksDistinct
<1>5. QED
  BY <1>2, <1>3, <1>4 DEF Told

\* Who is in before[r] has had its answer when r came.
LEMMA BeforeServed ==
  ASSUME IndInv, NEW r \in Requests, NEW q \in before[r]
  PROVE  q \in Requests /\ Served(q) /\ state[q] # "new"
BY DEF IndInv, BeforeDelivered, Served, Types, TypeOK

LEMMA NeverForgottenStep ==
  ASSUME IndInv, [Next]_vars
  PROVE  NeverForgotten'
<1> SUFFICES ASSUME NEW q \in Requests, NEW r \in Requests,
                    q \in before'[r], Answered(r, "ExpandURL")', r \notin failed'
    PROVE  /\ answer'[q].status \in GoneStatuses /\ call'[q].ids = call'[r].ids =>
                answer'[r].status \in GoneStatuses
           /\ \A p \in answer'[q].links : p[1] \in call'[r].ids =>
                answer'[r].status \in GoneStatuses \/ p \in answer'[r].links
  BY DEF NeverForgotten, GoneStatuses
<1>1. CASE Served(r)
  <2>1. /\ call'[r] = call[r] /\ before'[r] = before[r] /\ answer'[r] = answer[r] /\ r \notin failed
    BY <1>1, RequestsStay DEF Served
  <2>2. q \in before[r] /\ Served(q) /\ state[q] # "new"
    BY <2>1, BeforeServed
  <2>3. call'[q] = call[q] /\ answer'[q] = answer[q]
    BY <2>2, RequestsStay
  <2>4. Answered(r, "ExpandURL")
    BY <1>1, <2>1 DEF Answered, Served
  <2>5. QED
    BY <2>1, <2>2, <2>3, <2>4 DEF IndInv, NeverForgotten, GoneStatuses
<1>2. CASE ~Served(r)
  <2>1. PICK status, ls : Replies(r, status, ls)
    BY <1>2, RequestsStay DEF Served, Answered
  <2>2. /\ UNCHANGED reqVars /\ answer'[r].status = status
        /\ answer'[r].links = {<<l.id, l.url>> : l \in ls}
    BY <2>1, ReplyMoves DEF IndInv
  <2>3. q \in before[r] /\ Served(q) /\ call[r].op = "ExpandURL"
    BY <2>2, BeforeServed DEF reqVars, Answered
  <2>4. answer'[q] = answer[q]
    BY <2>3, RequestsStay
  <2>5. \/ Expanded(r) # {} /\ call[r].ids \subseteq deleted /\ status \in GoneStatuses
        \/ ~(call[r].ids \subseteq deleted) /\ ls = Expanded(r)
        \/ Expanded(r) = {}
    BY <2>1, <2>3 DEF Replies
  <2>6. ASSUME answer[q].status \in GoneStatuses, call[q].ids = call[r].ids
        PROVE  status \in GoneStatuses
    <3>1. call[r].ids \subseteq deleted /\ \E l \in links : l.id \in call[r].ids
      BY <2>6 DEF IndInv, GoneIsDeleted
    <3>2. QED
      BY <2>5, <3>1 DEF Expanded
  <2>7. ASSUME NEW p \in answer[q].links, p[1] \in call[r].ids
        PROVE  status \in GoneStatuses \/ p \in answer'[r].links
    <3>1. PICK l \in links : p = <<l.id, l.url>>
      BY <2>7 DEF IndInv, AnswersStored
    <3>2. l \in Expanded(r)
      BY <2>7, <3>1 DEF Expanded
    <3>3. QED
      BY <2>2, <2>5, <3>1, <3>2
  <2>8. QED
    BY <2>2, <2>4, <2>6, <2>7 DEF reqVars
<1>3. QED
  BY <1>1, <1>2

\* A client that has asked for a url has done so ever after.
LEMMA AskedForStays ==
  ASSUME IndInv, [Next]_vars, NEW r \in Requests, state[r] # "new", NEW url,
         AskedFor(call[r].client, user[r], url)
  PROVE  AskedFor(call[r].client, user[r], url)'
<1>1. PICK q \in Requests : /\ call[q].op \in Creates /\ url \in call[q].urls
                            /\ call[q].client = call[r].client /\ user[q] = user[r]
  BY DEF AskedFor, Creates
<1>2. call'[q] = call[q] /\ user'[q] = user[q]
  BY <1>1, WantedStays
<1>3. call'[r] = call[r] /\ user'[r] = user[r]
  BY RequestsStay
<1>4. QED
  BY <1>1, <1>2, <1>3 DEF AskedFor, Creates

\* The client whose user a link has is the one that has asked for it.
LEMMA OwnerAsked ==
  ASSUME IndInv, NEW l \in links, NEW r \in Requests, user[r] = l.user, user[r] # None
  PROVE  AskedFor(call[r].client, user[r], l.url)
<1>1. PICK q \in Requests : call[q].op \in Creates /\ l.url \in call[q].urls /\ user[q] = l.user
  BY DEF IndInv, LinksAsked, Wanted
<1>2. call[q].client = call[r].client
  BY <1>1 DEF IndInv, OneClient
<1>3. QED
  BY <1>1, <1>2 DEF AskedFor, Creates

LEMMA ListsOwnStep ==
  ASSUME IndInv, [Next]_vars
  PROVE  ListsOwn'
<1> SUFFICES ASSUME NEW r \in Requests, Answered(r, "ListUserURLs")', r \notin failed',
                    user'[r] # None
    PROVE  /\ \A q \in before'[r] : user'[q] = user'[r] => Told(q)' \subseteq answer'[r].links
           /\ \A p \in answer'[r].links : AskedFor(call[r].client, user[r], p[2])'
  BY DEF ListsOwn
<1>1. CASE Served(r)
  <2>1. /\ call'[r] = call[r] /\ user'[r] = user[r] /\ before'[r] = before[r]
        /\ answer'[r] = answer[r] /\ r \notin failed
    BY <1>1, RequestsStay DEF Served
  <2>2. Answered(r, "ListUserURLs")
    BY <1>1, <2>1 DEF Answered, Served
  <2>3. /\ \A q \in before[r] : user[q] = user[r] => Told(q) \subseteq answer[r].links
        /\ \A p \in answer[r].links : AskedFor(call[r].client, user[r], p[2])
    BY <2>1, <2>2 DEF IndInv, ListsOwn
  <2>4. ASSUME NEW q \in before[r], user'[q] = user[r] PROVE Told(q)' \subseteq answer[r].links
    <3>1. q \in Requests /\ Served(q) /\ state[q] # "new"
      BY BeforeServed
    <3>2. Told(q)' \subseteq Told(q) /\ user'[q] = user[q]
      BY <3>1, ToldBefore, RequestsStay
    <3>3. QED
      BY <2>3, <2>4, <3>2
  <2>5. \A p \in answer[r].links : AskedFor(call[r].client, user[r], p[2])'
    BY <1>1, <2>3, AskedForStays DEF Served
  <2>6. QED
    BY <2>1, <2>4, <2>5
<1>2. CASE ~Served(r)
  <2>1. PICK status, ls : Replies(r, status, ls)
    BY <1>2, RequestsStay DEF Served, Answered
  <2>2. UNCHANGED reqVars /\ answer'[r].links = {<<l.id, l.url>> : l \in ls}
    BY <2>1, ReplyMoves DEF IndInv
  <2>3. ls = OwnedBy(user[r])
    BY <2>1, <2>2 DEF Replies, Answered, reqVars
  <2>4. ASSUME NEW q \in before[r], user[q] = user[r] PROVE Told(q)' \subseteq answer'[r].links
    <3>1. q \in Requests /\ Served(q)
      BY BeforeServed
    <3>2. SUFFICES ASSUME NEW p \in Told(q) PROVE p \in answer'[r].links
      BY <3>1, ToldBefore
    <3>3. p \in IDs \X URLs
      BY <3>1 DEF Told, IndInv, Types
    <3>4. [id |-> p[1], url |-> p[2], user |-> user[r]] \in OwnedBy(user[r])
      BY <2>4 DEF Told, OwnedBy
    <3>5. QED
      BY <2>2, <2>3, <3>3, <3>4
  <2>5. ASSUME NEW p \in answer'[r].links PROVE AskedFor(call[r].client, user[r], p[2])'
    <3>1. PICK l \in links : l.user = user[r] /\ p = <<l.id, l.url>>
      BY <2>2, <2>3 DEF OwnedBy
    <3>2. AskedFor(call[r].client, user[r], p[2])
      BY <2>2, <3>1, OwnerAsked DEF reqVars
    <3>3. QED
      BY <2>1, <3>2, AskedForStays DEF Replies
  <2>6. QED
    BY <2>2, <2>4, <2>5 DEF reqVars
<1>3. QED
  BY <1>1, <1>2

LEMMA DeletedByOwnerStep ==
  ASSUME IndInv, [Next]_vars
  PROVE  DeletedByOwner'
<1> DEFINE Ordered(l) == \E r \in Requests :
                           /\ Answered(r, "DeleteUserURLs") /\ l.id \in call[r].ids
                           /\ user[r] = l.user /\ AskedFor(call[r].client, user[r], l.url)
<1> SUFFICES ASSUME NEW l \in links', l.id \in deleted'
    PROVE  l.user # None /\ Ordered(l)'
  BY DEF DeletedByOwner
<1>1. ASSUME l.user # None, Ordered(l) PROVE Ordered(l)'
  <2>1. PICK r \in Requests : /\ Answered(r, "DeleteUserURLs") /\ l.id \in call[r].ids
                              /\ user[r] = l.user /\ AskedFor(call[r].client, user[r], l.url)
    BY <1>1
  <2>2. Served(r) /\ state[r] # "new"
    BY <2>1 DEF Answered, Served
  <2>3. Served(r)' /\ call'[r] = call[r] /\ user'[r] = user[r]
    BY <2>2, RequestsStay
  <2>4. AskedFor(call[r].client, user[r], l.url)'
    BY <2>1, <2>2, AskedForStays
  <2>5. QED
    BY <2>1, <2>3, <2>4 DEF Answered, Served
<1>2. CASE l.id \in deleted
  <2>1. l \in links
    <3>1. PICK m \in links : m.id = l.id
      BY <1>2 DEF IndInv, Types, TypeOK
    <3>2. QED
      BY <3>1, StoreGrows DEF LinksDistinct
  <2>2. QED
    BY <1>1, <1>2, <2>1 DEF IndInv, DeletedByOwner
<1>3. CASE l.id \notin deleted
  <2>1. PICK t \in pending : Flush(t) /\ Mark(t)
    BY <1>3, StoreGrows
  <2>2. PICK m \in links : m.id = l.id /\ m.id = t[1] /\ m.user = t[2]
    BY <1>3, <2>1 DEF Mark, DueTo
  <2>3. l = m
    BY <2>2, StoreGrows DEF LinksDistinct
  <2>4. PICK r \in Requests : /\ Answered(r, "DeleteUserURLs") /\ t[1] \in call[r].ids
                              /\ user[r] = t[2] /\ t[2] # None
    BY <2>1 DEF IndInv, PendingAsked, DeletionAsked
  <2>5. AskedFor(call[r].client, user[r], l.url)
    BY <2>2, <2>3, <2>4, OwnerAsked
  <2>6. QED
    BY <1>1, <2>2, <2>3, <2>4, <2>5
<1>4. QED
  BY <1>2, <1>3

\* Once a deletion is pending, its link gets its mark, or the deletion is lost.
LEMMA KeptStays ==
  ASSUME IndInv, [Next]_vars, NEW i, NEW u, Kept(i, u), \E l \in links : l.id = i /\ l.user = u
  PROVE  Kept(i, u)'
<1>1. ASSUME NEW r \in Requests, NEW k \in Calls, NEW v \in Users \cup {None}, Arrive(r, k, v)
      PROVE  UNCHANGED storeVars
  BY <1>1, ArriveMoves DEF IndInv
<1>2. ASSUME NEW r \in Requests, Deliver(r) PROVE UNCHANGED storeVars
  BY <1>2, DeliverMoves DEF IndInv
<1>3. ASSUME NEW r \in Requests, NEW status, NEW ls, Replies(r, status, ls)
      PROVE  UNCHANGED <<deleted, lost>> /\ pending \subseteq pending'
  BY <1>3 DEF Replies
<1>4. ASSUME NEW t \in pending, Flush(t) PROVE Kept(i, u)'
  BY <1>4 DEF Flush, Mark, DueTo, Kept
<1>5. QED
  BY <1>1, <1>2, <1>3, <1>4, Kinds DEF Quiet, storeVars, Kept

LEMMA ScheduledStep ==
  ASSUME IndInv, [Next]_vars
  PROVE  Scheduled'
<1> SUFFICES ASSUME ~timedOut', NEW r \in Requests, Answered(r, "DeleteUserURLs")',
                    NEW q \in before'[r], NEW p \in Told(q)', user'[q] = user'[r],
                    p[1] \in call'[r].ids
    PROVE  Kept(p[1], user[r])'
  BY DEF Scheduled
<1>1. CASE Served(r)
  <2>1. /\ call'[r] = call[r] /\ user'[r] = user[r] /\ before'[r] = before[r]
    BY <1>1, RequestsStay DEF Served
  <2>2. Answered(r, "DeleteUserURLs")
    BY <1>1, <2>1 DEF Answered, Served
  <2>3. q \in Requests /\ Served(q) /\ state[q] # "new"
    BY <2>1, BeforeServed
  <2>4. p \in Told(q) /\ user'[q] = user[q]
    BY <2>3, ToldBefore, RequestsStay
  <2>5. ~timedOut
    <3>1. ASSUME NEW s \in Requests, NEW k \in Calls, NEW u \in Users \cup {None}, Arrive(s, k, u)
          PROVE  timedOut' = timedOut
      BY <3>1, ArriveMoves DEF IndInv, lifeVars
    <3>2. ASSUME NEW s \in Requests, NEW status, NEW ls, Replies(s, status, ls)
          PROVE  timedOut' = timedOut
      BY <3>2, ReplyMoves DEF IndInv, lifeVars
    <3>3. ASSUME NEW s \in Requests, Deliver(s) PROVE timedOut' = timedOut
      BY <3>3, DeliverMoves DEF IndInv, lifeVars
    <3>4. ASSUME Advances PROVE timedOut' = timedOut
      BY <3>4 DEF Advances, Stop, WindDown, GracefulStop, Shutdown, ShutdownTimesOut, Wait, Close
    <3>5. ServeInv
      BY DEF IndInv, ServeInv
    <3>6. QED
      BY <3>1, <3>2, <3>3, <3>4, <3>5, Steps, ServeReplies DEF vars, lifeVars, Flush
  <2>6. Kept(p[1], user[r])
    BY <2>1, <2>2, <2>4, <2>5 DEF IndInv, Scheduled
  <2>7. [id |-> p[1], url |-> p[2], user |-> user[r]] \in links
    BY <2>1, <2>4 DEF Told
  <2>8. PICK u : u = user[r]
    OBVIOUS
  <2>9. Kept(p[1], u)'
    BY <2>6, <2>7, <2>8, KeptStays
  <2>10. QED
    BY <2>1, <2>8, <2>9 DEF Kept
<1>2. CASE ~Served(r)
  <2>1. PICK status, ls : Replies(r, status, ls)
    BY <1>2, RequestsStay DEF Served, Answered
  <2>2. UNCHANGED <<reqVars, lifeVars>>
    BY <2>1, ReplyMoves DEF IndInv
  <2>3. state[r] = "running" /\ call[r].op = "DeleteUserURLs" /\ call[r].proto = "http"
    BY <2>1, <2>2, CallsAre DEF Replies, Answered, reqVars
  <2>4. life # "closing"
    BY <2>2, <2>3 DEF IndInv, Drained, Running, lifeVars
  <2>5. <<p[1], user[r]>> \in pending'
    BY <2>1, <2>2, <2>3, <2>4 DEF Replies, reqVars
  <2>6. QED
    BY <2>2, <2>5 DEF Kept, reqVars
<1>3. QED
  BY <1>1, <1>2

----------------------------------------------------------------------------
(* The theorems                                                            *)

\* The invariant from which the others follow: who has which user, which links are
\* stored and answered, and what the stop waits for.
THEOREM IndInvariant == Spec => []IndInv
<1>1. Init => IndInv
  BY InitInv
<1>2. IndInv /\ [Next]_vars => IndInv'
  <2> SUFFICES ASSUME IndInv, [Next]_vars PROVE IndInv'
    OBVIOUS
  <2>1. Types' /\ IssuedInOrder' /\ Fresh' /\ OneClient'
    BY TypesStep, IssuedStep, FreshStep, OneClientStep
  <2>2. LinksDistinct' /\ AnswersStored' /\ LinksAsked' /\ BeforeDelivered'
    BY StoreGrows, AnswersStoredStep, LinksAskedStep, BeforeDeliveredStep
  <2>3. PendingAsked' /\ GoneIsDeleted' /\ Drained' /\ Scheduled'
    BY PendingAskedStep, GoneStep, DrainedStep, ScheduledStep
  <2>4. NeverForgotten' /\ ListsOwn' /\ DeletedByOwner'
    BY NeverForgottenStep, ListsOwnStep, DeletedByOwnerStep
  <2>5. QED
    BY <2>1, <2>2, <2>3, <2>4 DEF IndInv
<1>3. QED
  BY <1>1, <1>2, PTL DEF Spec

\* The state stays in its types, and no handler of the HTTP server is reached
\* without a user.
THEOREM TypeCorrect == Spec => []TypeOK
<1>1. IndInv => TypeOK
  BY DEF IndInv, Types
<1>2. QED
  BY <1>1, IndInvariant, PTL

\* In all answers of the server together, an id stands for one url and a url for one id.
THEOREM AnswersAgreeHolds == Spec => []AnswersAgree
<1>1. IndInv => AnswersAgree
  <2> SUFFICES ASSUME IndInv, NEW q \in Requests, NEW r \in Requests,
                      NEW m \in answer[q].links, NEW n \in answer[r].links
      PROVE m[1] = n[1] <=> m[2] = n[2]
    BY DEF AnswersAgree
  <2>1. PICK l \in links : m = <<l.id, l.url>>
    BY DEF IndInv, AnswersStored
  <2>2. PICK k \in links : n = <<k.id, k.url>>
    BY DEF IndInv, AnswersStored
  <2>3. QED
    BY <2>1, <2>2 DEF IndInv, LinksDistinct
<1>2. QED
  BY <1>1, IndInvariant, PTL

\* A short url that a client was given is found by its later requests until it is gone.
THEOREM NeverForgottenHolds == Spec => []NeverForgotten
<1>1. IndInv => NeverForgotten
  BY DEF IndInv
<1>2. QED
  BY <1>1, IndInvariant, PTL

\* A listing is complete, and has nothing that its client has not asked for.
THEOREM ListsOwnHolds == Spec => []ListsOwn
<1>1. IndInv => ListsOwn
  BY DEF IndInv
<1>2. QED
  BY <1>1, IndInvariant, PTL

\* Only the client that has created a link has it deleted.
THEOREM DeletedByOwnerHolds == Spec => []DeletedByOwner
<1>1. IndInv => DeletedByOwner
  BY DEF IndInv
<1>2. QED
  BY <1>1, IndInvariant, PTL

\* A process that ends, without having given up on requests, has handled all of them
\* and has applied the deletions that it accepted, or failed to.
THEOREM OrderlyStopHolds == Spec => []OrderlyStop
<1>1. IndInv => OrderlyStop
  <2> SUFFICES ASSUME IndInv, life = "exited", ~timedOut
      PROVE  /\ \A r \in Requests : state[r] # "running"
             /\ \A r \in Requests : Answered(r, "DeleteUserURLs") =>
                  \A q \in before[r] : \A p \in Told(q) :
                    user[q] = user[r] /\ p[1] \in call[r].ids =>
                      p[1] \in deleted \/ <<p[1], user[r]>> \in lost
    BY DEF OrderlyStop
  <2>1. ASSUME NEW r \in Requests, state[r] = "running" PROVE FALSE
    <3>1. ServeInv
      BY DEF IndInv, ServeInv
    <3>2. call[r].proto \in {"http", "rpc"}
      BY <2>1, <3>1, CallOf
    <3>3. QED
      BY <2>1, <3>2 DEF IndInv, Drained, Running
  <2>2. pending = {}
    BY DEF IndInv, Drained
  <2>3. QED
    BY <2>1, <2>2 DEF IndInv, Scheduled, Kept
<1>2. QED
  BY <1>1, IndInvariant, PTL
----------------------------------------------------------------------------
(* The answer on its way through the middleware                            *)

Tokens == Chunks \cup {"GzipHeader", "GzipTrailer"}

ResponseTypes ==
  /\ step \in {"begin", "type", "header", "write", "end"}
  /\ contentType \in ContentTypes \cup {"none"}
  /\ contentEncoding \in {"none", "gzip"}
  /\ writer \in {"none", "plain", "gzip"}
  /\ begun \in BOOLEAN
  /\ held \in Seq(Tokens) /\ wrote \in Seq(Tokens) /\ wire \in Seq(Tokens)
  /\ sent \in [status : Statuses \cup {"none"}, encoding : {"none", "gzip"}]
  /\ log \in [status : Statuses, size : Nat]

\* A client is never sent what it has not asked for, and told of what it is sent.
Agreed ==
  /\ writer # "none" => accepts
  /\ compress <=> writer = "gzip"
  /\ contentEncoding = "gzip" <=> writer = "gzip"

\* Before its first WriteHeader or Write the handler has no say.
Untouched ==
  /\ sent = Unsent /\ log = FirstLog /\ ~wroteHeader /\ ~compress
  /\ wire = <<>> /\ wrote = <<>> /\ held = <<>> /\ ~begun

\* From then on the encoding is settled, and what was written is on the wire, or
\* held by a gzip.Writer that has begun its stream.
Flowing ==
  /\ sent.status \in Statuses /\ sent.encoding = contentEncoding
  /\ log.status = sent.status
  /\ writer # "none" => wroteHeader
  /\ writer # "gzip" => ~begun
  /\ ~begun => held = <<>>
  /\ writer = "gzip" /\ ~begun => wire = <<>> /\ wrote = <<>>
  /\ wire \o held = IF begun THEN <<"GzipHeader">> \o wrote ELSE wrote

ResponseInv ==
  /\ ResponseTypes
  /\ Agreed
  /\ log.size = Len(wire)
  /\ step \in {"begin", "type", "header"} => Untouched
  /\ step = "write" => Flowing
  /\ step = "end" => Readable /\ LoggedAsSent

LEMMA SplitSequence ==
  ASSUME NEW T, NEW s \in Seq(T), NEW k \in 0..Len(s)
  PROVE  /\ SubSeq(s, 1, k) \in Seq(T) /\ SubSeq(s, k + 1, Len(s)) \in Seq(T)
         /\ SubSeq(s, 1, k) \o SubSeq(s, k + 1, Len(s)) = s
<1> DEFINE a == SubSeq(s, 1, k)
           b == SubSeq(s, k + 1, Len(s))
<1>1. Len(s) \in Nat /\ k \in Nat /\ k <= Len(s)
  OBVIOUS
<1>2. a \in Seq(T) /\ Len(a) = k /\ \A j \in 1..k : a[j] = s[j]
  BY <1>1
<1>3. b \in Seq(T) /\ Len(b) = Len(s) - k /\ \A j \in 1..Len(s) - k : b[j] = s[k + j]
  BY <1>1
<1> HIDE DEF a, b
<1>4. /\ a \o b \in Seq(T) /\ Len(a \o b) = Len(s)
      /\ \A j \in 1..Len(s) : (a \o b)[j] = IF j <= k THEN a[j] ELSE b[j - k]
  BY <1>1, <1>2, <1>3
<1>5. \A j \in 1..Len(s) : (a \o b)[j] = s[j]
  <2>1. SUFFICES ASSUME NEW j \in 1..Len(s) PROVE (a \o b)[j] = s[j]
    OBVIOUS
  <2>2. CASE j <= k
    BY <1>1, <1>2, <1>4, <2>2
  <2>3. CASE j > k
    <3>1. j - k \in 1..Len(s) - k /\ k + (j - k) = j
      BY <1>1, <2>3
    <3>2. QED BY <1>1, <1>3, <1>4, <2>3, <3>1
  <2>4. j <= k \/ j > k
    BY <1>1, <2>1
  <2>5. QED BY <2>2, <2>3, <2>4
<1>6. a \o b = s
  BY <1>2, <1>3, <1>4, <1>5, ConcatProperties, SeqEqual
<1>7. QED BY <1>2, <1>3, <1>6 DEF a, b

LEMMA ConcatAppend ==
  ASSUME NEW T, NEW s \in Seq(T), NEW t \in Seq(T), NEW x \in T
  PROVE  s \o Append(t, x) = Append(s \o t, x)
OBVIOUS

\* Some of what was held, and the new chunk, goes out; the rest stays.
PassedOn(T, w, h, p, b, x, k) ==
  LET all  == Append(h, x)
      out  == SubSeq(all, 1, k)
      rest == SubSeq(all, k + 1, Len(all))
  IN  /\ out \in Seq(T) /\ rest \in Seq(T) /\ Append(p, x) \in Seq(T)
      /\ w \o h = b \o p => (w \o out) \o rest = b \o Append(p, x)
      /\ h = p => (b \o out) \o rest = b \o Append(p, x)

LEMMA PassesSome ==
  ASSUME NEW T, NEW w \in Seq(T), NEW h \in Seq(T), NEW p \in Seq(T), NEW b \in Seq(T),
         NEW x \in T, NEW k \in 0..Len(Append(h, x))
  PROVE  PassedOn(T, w, h, p, b, x, k)
<1> DEFINE all  == Append(h, x)
           out  == SubSeq(all, 1, k)
           rest == SubSeq(all, k + 1, Len(all))
<1>1. all \in Seq(T) /\ Append(p, x) \in Seq(T)
  OBVIOUS
<1>2. out \in Seq(T) /\ rest \in Seq(T) /\ out \o rest = all
  BY <1>1, SplitSequence
<1>3. ASSUME NEW o \in Seq(T), NEW r \in Seq(T)
      PROVE  o \o r = Append(h, x) =>
               /\ w \o h = b \o p => (w \o o) \o r = b \o Append(p, x)
               /\ h = p => (b \o o) \o r = b \o Append(p, x)
  <2>1. (w \o o) \o r = w \o (o \o r)
    BY ConcatAssociative, SMTT(60)
  <2>2. (b \o o) \o r = b \o (o \o r)
    BY ConcatAssociative, SMTT(60)
  <2>3. w \o Append(h, x) = Append(w \o h, x)
    BY ConcatAppend
  <2>4. b \o Append(p, x) = Append(b \o p, x)
    BY ConcatAppend
  <2>5. QED BY <2>1, <2>2, <2>3, <2>4, Zenon
<1> HIDE DEF out, rest
<1>4. /\ w \o h = b \o p => (w \o out) \o rest = b \o Append(p, x)
      /\ h = p => (b \o out) \o rest = b \o Append(p, x)
  BY <1>2, <1>3
<1>5. QED BY <1>1, <1>2, <1>4 DEF out, rest, PassedOn

\* The headers go out once.
LEMMA HeadersOnce ==
  ASSUME ResponseTypes, sent = Unsent \/ sent.status \in Statuses,
         NEW status \in Statuses, NEW encoding \in {"none", "gzip"},
         SendHeaders(status, encoding)
  PROVE  /\ sent' \in [status : Statuses \cup {"none"}, encoding : {"none", "gzip"}]
         /\ sent'.status \in Statuses
         /\ sent.status \in Statuses => sent' = sent
         /\ sent = Unsent => sent'.status = status /\ sent'.encoding = encoding
<1>1. sent = Unsent => sent.status = "none" /\ sent.encoding = "none"
  BY DEF Unsent
<1>2. "none" \notin Statuses
  BY DEF Statuses
<1>3. CASE sent = Unsent
  BY <1>1, <1>2, <1>3 DEF SendHeaders
<1>4. CASE sent # Unsent
  BY <1>2, <1>4 DEF SendHeaders, ResponseTypes
<1>5. QED BY <1>3, <1>4

LEMMA ResponseInitInv ==
  ASSUME ResponseInit
  PROVE  ResponseInv
<1>1. ResponseTypes
  <2>1. /\ sent \in [status : Statuses \cup {"none"}, encoding : {"none", "gzip"}]
        /\ log \in [status : Statuses, size : Nat]
    BY DEF ResponseInit, Unsent, FirstLog, Statuses
  <2>2. held \in Seq(Tokens) /\ wrote \in Seq(Tokens) /\ wire \in Seq(Tokens)
    BY DEF ResponseInit
  <2>3. QED BY <2>1, <2>2 DEF ResponseInit, ResponseTypes
<1>2. Agreed /\ Untouched /\ step = "begin"
  BY DEF ResponseInit, Agreed, Untouched
<1>3. log.size = Len(wire)
  BY DEF ResponseInit, FirstLog
<1>4. QED BY <1>1, <1>2, <1>3 DEF ResponseInv

LEMMA ReceiveStep ==
  ASSUME ResponseInv, Receive
  PROVE  ResponseInv'
<1>1. ResponseTypes /\ Agreed /\ Untouched /\ step = "begin" /\ log.size = Len(wire)
  BY DEF ResponseInv, Receive
<1>2. CASE request = "bad"
  <2>1. /\ step' = "end" /\ contentType' = "text/plain" /\ writer' = writer
        /\ sent' = [status |-> "BadRequest", encoding |-> "none"]
        /\ wire' = <<"text">> /\ wrote' = <<"text">>
        /\ log' = [status |-> "BadRequest", size |-> 1]
        /\ UNCHANGED <<accepts, contentEncoding, compress, begun, held>>
    BY <1>2 DEF Receive
  <2>2. "text" \in Chunks /\ "text" \in Tokens
    BY DEF Chunks, Tokens
  <2>3. ResponseTypes'
    BY <1>1, <2>1, <2>2 DEF ResponseTypes, ContentTypes, Statuses
  <2>4. Readable' /\ LoggedAsSent'
    BY <2>1 DEF Readable, LoggedAsSent
  <2>5. log'.size = Len(wire')
    BY <2>1
  <2>6. QED BY <1>1, <2>1, <2>3, <2>4, <2>5 DEF ResponseInv, Agreed
<1>3. CASE request # "bad"
  <2>1. /\ step' = "type" /\ writer' = IF accepts THEN "plain" ELSE "none"
        /\ UNCHANGED <<contentType, sent, wire, log, wrote, accepts, contentEncoding,
                       wroteHeader, compress, begun, held>>
    BY <1>3 DEF Receive
  <2>2. ResponseTypes'
    BY <1>1, <2>1 DEF ResponseTypes
  <2>3. Untouched' /\ log'.size = Len(wire')
    BY <1>1, <2>1 DEF Untouched
  <2>4. Agreed'
    BY <1>1, <2>1 DEF Agreed, Untouched
  <2>5. QED BY <2>1, <2>2, <2>3, <2>4 DEF ResponseInv
<1>4. QED BY <1>2, <1>3

LEMMA SetTypeStep ==
  ASSUME ResponseInv, NEW type \in ContentTypes, SetType(type)
  PROVE  ResponseInv'
<1>1. /\ ResponseTypes /\ Agreed /\ Untouched /\ log.size = Len(wire)
      /\ step' = "header" /\ contentType' = type
      /\ UNCHANGED <<accepts, gzipVars, contentEncoding, sent, wire, log, wrote>>
  BY DEF ResponseInv, SetType
<1>2. ResponseTypes'
  BY <1>1 DEF ResponseTypes, gzipVars
<1>3. Agreed' /\ Untouched' /\ log'.size = Len(wire')
  BY <1>1 DEF Agreed, Untouched, gzipVars
<1>4. QED BY <1>1, <1>2, <1>3 DEF ResponseInv

\* The choice is made when nothing has been sent or written.
LEMMA ChooseFacts ==
  ASSUME ResponseTypes, Agreed, NEW type, chooseCompression(type), accepts' = accepts
  PROVE  /\ Agreed'
         /\ contentEncoding' \in {"none", "gzip"} /\ writer' \in {"none", "plain", "gzip"}
         /\ writer = "none" <=> writer' = "none"
BY DEF ResponseTypes, Agreed, chooseCompression

LEMMA WriteHeaderStep ==
  ASSUME ResponseInv, NEW status \in Statuses, WriteHeader(status)
  PROVE  ResponseInv'
<1>1. /\ ResponseTypes /\ Agreed /\ Untouched /\ log.size = Len(wire)
      /\ step' = "write" /\ wroteHeader' = TRUE
      /\ chooseCompression(contentType)
      /\ SendHeaders(status, contentEncoding')
      /\ log' = [log EXCEPT !.status = status]
      /\ UNCHANGED <<accepts, contentType, begun, held, wrote, wire>>
  BY DEF ResponseInv, WriteHeader, LoggedWriteHeader
<1>2. /\ Agreed' /\ contentEncoding' \in {"none", "gzip"} /\ writer' \in {"none", "plain", "gzip"}
  BY <1>1, ChooseFacts
<1>3. /\ sent' \in [status : Statuses \cup {"none"}, encoding : {"none", "gzip"}]
      /\ sent'.status = status /\ sent'.encoding = contentEncoding'
  BY <1>1, <1>2, HeadersOnce DEF Untouched
<1>4. log' \in [status : Statuses, size : Nat] /\ log'.status = status /\ log'.size = log.size
  BY <1>1 DEF ResponseTypes
<1>5. ResponseTypes'
  BY <1>1, <1>2, <1>3, <1>4 DEF ResponseTypes
<1>6. Flowing'
  BY <1>1, <1>3, <1>4 DEF Flowing, Untouched
<1>7. QED BY <1>1, <1>2, <1>4, <1>5, <1>6 DEF ResponseInv

\* What Write finds and chooses before the chunk goes anywhere
LEMMA WriteChooses ==
  ASSUME ResponseInv, NEW chunk \in Chunks, Write(chunk)
  PROVE  /\ Agreed' /\ contentEncoding' \in {"none", "gzip"}
         /\ writer' \in {"none", "plain", "gzip"}
         /\ contentType' \in ContentTypes \cup {"none"}
         /\ writer' # "none" => wroteHeader'
         /\ \/ Untouched
            \/ Flowing /\ writer' = writer /\ contentEncoding' = contentEncoding
<1>1. /\ ResponseTypes /\ Agreed /\ accepts' = accepts
      /\ Untouched \/ Flowing
      /\ step = "write" => Flowing
      /\ IF wroteHeader \/ writer = "none"
           THEN UNCHANGED <<contentType, contentEncoding, compress, writer, wroteHeader>>
           ELSE /\ contentType' = IF contentType = "none" THEN Sniffed(chunk) ELSE contentType
                /\ chooseCompression(contentType')
                /\ wroteHeader' = TRUE
  BY DEF ResponseInv, Write
<1>2. CASE wroteHeader \/ writer = "none"
  BY <1>1, <1>2 DEF ResponseTypes, Agreed
<1>3. CASE ~(wroteHeader \/ writer = "none")
  <2>1. Untouched
    BY <1>1, <1>3 DEF Flowing
  <2>2. /\ Agreed' /\ contentEncoding' \in {"none", "gzip"}
        /\ writer' \in {"none", "plain", "gzip"}
    BY <1>1, <1>3, ChooseFacts
  <2>3. contentType' \in ContentTypes \cup {"none"}
    BY <1>1, <1>3 DEF Sniffed, ContentTypes, ResponseTypes
  <2>4. QED BY <1>1, <1>3, <2>1, <2>2, <2>3
<1>4. QED BY <1>2, <1>3

LEMMA WriteStep ==
  ASSUME ResponseInv, NEW chunk \in Chunks, Write(chunk)
  PROVE  ResponseInv'
<1>1. /\ ResponseTypes /\ log.size = Len(wire)
      /\ step' = "write" /\ wrote' = Append(wrote, chunk)
      /\ IF writer' = "gzip" THEN WriteGzip(chunk) ELSE WritePlain(chunk)
  BY DEF ResponseInv, Write
<1>2. /\ Agreed' /\ contentEncoding' \in {"none", "gzip"}
      /\ writer' \in {"none", "plain", "gzip"}
      /\ contentType' \in ContentTypes \cup {"none"}
      /\ writer' # "none" => wroteHeader'
      /\ \/ Untouched
         \/ Flowing /\ writer' = writer /\ contentEncoding' = contentEncoding
  BY WriteChooses
<1>3. ASSUME NEW tokens \in Seq(Tokens), LoggedWrite(tokens, contentEncoding'),
             held' \in Seq(Tokens), begun' \in BOOLEAN, wrote' \in Seq(Tokens),
             writer' # "gzip" => ~begun',
             ~begun' => held' = <<>>,
             writer' = "gzip" => begun',
             wire' \o held' = IF begun' THEN <<"GzipHeader">> \o wrote' ELSE wrote'
      PROVE  ResponseInv'
  <2>1. /\ SendHeaders("OK", contentEncoding')
        /\ wire' = wire \o tokens
        /\ log' = [log EXCEPT !.size = @ + Len(tokens)]
    BY <1>3 DEF LoggedWrite
  <2>2. "OK" \in Statuses
    BY DEF Statuses
  <2>3. /\ sent' \in [status : Statuses \cup {"none"}, encoding : {"none", "gzip"}]
        /\ sent'.status \in Statuses
        /\ sent.status \in Statuses => sent' = sent
        /\ sent = Unsent => sent'.status = "OK" /\ sent'.encoding = contentEncoding'
    BY <1>1, <1>2, <2>1, <2>2, HeadersOnce DEF Untouched, Flowing
  <2>4. /\ wire' \in Seq(Tokens) /\ Len(wire') = Len(wire) + Len(tokens)
        /\ Len(wire) \in Nat /\ Len(tokens) \in Nat
    BY <1>1, <1>3, <2>1 DEF ResponseTypes
  <2>5. /\ log' \in [status : Statuses, size : Nat]
        /\ log'.status = log.status /\ log'.size = Len(wire')
    <3>1. log.size + Len(tokens) = Len(wire') /\ Len(wire') \in Nat
      BY <1>1, <2>4
    <3>2. log' = [log EXCEPT !.size = Len(wire')]
      BY <2>1, <3>1
    <3>3. QED BY <1>1, <3>1, <3>2 DEF ResponseTypes
  <2>6. ResponseTypes'
    BY <1>1, <1>2, <1>3, <2>3, <2>4, <2>5 DEF ResponseTypes
  <2>7. sent'.encoding = contentEncoding' /\ log'.status = sent'.status
    <3>1. CASE Untouched
      BY <2>3, <2>5, <3>1 DEF Untouched, FirstLog
    <3>2. CASE Flowing /\ contentEncoding' = contentEncoding
      BY <2>3, <2>5, <3>2 DEF Flowing
    <3>3. QED BY <1>2, <3>1, <3>2
  <2>8. Flowing'
    BY <1>2, <1>3, <2>3, <2>7 DEF Flowing
  <2>9. QED BY <1>1, <1>2, <2>5, <2>6, <2>8 DEF ResponseInv
<1>4. CASE writer' = "gzip"
  <2>1. PICK k \in 0..Len(Append(held, chunk)) :
          /\ LoggedWrite(Stream(Append(held, chunk), k), contentEncoding')
          /\ held' = SubSeq(Append(held, chunk), k + 1, Len(Append(held, chunk)))
          /\ begun' = TRUE
    BY <1>1, <1>4 DEF WriteGzip
  <2> DEFINE out == SubSeq(Append(held, chunk), 1, k)
             hdr == <<"GzipHeader">>
  <2>2. /\ chunk \in Tokens /\ hdr \in Seq(Tokens)
        /\ held \in Seq(Tokens) /\ wrote \in Seq(Tokens) /\ wire \in Seq(Tokens)
    BY <1>1 DEF Tokens, ResponseTypes
  <2>3. /\ out \in Seq(Tokens) /\ held' \in Seq(Tokens) /\ wrote' \in Seq(Tokens)
        /\ wire \o held = hdr \o wrote => (wire \o out) \o held' = hdr \o wrote'
        /\ held = wrote => (hdr \o out) \o held' = hdr \o wrote'
    <3> HIDE DEF hdr
    <3>1. PassedOn(Tokens, wire, held, wrote, hdr, chunk, k)
      BY <2>2, PassesSome
    <3>2. QED BY <1>1, <2>1, <3>1, Zenon DEF PassedOn
  <2>4. Stream(Append(held, chunk), k) = (IF begun THEN <<>> ELSE hdr) \o out
    BY DEF Stream
  <2> HIDE DEF out
  <2>5. CASE begun
    <3>1. Stream(Append(held, chunk), k) = out
      BY <2>3, <2>4, <2>5
    <3>2. wire \o held = hdr \o wrote
      BY <1>2, <2>5 DEF Untouched, Flowing
    <3>3. wire' = wire \o out
      BY <2>1, <3>1 DEF LoggedWrite
    <3>4. wire' \o held' = hdr \o wrote'
      BY <2>3, <3>2, <3>3, Zenon
    <3>5. QED BY <1>3, <1>4, <2>1, <2>3, <3>1, <3>4
  <2>6. CASE ~begun
    <3>1. wire = <<>> /\ wrote = <<>> /\ held = <<>>
      BY <1>2, <1>4, <2>6 DEF Untouched, Flowing
    <3>2. Stream(Append(held, chunk), k) = hdr \o out /\ hdr \o out \in Seq(Tokens)
      BY <2>2, <2>3, <2>4, <2>6
    <3>3. wire' = wire \o (hdr \o out)
      BY <2>1, <3>2 DEF LoggedWrite
    <3>4. wire' = hdr \o out
      BY <3>1, <3>2, <3>3
    <3>5. wire' \o held' = hdr \o wrote'
      BY <2>3, <3>1, <3>4, Zenon
    <3>6. QED BY <1>3, <1>4, <2>1, <2>3, <3>2, <3>5
  <2>7. QED BY <2>5, <2>6
<1>5. CASE writer' # "gzip"
  <2>1. /\ LoggedWrite(<<chunk>>, contentEncoding') /\ held' = held /\ begun' = begun
        /\ wire' = wire \o <<chunk>>
    BY <1>1, <1>5 DEF WritePlain, LoggedWrite
  <2>2. ~begun /\ held = <<>> /\ wire \o held = wrote
    <3>1. CASE Untouched
      <4>1. <<>> \o <<>> = <<>>
        OBVIOUS
      <4>2. QED BY <3>1, <4>1 DEF Untouched
    <3>2. CASE Flowing /\ writer' = writer
      BY <1>5, <3>2 DEF Flowing
    <3>3. QED BY <1>2, <3>1, <3>2
  <2>3. /\ wire \in Seq(Tokens) /\ wrote \in Seq(Tokens)
        /\ chunk \in Tokens /\ <<chunk>> \in Seq(Tokens)
    BY <1>1 DEF ResponseTypes, Tokens
  <2>4. wire = wrote
    BY <2>2, <2>3
  <2>5. wire' = wrote' /\ wire' \in Seq(Tokens) /\ wrote' \in Seq(Tokens)
    BY <1>1, <2>1, <2>3, <2>4
  <2>6. wire' \o held' = wrote'
    BY <2>1, <2>2, <2>5
  <2>7. held' \in Seq(Tokens) /\ begun' \in BOOLEAN
    BY <1>1, <2>1 DEF ResponseTypes
  <2>8. QED BY <1>3, <1>5, <2>1, <2>2, <2>3, <2>5, <2>6, <2>7
<1>6. QED BY <1>4, <1>5

\* What Close leaves on the wire
LEMMA ReturnStep ==
  ASSUME ResponseInv, Return
  PROVE  ResponseInv'
<1>1. /\ ResponseTypes /\ Agreed /\ log.size = Len(wire)
      /\ Untouched \/ Flowing
      /\ step' = "end" /\ CloseWriter
      /\ UNCHANGED <<accepts, gzipVars, contentType, contentEncoding, wrote>>
  BY DEF ResponseInv, Return
<1>2. SendHeaders("OK", contentEncoding)
  BY <1>1 DEF CloseWriter, LoggedWrite
<1>3. "OK" \in Statuses /\ contentEncoding \in {"none", "gzip"}
  BY <1>1 DEF Statuses, ResponseTypes
<1>4. /\ sent' \in [status : Statuses \cup {"none"}, encoding : {"none", "gzip"}]
      /\ sent'.status \in Statuses
      /\ sent.status \in Statuses => sent' = sent
      /\ sent = Unsent => sent'.status = "OK" /\ sent'.encoding = contentEncoding
  BY <1>1, <1>2, <1>3, HeadersOnce DEF Untouched, Flowing
<1>5. sent'.encoding = contentEncoding /\ log.status = sent'.status
  BY <1>1, <1>4 DEF Untouched, Flowing, FirstLog
<1>6. sent'.encoding = "gzip" => accepts'
  BY <1>1, <1>5 DEF Agreed
<1>7. Agreed'
  BY <1>1 DEF Agreed, gzipVars
<1>8. CASE writer = "gzip" /\ sent.status # "NoContent"
  <2> DEFINE tail == Append(Stream(held, Len(held)), "GzipTrailer")
  <2>1. /\ wire' = wire \o tail /\ log' = [log EXCEPT !.size = @ + Len(tail)]
    BY <1>1, <1>8 DEF CloseWriter, LoggedWrite
  <2>2. /\ wire \in Seq(Tokens) /\ held \in Seq(Tokens) /\ wrote \in Seq(Tokens)
        /\ <<"GzipHeader">> \in Seq(Tokens) /\ "GzipTrailer" \in Tokens
    BY <1>1 DEF ResponseTypes, Tokens
  <2>3. SubSeq(held, 1, Len(held)) = held
    BY <2>2
  <2>4. Stream(held, Len(held)) = (IF begun THEN <<>> ELSE <<"GzipHeader">>) \o held
    BY <2>3 DEF Stream
  <2>5. Stream(held, Len(held)) \in Seq(Tokens) /\ tail \in Seq(Tokens)
    BY <2>2, <2>4
  <2>6. wire' = Append(wire \o Stream(held, Len(held)), "GzipTrailer")
    BY <2>1, <2>2, <2>5, ConcatAppend
  <2>7. wire \o Stream(held, Len(held)) = <<"GzipHeader">> \o wrote
    <3>1. CASE begun
      BY <1>1, <2>2, <2>4, <3>1 DEF Untouched, Flowing
    <3>2. CASE ~begun
      BY <1>1, <1>8, <2>2, <2>4, <3>2 DEF Untouched, Flowing
    <3>3. QED BY <3>1, <3>2
  <2>8. wire' = (<<"GzipHeader">> \o wrote) \o <<"GzipTrailer">>
    BY <2>2, <2>6, <2>7
  <2>9. wire' = Gzipped(wrote')
    BY <1>1, <2>8 DEF Gzipped
  <2>10. sent'.encoding = "gzip"
    BY <1>1, <1>5, <1>8 DEF Agreed
  <2> HIDE DEF tail
  <2>11. /\ wire' \in Seq(Tokens) /\ Len(wire') = Len(wire) + Len(tail)
         /\ Len(wire) \in Nat /\ Len(tail) \in Nat
    BY <2>1, <2>2, <2>5
  <2>12. /\ log' \in [status : Statuses, size : Nat]
         /\ log' = [status |-> sent'.status, size |-> Len(wire')]
    BY <1>1, <1>5, <2>1, <2>11 DEF ResponseTypes
  <2>13. ResponseTypes'
    BY <1>1, <1>4, <2>11, <2>12 DEF ResponseTypes, gzipVars
  <2>14. Readable' /\ LoggedAsSent'
    BY <1>6, <2>9, <2>10, <2>12 DEF Readable, LoggedAsSent
  <2>15. QED BY <1>1, <1>7, <2>12, <2>13, <2>14 DEF ResponseInv
<1>9. CASE ~(writer = "gzip" /\ sent.status # "NoContent")
  <2>1. wire' = wire /\ log' = log
    BY <1>1, <1>9 DEF CloseWriter
  <2>2. ResponseTypes'
    BY <1>1, <1>4, <2>1 DEF ResponseTypes, gzipVars
  <2>3. LoggedAsSent'
    BY <1>1, <1>5, <2>1 DEF LoggedAsSent, ResponseTypes
  <2>4. ASSUME sent'.status # "NoContent"
        PROVE  wire' = wrote' /\ sent'.encoding # "gzip"
    <3>1. writer # "gzip"
      BY <1>1, <1>4, <1>9, <2>4 DEF Untouched, Flowing, Agreed
    <3>2. wire \o held = wrote /\ held = <<>> /\ wire \in Seq(Tokens)
      BY <1>1, <3>1 DEF Untouched, Flowing, ResponseTypes
    <3>3. wire = wrote
      BY <3>2
    <3>4. QED BY <1>1, <1>5, <2>1, <3>1, <3>3 DEF Agreed
  <2>5. Readable'
    BY <1>6, <2>4 DEF Readable
  <2>6. QED BY <1>1, <1>7, <2>1, <2>2, <2>3, <2>5 DEF ResponseInv
<1>10. QED BY <1>8, <1>9

\* What the handler, the gzip.Writer and net/http have of an answer is always the
\* whole of it.
LEMMA ResponseInvHolds == ResponseSpec => []ResponseInv
<1>1. ResponseInit => ResponseInv
  BY ResponseInitInv
<1>2. ResponseInv /\ [ResponseNext]_responseVars => ResponseInv'
  <2> SUFFICES ASSUME ResponseInv, [ResponseNext]_responseVars PROVE ResponseInv'
    OBVIOUS
  <2>1. CASE Receive
    BY <2>1, ReceiveStep
  <2>2. CASE \E type \in ContentTypes : SetType(type)
    BY <2>2, SetTypeStep
  <2>3. CASE \E status \in Statuses : WriteHeader(status)
    BY <2>3, WriteHeaderStep
  <2>4. CASE \E chunk \in Chunks : Write(chunk)
    BY <2>4, WriteStep
  <2>5. CASE Return
    BY <2>5, ReturnStep
  <2>6. CASE UNCHANGED responseVars
    BY <2>6 DEF responseVars, gzipVars, netVars, ResponseInv, ResponseTypes, Agreed,
                Untouched, Flowing, Readable, LoggedAsSent
  <2>7. QED BY <2>1, <2>2, <2>3, <2>4, <2>5, <2>6 DEF ResponseNext, HandlerEnded
<1>3. QED
  BY <1>1, <1>2, PTL DEF ResponseSpec

\* Whatever a handler writes, in however many chunks, and whatever the gzip.Writer
\* keeps to itself between them, a client can read all of it by the encoding that the
\* headers told it.
THEOREM ReadableHolds == ResponseSpec => []Readable
<1>1. ResponseInv => Readable
  BY DEF ResponseInv, Readable
<1>2. QED
  BY <1>1, ResponseInvHolds, PTL

\* The log has the status and the size of what was sent.
THEOREM LoggedAsSentHolds == ResponseSpec => []LoggedAsSent
<1>1. ResponseInv => LoggedAsSent
  BY DEF ResponseInv, LoggedAsSent
<1>2. QED
  BY <1>1, ResponseInvHolds, PTL
=============================================================================
