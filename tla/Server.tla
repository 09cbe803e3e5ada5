------------------------------- MODULE Server -------------------------------
(***************************************************************************)
(* The server as its clients see it: authentication (internal/middleware), *)
(* the HTTP and gRPC handlers and the facade (internal/handler, internal/  *)
(* rpchandler), and the graceful stop of cmd/shortener.                    *)
(*                                                                         *)
(* What is below them is taken from its own modules: a call of the service *)
(* stores or finds links at one moment (Shortener, LinkStore), a scheduled *)
(* deletion is applied at some later moment (AsyncDelete).                 *)
(* The definitions introduced as slips are mutations, not part of the      *)
(* specification.                                                          *)
(***************************************************************************)
EXTENDS Naturals, FiniteSets

CONSTANTS
  MaxRequests,       \* bound on the calls of all clients
  MaxUsers,          \* bound on the user ids that are generated
  MaxFailures,       \* bound on the calls that the repository fails
  Clients,
  IDs, URLs,
  FirstCookies,      \* what the clients hold in the beginning
  None,              \* no cookie, no token, no user
  Invalid,           \* a cookie whose signature does not match
  Calls              \* who calls what

\* Requests are numbered as they arrive, users as they are generated.
Requests == 1..MaxRequests
Users == 1..MaxUsers

Call == [client : Clients,
         proto  : {"http", "rpc"},
         op     : {"ShortenURL", "ShortenBatch", "ExpandURL", "ListUserURLs", "DeleteUserURLs"},
         urls   : SUBSET URLs,
         ids    : SUBSET IDs]

\* The gRPC service has no batches and no deletions; only links to be made have urls.
ASSUME CallsAssumption ==
  /\ Calls \subseteq Call
  /\ \A k \in Calls : /\ k.op \in {"ShortenBatch", "DeleteUserURLs"} => k.proto = "http"
                      /\ k.op \notin {"ShortenURL", "ShortenBatch"} => k.urls = {}
ASSUME BoundsAssumption ==
  MaxRequests \in Nat /\ MaxUsers \in Nat /\ MaxFailures \in Nat
ASSUME NoneAssumption == None \notin Users /\ Invalid \notin Users /\ None # Invalid
ASSUME CookiesAssumption == FirstCookies \in [Clients -> {None, Invalid}]

VARIABLES
  state,             \* "new", "running", "served" or "delivered"
  call,              \* what the request calls
  token,             \* the cookie or token that came with it
  user,              \* the user id in its context, None if there is none
  answer,            \* the status and the links of its answer
  before,            \* history: the requests that had their answer when it came
  failed,            \* history: the repository failed it
  cookie,            \* the cookie that each client holds
  issued,            \* the user ids generated so far
  links,             \* stored links
  deleted,           \* ids of the deleted ones
  pending,           \* scheduled deletions: <<id, user>>
  lost,              \* history: those that the repository failed
  life,              \* how far run has come
  timedOut           \* srv.Shutdown gave up

reqVars == <<call, token, user, before>>
authVars == <<cookie, issued>>
storeVars == <<links, deleted, pending, lost>>
lifeVars == <<life, timedOut>>
vars == <<state, reqVars, answer, failed, authVars, storeVars, lifeVars>>

Link == [id : IDs, url : URLs, user : Users \cup {None}]
Lives == {"serving", "stopping", "shutdown", "stopped", "closing", "exited"}

NoCall == [client |-> None, proto |-> "http", op |-> "none", urls |-> {}, ids |-> {}]
NoAnswer == [status |-> "none", links |-> {}]

\* The handlers are reached with a user in the context, except over gRPC.
TypeOK ==
  /\ state \in [Requests -> {"new", "running", "served", "delivered"}]
  /\ call \in [Requests -> Calls \cup {NoCall}]
  /\ token \in [Requests -> Users \cup {None, Invalid}]
  /\ user \in [Requests -> issued \cup {None}]
  /\ before \in [Requests -> SUBSET Requests]
  /\ failed \subseteq Requests
  /\ cookie \in [Clients -> Users \cup {None, Invalid}]
  /\ issued \subseteq Users
  /\ links \subseteq Link
  /\ deleted \subseteq {l.id : l \in links}
  /\ pending \subseteq IDs \X issued /\ lost \subseteq IDs \X issued
  /\ life \in Lives /\ timedOut \in BOOLEAN
  /\ \A r \in Requests : state[r] # "new" /\ call[r].proto = "http" => user[r] # None

Init ==
  /\ state = [r \in Requests |-> "new"]
  /\ call = [r \in Requests |-> NoCall]
  /\ token = [r \in Requests |-> None]
  /\ user = [r \in Requests |-> None]
  /\ answer = [r \in Requests |-> NoAnswer]
  /\ before = [r \in Requests |-> {}]
  /\ failed = {}
  /\ cookie = FirstCookies
  /\ issued = {}
  /\ links = {} /\ deleted = {} /\ pending = {} /\ lost = {}
  /\ life = "serving" /\ timedOut = FALSE

----------------------------------------------------------------------------
(* Authentication                                                          *)

\* auth.VerifyToken
VerifyToken(t) == IF t \in Users THEN t ELSE None

\* Slip: a request whose cookie is no good goes on without a user.
AuthMiddlewareKeeps(t, u) == u = VerifyToken(t) /\ UNCHANGED issued

\* A user is taken from the cookie, or generated if there is no good one.
AuthMiddleware(t, u) ==
  \/ u = VerifyToken(t) /\ u # None /\ UNCHANGED issued
  \/ VerifyToken(t) = None /\ u \in Users /\ u = Cardinality(issued) + 1 /\ issued' = issued \cup {u}

GRPCAuthUnaryInterceptor(t, u) == u = VerifyToken(t) /\ UNCHANGED issued

\* New connections and calls are taken until GracefulStop, and requests on HTTP
\* connections that are open already until Shutdown.
Taken(proto) == life = "serving" \/ (life = "stopping" /\ proto = "http")

Running(proto) == {r \in Requests : state[r] = "running" /\ call[r].proto = proto}

Arrive(r, k, u) ==
  /\ state[r] = "new" /\ \A q \in 1..(r - 1) : state[q] # "new"
  /\ Taken(k.proto)
  /\ IF k.proto = "http" THEN AuthMiddleware(cookie[k.client], u)
                         ELSE GRPCAuthUnaryInterceptor(cookie[k.client], u)
  /\ state' = [state EXCEPT ![r] = "running"]
  /\ call' = [call EXCEPT ![r] = k]
  /\ token' = [token EXCEPT ![r] = cookie[k.client]]
  /\ user' = [user EXCEPT ![r] = u]
  /\ before' = [before EXCEPT ![r] = {q \in Requests : state[q] = "delivered"}]
  /\ UNCHANGED <<answer, failed, cookie, storeVars, lifeVars>>

----------------------------------------------------------------------------
(* Handlers                                                                *)

statusFromError ==
  [ErrNoUserID |-> "Unauthorized", ErrDeleted |-> "Gone", ErrNotFound |-> "NotFound",
   error |-> "InternalServerError"]

grpcStatusFromError ==
  [ErrNoUserID |-> "Unauthenticated", ErrDeleted |-> "FailedPrecondition",
   ErrNotFound |-> "NotFound", error |-> "Internal"]

ErrorStatus(proto, err) ==
  IF proto = "http" THEN statusFromError[err] ELSE grpcStatusFromError[err]

\* The handler ends with a status, and links in the body or the headers.
Reply(r, status, ls) ==
  /\ state' = [state EXCEPT ![r] = "served"]
  /\ answer' = [answer EXCEPT ![r] =
                  [status |-> status, links |-> {<<l.id, l.url>> : l \in ls}]]
  /\ UNCHANGED <<reqVars, authVars, lifeVars>>

Refuse(r, err) == Reply(r, ErrorStatus(call[r].proto, err), {})

\* A handler of the call is at work; there is a process as long as it has not ended.
Handles(r, op) == state[r] = "running" /\ call[r].op = op /\ life # "exited"

\* The links for some urls after a call that creates those that do not exist.
WithURLs(ls, us) == {l \in ls : l.url \in us}

\* New links of u for the urls that have none, under ids that are not taken.
Create(us, u, new) ==
  /\ new \in SUBSET [id : IDs, url : us, user : {u}]
  /\ {l.url : l \in new} = us \ {l.url : l \in links}
  /\ \A l, m \in new : l.id = m.id \/ l.url = m.url => l = m
  /\ {l.id : l \in new} \cap {l.id : l \in links} = {}
  /\ links' = links \cup new
  /\ UNCHANGED <<deleted, pending, lost>>

\* Over gRPC the conflict is a flag of a good answer.
ConflictStatus(proto) == IF proto = "http" THEN "Conflict" ELSE "OK, conflict"
CreatedStatus(proto) == IF proto = "http" THEN "Created" ELSE "OK"

\* Slip: a conflict is answered with the id that was drawn.
AnswerDrawn(us, new) ==
  IF new # {} THEN new ELSE [id : {CHOOSE j \in IDs : TRUE}, url : us]

\* A conflict is answered with the id that exists.
AnswerStored(us, new) == WithURLs(links \cup new, us)

ShortenURL(r, new) ==
  /\ Handles(r, "ShortenURL")
  /\ Create(call[r].urls, user[r], new)
  /\ Reply(r, IF new = {} THEN ConflictStatus(call[r].proto) ELSE CreatedStatus(call[r].proto),
           AnswerStored(call[r].urls, new))
  /\ UNCHANGED failed

ShortenBatch(r, new) ==
  /\ Handles(r, "ShortenBatch") /\ user[r] # None
  /\ Create(call[r].urls, user[r], new)
  /\ Reply(r, "Created", WithURLs(links \cup new, call[r].urls))
  /\ UNCHANGED failed

Expanded(r) == {l \in links : l.id \in call[r].ids}

ExpandURL(r) ==
  /\ Handles(r, "ExpandURL")
  /\ \/ Expanded(r) = {} /\ Refuse(r, "ErrNotFound")
     \/ Expanded(r) # {} /\ call[r].ids \subseteq deleted /\ Refuse(r, "ErrDeleted")
     \/ /\ Expanded(r) # {} /\ ~(call[r].ids \subseteq deleted)
        /\ Reply(r, IF call[r].proto = "http" THEN "TemporaryRedirect" ELSE "OK", Expanded(r))
  /\ UNCHANGED <<storeVars, failed>>

\* Slip: the condition on the user is lost.
OwnedByAny(u) == links

OwnedBy(u) == {l \in links : l.user = u}

\* The links of a user, the deleted ones too.
ListUserURLs(r) ==
  /\ Handles(r, "ListUserURLs") /\ user[r] # None
  /\ Reply(r, IF OwnedBy(user[r]) = {} /\ call[r].proto = "http" THEN "NoContent" ELSE "OK",
           OwnedBy(user[r]))
  /\ UNCHANGED <<storeVars, failed>>

\* RequireAuthUnaryInterceptor and the facade, before anything else is done.
Unauthorized(r) ==
  /\ \E op \in {"ShortenBatch", "ListUserURLs", "DeleteUserURLs"} : Handles(r, op)
  /\ user[r] = None
  /\ Refuse(r, "ErrNoUserID")
  /\ UNCHANGED <<storeVars, failed>>

\* shortener.Close has begun: deletions are dropped.
Closed == life = "closing"

\* Accepted, even if the service drops it.
DeleteUserURLs(r) ==
  /\ Handles(r, "DeleteUserURLs") /\ user[r] # None
  /\ pending' = IF Closed THEN pending ELSE pending \cup (call[r].ids \X {user[r]})
  /\ Reply(r, "Accepted", {})
  /\ UNCHANGED <<links, deleted, lost, failed>>

MayFail == Cardinality(failed) + Cardinality(lost) < MaxFailures

\* The repository fails, or the request was cancelled.  GetOriginal takes every
\* error but ErrDeleted for ErrNotFound; of a batch a part may have been stored.
Fail(r, new) ==
  /\ Handles(r, call[r].op) /\ MayFail
  /\ \/ call[r].op \in {"ShortenURL", "ExpandURL"}
     \/ call[r].op \in {"ShortenBatch", "ListUserURLs"} /\ user[r] # None
  /\ Create({l.url : l \in new}, user[r], new)
  /\ Refuse(r, IF call[r].op = "ExpandURL" THEN "ErrNotFound" ELSE "error")
  /\ failed' = failed \cup {r}

Serve(r) ==
  \/ \E new \in SUBSET [id : IDs, url : call[r].urls, user : {user[r]}] :
       ShortenURL(r, new) \/ ShortenBatch(r, new) \/ Fail(r, new)
  \/ ExpandURL(r) \/ ListUserURLs(r) \/ Unauthorized(r) \/ DeleteUserURLs(r)

\* The answer reaches the client, with the cookie of a new user; it may also be lost.
\* What a client gets when it can send no more requests is of no consequence.
Deliver(r) ==
  /\ state[r] = "served" /\ life \in {"serving", "stopping"}
  /\ state' = [state EXCEPT ![r] = "delivered"]
  /\ cookie' = IF call[r].proto = "http" /\ token[r] # user[r]
                 THEN [cookie EXCEPT ![call[r].client] = user[r]] ELSE cookie
  /\ UNCHANGED <<reqVars, answer, failed, issued, storeVars, lifeVars>>

----------------------------------------------------------------------------
(* The delete worker                                                       *)

\* Slip: the owner is not looked at.
DueToAny(t) == {l \in links : l.id = t[1]}

\* The link that a scheduled deletion is about
DueTo(t) == {l \in links : l.id = t[1] /\ l.user = t[2]}

\* Slip: the link is removed.
Remove(t) == links' = links \ DueTo(t) /\ UNCHANGED deleted

\* The link is marked.
Mark(t) == deleted' = deleted \cup {l.id : l \in DueTo(t)} /\ UNCHANGED links

\* flushDeleteBatch has no use for an error: the deletion is lost.
Flush(t) ==
  /\ t \in pending
  /\ pending' = pending \ {t}
  /\ \/ Mark(t) /\ UNCHANGED lost
     \/ MayFail /\ lost' = lost \cup {t} /\ UNCHANGED <<links, deleted>>
  /\ UNCHANGED <<state, reqVars, answer, failed, authVars, lifeVars>>

----------------------------------------------------------------------------
(* run: the graceful stop, whose goroutines Process describes              *)

Advance(from, to) ==
  /\ life = from /\ life' = to
  /\ UNCHANGED <<state, reqVars, answer, failed, authVars, storeVars>>

\* A signal, or the failure of a server
Stop == Advance("serving", "stopping") /\ UNCHANGED timedOut

\* GracefulStop has waited for the calls; Shutdown begins.
GracefulStop == Running("rpc") = {} /\ Advance("stopping", "shutdown") /\ UNCHANGED timedOut

\* Shutdown has waited for the requests.
Shutdown == Running("http") = {} /\ Advance("shutdown", "stopped") /\ UNCHANGED timedOut

ShutdownTimesOut ==
  Running("http") # {} /\ Advance("shutdown", "stopped") /\ timedOut' = TRUE

\* g.Wait has returned; shortener.Close begins.
Wait == Advance("stopped", "closing") /\ UNCHANGED timedOut

\* Slip: Close does not wait for the worker.
FlushedEarly == TRUE

\* enqueueWG and workerWG
AllFlushed == pending = {}

\* shortener.Close returns, the repository is closed, and the process ends.
Close == AllFlushed /\ Advance("closing", "exited") /\ UNCHANGED timedOut

WindDown ==
  GracefulStop \/ Shutdown \/ ShutdownTimesOut \/ Wait \/ Close

----------------------------------------------------------------------------
(* The specification                                                       *)

\* The process has ended.
Ended == life = "exited" /\ UNCHANGED vars

Next ==
  \/ \E r \in Requests, k \in Calls, u \in Users \cup {None} : Arrive(r, k, u)
  \/ \E r \in Requests : Serve(r) \/ Deliver(r)
  \/ \E t \in pending : Flush(t)
  \/ Stop \/ WindDown \/ Ended

Spec == Init /\ [][Next]_vars

----------------------------------------------------------------------------
(* Properties                                                              *)

\* The client, under this user, has asked for the url to be stored.
AskedFor(c, u, url) ==
  \E q \in Requests : /\ call[q].op \in {"ShortenURL", "ShortenBatch"} /\ url \in call[q].urls
                     /\ call[q].client = c /\ user[q] = u

Answered(r, op) == state[r] \in {"served", "delivered"} /\ call[r].op = op

\* Links of its user that the request has told of
Told(r) == {p \in answer[r].links : [id |-> p[1], url |-> p[2], user |-> user[r]] \in links}

\* Whoever asks, over whatever protocol and for whatever: an id always stands for
\* the same url, and a url has one id.
AnswersAgree ==
  \A q, r \in Requests : \A m \in answer[q].links, n \in answer[r].links :
    m[1] = n[1] <=> m[2] = n[2]

\* A short url that a client has been given is found by every later request, over
\* either protocol, until it is gone; and once gone for a client it stays so.
NeverForgotten ==
  \A q, r \in Requests :
    q \in before[r] /\ Answered(r, "ExpandURL") /\ r \notin failed =>
      LET gone == answer[r].status \in {"Gone", "FailedPrecondition"}
      IN  /\ answer[q].status \in {"Gone", "FailedPrecondition"} /\ call[q].ids = call[r].ids =>
               gone
          /\ \A p \in answer[q].links : p[1] \in call[r].ids => gone \/ p \in answer[r].links

\* A listing has every link of its user that the client has been told of, and nothing
\* that this client, under this user, has not asked to be stored.
ListsOwn ==
  \A r \in Requests :
    Answered(r, "ListUserURLs") /\ r \notin failed /\ user[r] # None =>
      /\ \A q \in before[r] : user[q] = user[r] => Told(q) \subseteq answer[r].links
      /\ \A p \in answer[r].links : AskedFor(call[r].client, user[r], p[2])

\* A link is deleted only if the client that created it, under the same user, has
\* asked for it: no other client's requests, no cookie that fails, and nobody at
\* all if the link was created without a user.
DeletedByOwner ==
  \A l \in links : l.id \in deleted =>
    /\ l.user # None
    /\ \E r \in Requests :
         /\ Answered(r, "DeleteUserURLs") /\ l.id \in call[r].ids /\ user[r] = l.user
         /\ AskedFor(call[r].client, user[r], l.url)

\* Unless Shutdown gives up, the repository is closed after the last request, and a
\* deletion that was answered with 202 has been applied by then, unless the
\* repository failed it.
OrderlyStop ==
  life = "exited" /\ ~timedOut =>
    /\ \A r \in Requests : state[r] # "running"
    /\ \A r \in Requests : Answered(r, "DeleteUserURLs") =>
         \A q \in before[r] : \A p \in Told(q) :
           user[q] = user[r] /\ p[1] \in call[r].ids =>
             p[1] \in deleted \/ <<p[1], user[r]>> \in lost
=============================================================================
