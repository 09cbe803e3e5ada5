# TLA+ verification of short_url

`short_url` is a URL shortener in Go: an HTTP and gRPC server that hands out
eight-character short ids for urls, redirects them, lists them per user, and
deletes them asynchronously. This directory holds TLA+ modules translated from
its source, TLC configurations that check them on small instances, and TLAPS
proofs of theorems about them for instances of every size.

    tlc -workers 2 -config delete.cfg MCDeletePipeline.tla
    tlapm DeletePipelineProofs.tla

`PROJECT.json` lists the runs, the theorems, the source lines behind every
definition (`map`), the hazards the properties are for, the disagreements found
between code and docs (`findings`), and for every property of every passing run
a mistake in the code that would break it (`mutants`).

## The system

| part | source | state | operations |
|---|---|---|---|
| asynchronous deletion | `internal/service/shortener.go` | `delCh`, `closeMu`, `closed`, two WaitGroups, `closeOnce`, the worker's buffer | `DeleteUserURLs`, the sender goroutines, `runDeleteWorker`, `flushDeleteBatch`, `Close` |
| creating links | `internal/service/shortener.go` | none but the locals of each call | `Shorten`, `ShortenBatch`, `shortenBatchOneByOne` |
| memory repository | `internal/repository/memory.go` | five maps under one RWMutex | `Save`, `SaveBatch`, `Get`, `GetByOriginalURL`, `GetURLsByUser`, `DeleteUserURLs` |
| file repository | `internal/repository/file.go` | the same maps, a JSONL file, `nextUUID` | the same, `load`, `appendRecord`, `flush`, `Close` |
| Postgres repository | `internal/repository/postgres.go`, `migrations/` | one table with two unique indexes | the same, as SQL |
| audit | `internal/audit/audit.go` | one semaphore per observer, an open file | `Notify`, `Close` |
| handlers | `internal/handler`, `internal/rpchandler` | none | requests to service calls, errors to status codes |
| middleware, auth | `internal/middleware`, `internal/auth` | the gzip writer's header flags | user from cookie, header or metadata; gzip; logging; trusted subnet |
| lifecycle | `cmd/shortener` | the errgroup, the listeners, the signal context | `run`, `serveMultiplexed`, graceful stop |
| config | `internal/config` | none | precedence of environment, flags, file, defaults |
| tools | `cmd/reset`, `cmd/staticlint`, `pkg/pool` | none of the server's | code generation, linting, a typed `sync.Pool` |

A request passes the middleware (log, gzip, user), a handler and the facade,
which calls the service and then the audit notifier, in the request's own
goroutine. The service calls one of the three repositories. Deletions leave the
request: `DeleteUserURLs` starts a sender goroutine and returns, one worker
collects the tasks of all senders and calls the repository. At shutdown the
servers stop, then `Shortener.Close` drains the pipeline, then the repository
is closed (which for the file repository writes the file), then the audit file and the
pool.

What is hard to get right, and to test: the hand-over from request to sender to
channel to worker, and `Close` in the midst of it; calls of the repository that
belong together with no lock around them; ids that collide; a file that is
written after, before or in the middle of what a client is told; a stop in which three
servers, a stopper and `main` wait for one another. `PROJECT.json` lists each hazard at its line.

## The modules

| module | models | extends / uses |
|---|---|---|
| `AsyncDelete` | the promise of asynchronous deletion, without goroutines | |
| `DeletePipeline` | the deletion half of `service.Shortener` | implements `AsyncDelete` |
| `MemoryRepository` | the five maps; operations as actions and operators | |
| `Shortener` | concurrent `Shorten` and `ShortenBatch` calls | extends `MemoryRepository` |
| `FileRepository` | maps, file, kills, failing system calls | extends `MemoryRepository` |
| `LinkStore` | the promise of a repository's calls that store links: all or nothing, at one moment | |
| `PostgresRepository` | statements and transactions on the table `urls` | implements `LinkStore` |
| `AuditNotifier` | `audit.Notifier` with its file and remote observers | |
| `Server` | what clients see: users and cookies, the handlers of both protocols, the graceful stop | takes the promises of the modules above |
| `Config` | the precedence of environment, flags, file and defaults | |
| `Process` | one run of `cmd/shortener`: the start, three servers on one listener, the stop, the exit | extends `Config` |
| `Response` | the way of an answer through the gzip writer, the logging writer and `net/http` | |
| `DeletePipelineProofs`, `MemoryRepositoryProofs`, `ShortenerProofs`, `FileRepositoryProofs`, `PostgresRepositoryProofs`, `AuditNotifierProofs`, `ServerProofs`, `ProcessProofs` | theorems and lemmas about the module of that name, `ServerProofs` also about `Response` | the module, TLAPS |
| `MCDeletePipeline`, `MCShortener`, `MCFileRepository`, `MCPostgresRepository`, `MCAuditNotifier`, `MCServer`, `MCProcess` | the instances TLC checks (`Response` needs none) | |

A few definitions are marked as *slips*: each is the definition below it with a
plausible mistake, and no specification uses it. `PROJECT.json` pairs them with
the properties that catch them.

### DeletePipeline

One action for each step between two synchronisation points. `pc[c]` follows a
call of `DeleteUserURLs` through the lock (`DeleteLock`), the closed check
(`DeleteRefuse`, `DeleteCheck`), the `Add` and unlock (`DeleteAccept`), and its
sender through the sends (`Send`) to the deferred `Done` (`SendDone`). The check
and the `Add` are two actions although one lock covers both, so that what the
lock is good for can be checked. `wpc` follows the worker: `Receive`,
`ChannelDrained` and `Tick` are the three cases of its `select`, and `FlushUser`
one call of the repository for one user of the batch, in any order, as the map
`byUser` is ranged over. `cpc[k]` follows a call of `Close`; `closeOnce` blocks a
second call until the first has returned, as `sync.Once` does.

A task is named by its call and its position in it rather than by the short id,
which the pipeline never looks at. `handled` is a history variable: it counts
how often each task reached the repository. What the repository does with it
(and that its error is dropped) is outside of the module.

`AsyncDelete` is the abstraction: while open, tasks are scheduled; scheduled
tasks are handed over once, in any grouping; once shut nothing is scheduled;
`Close` returns when nothing is outstanding. The mapping takes `scheduled` to
the tasks of the calls past the closed check, and `phase` to `closed` and
`closeOnce`.

### MemoryRepository and Shortener

Every method of the memory repository holds the mutex from its first look at a
map to its last write, so each is one step. A method that fails changes nothing:
only successful calls are actions, and `SaveOutcome` tells the caller which
error it gets. `SaveBatch` objects to entries in their order, looks at the url
before the id, and never compares two entries of the batch with each other. `Listed`
is what it appends to a user's listing: the ids of that user's entries, in the order of
the batch (`InOrder`).

The service holds no lock across calls, so in `Shortener` each call of the
repository is a step, with any other request and the delete worker's calls in
between. `phase[r]` is the call that request `r` makes next: `batch`
(`SaveBatch`), `save` (`Save`, in `Shorten` and for each entry of
`shortenBatchOneByOne`) or `lookup` (`GetByOriginalURL` after `ErrURLExists`).
Ids are drawn at random, so any id may come, a taken one included; `DrawApart`
says whether two equal ids can be drawn for one batch. `Fail` ends a request
before any of its calls: its context was cancelled, or there were no random
bytes.

### FileRepository

The maps are those of `MemoryRepository`. `FileSave` appends a line and updates
the maps under one lock; `CrashInSave` is a kill between the two. `FileSaveBatch`
updates the maps and empties the file, `FlushLine` writes one record at a time in
any order, `FlushDone` returns to the caller. The lock is held all the while, so
only a kill (`Crash`) or a failing write (`FlushFails`) comes in between. `Start`
loads the file, in which later lines win, and two kinds of line keep the server from
starting (`failed`). One is a line that was cut short, `Torn`; `Extend` says that what
is appended after it becomes part of it. The other is a line that is whole but `TooLong`
for the scanner of `load`, whose buffer ends at 64 KiB: `Save` and `flush` write such a
line like any other. How long that is stays abstract: `TooLong` is any condition on a
record, so that it may hold of the record in one form (with its owner, or marked
deleted) and not in another. `StartFails` is a start that cannot read the file and may be
tried again. `acked` is a history variable: the links that a client has been given.

`disk` is history as well, and says how far the file can be trusted. It is `good`
when every link of the maps is in it; a rewrite that begins, a batch whose rewrite
fails and a line cut short leave it `behind`; a rewrite that is completed makes it
good again. A process that ends while the file is behind leaves it `lost`. So
`LostOnlyBehind` and `RewriteRepairs` say exactly what the repository guarantees with
every failure in play, where the findings say what it does not. A rewrite repairs a torn
line (`Whole`), and no rewrite removes one that is too long.

### AuditNotifier

An event stands for one call of `Notify`, made by the facade in the goroutine of
the request. `next[e]` is how far the loop of `Notify` has come, `Return` its
`wg.Wait` and the joining of errors. `pc[e][o]` follows the goroutine of one event
and one observer: the `select` is the two actions `Acquire` and `GiveUp`, both
enabled when both channels are ready; then the observer (`FileWrites`,
`RemoteRetries`, ...), the send of the result, and the deferred calls in the
reverse of their order, `Release` and `Exit`. `errCh[e]` holds the senders rather
than the errors, which no property tells apart. `FileObserver.Notify` is one step,
for its mutex covers the write and nothing else is shared. One attempt of the http
client is one step; that the endpoint may take an event whose attempt failed is
left out, so `log` is what is known to be taken. A file that was closed at shutdown
is one reason of `FileFails`. A write that is cut short (`FileTears`) leaves a line
without an end, as in `FileRepository`; the event written after it is `garbled`: `Notify`
reports success and nobody can read the line.

### PostgresRepository and LinkStore

Each statement is a step: `InsertHeld` inserts one row of a batch, which its
transaction holds until `Commit`; `InsertSingle` is the statement of `Save`, which
commits at once. `URLExists` is `ON CONFLICT DO NOTHING` with no row affected,
`IDExists` the violation of the other index. The database is external and modelled
from how the code relies on it, at its default isolation level: `Blockers(c)` are the
open transactions that an `INSERT` waits for, `Deadlocked(c)` says that the call is in
a circle of those, and `DeadlockVictim` is how the database ends it, with an error
that `SaveBatch` passes on. `Break` is a cancelled context or a lost connection: the
transaction is rolled back, by the deferred `Rollback` or by the database. A
statement or commit whose answer is lost has been executed, but the caller is told
otherwise; such a call has the outcome `"lost"`. A statement that the server executes
after its client has given up is the same case. The `SELECT`s are operators on the rows.

In `LinkStore` a call asks for a set of links and is then stored or refused, in
one step; what is stored has no url or id twice. The mapping takes `wanted` to the
entries of a call and its effect to the outcome, with `"lost"` as stored. What
`MemoryRepository` does with a url given twice in a batch (finding
`batch_repeated_url`) is no behaviour of `LinkStore`; `PostgresRepository` refuses it.

### Server

A request arrives (`Arrive`), is given a user by `AuthMiddleware` or the gRPC
interceptor, is handled (`Serve`: the handler, facade and service of its call, or
`Fail`), and its answer reaches the client (`Deliver`), with the cookie if the user
is new. Requests of one client overlap, and an answer may never come: then
the client does not have the cookie under which its link was stored. `before[r]` is
history: the requests that were through when `r` came.

The other modules check the layers below one by one; `Server` takes their promises
and asks what they add up to. A call stores and answers at one moment, as `LinkStore`
and the theorems of `ShortenerProofs` have it (under their assumptions: drawn ids
differ, a batch repeats no url). A scheduled deletion is applied at some later
moment, as in `AsyncDelete`, or lost if the repository fails it. Requests with
invalid input change nothing and are left out.

`life` is the stop as requests see it, of which `Process` has the goroutines: no
connection is accepted from the signal on, but requests on HTTP connections that are
open still come until `Shutdown`; gRPC calls are waited for; HTTP requests are waited
for until `Shutdown` times out, and those that outlive it go on while the service
drops their deletions and closes.

### Config and Process

`Config` is the precedence of settings: `Resolved` takes a function for each source,
in which a setting that the source does not give is `Unset`. `Process` follows `run`
from there. `at` is the next thing `main` does: each step of the start can fail
(`Fatal`, which ends the process where it is), `Listen` can make `run` return early,
and from `wait` on `main` closes what it has opened, in the order of the calls after
`g.Wait` and of the deferred ones.

While `main` waits, five goroutines run. `mux`, `grpc` and `http` are the three
`Serve` calls of `serveMultiplexed`; `errCh` holds what they returned, in the order in
which they sent it. `ReceiveFirst` and `ServersReturn` are `serveMultiplexed` itself:
the first error counts, the other two are waited for. The stopper waits for the
signal or for the group's context, calls `GracefulStop` and then `Shutdown`.
`busy` is one request of each protocol that reads, uses the repository and ends;
`silent` says that some connection has sent nothing yet.

Facts about libraries that go into it, as `run` relies on them:

- cmux: `mux.Serve` ends with the error of the root listener's `Accept`, tells the
  other listeners, and returns only when every accepted connection has sent enough
  to be told HTTP from gRPC. No timeout is set, so only the client ends a silence.
- Closing either server's listener closes the root listener.
- grpc: `Serve` returns after a failed `Accept` and waits for `GracefulStop`, after
  which it returns `nil`; called after `GracefulStop` it returns `ErrServerStopped`.
  `GracefulStop` has no timeout.
- net/http: `Shutdown` closes the listener that `Serve` still holds and reports the
  error of that; `Serve` called or failing while shutting down returns
  `ErrServerClosed`.
- `signal.NotifyContext` catches one signal; after the stopper has begun, another
  signal kills the process.

What the model shows of the code beyond the properties: a stop on a signal may end
with status 1, because the multiplexer's error was the first to arrive or because
`Shutdown` closed the listener that `GracefulStop` had closed (`ClosedTwice`); an
`Accept` that fails by itself is told to `run` as `ErrServerClosed`, which is
filtered, if gRPC or HTTP is first, and then the process lives on and accepts nothing
until a signal comes; `pool.Close` waits for the queries of requests that `Shutdown`
gave up on; after a failed `Listen` the service and the repository are not closed
(nothing was accepted yet, so nothing is lost). None of these contradicts a doc of the
repository.

### Response

The handler sets a content type, calls `WriteHeader` and `Write`, each of which it may
leave out, and returns; `Close` of the gzip writer
(`CloseWriter`) is deferred. A header that is not set is `"none"`. `begun` and `held` are
the state of `gzip.Writer`, `sent` and `wire` what `net/http` has sent: the headers
as they were at the first `WriteHeader` or `Write` below, and the body as tokens. A
request body that claims to be gzip and is not is refused before the handler runs. `log`
is `responseData`, which the logger prints when everything above it has returned.

## The runs

| run | instance | checks | states |
|---|---|---|---|
| `delete` | 2 calls of 1..2 ids, 2 users, 2 closers, channel of 1, batches of 3, fairness | `ChannelDiscipline`, `CloseFlushesAll`, `EveryAcceptedHandled`, `CloseReturns`, `ImplementsAsyncDelete` | 86 000 |
| `shorten` | 2 requests, 2 users and anonymous, 3 ids, 2 urls, batches without repeated url, 2 retries, fairness | `LookupNeverMisses`, `AnswersResolve`, `OneIDPerURL`, `OneCreator`, `ListingExact`, `LinkImmutable`, `EveryRequestEnds` | 118 000 |
| `file` | 3 ids, 2 urls of which one is too long with a user, batches of 2, 2 failing calls, torn lines, kills anywhere | `ListingExact`, `LostOnlyBehind`, `RewriteRepairs`, `CleanRestartExact`, `UUIDsDistinct`, `FileAgrees` | 1 559 000 |
| `audit` | 2 events, a file and an endpoint that may hang, 1 retry, fairness | `OneAtATime`, `NoneLeft`, `NilMeansTaken`, `NotifyReturns`, `OthersServed`, `CancelledLeaves` | 81 000 |
| `postgres` | 3 calls of `Save` and `SaveBatch` from 5 batches, 3 ids, 2 urls, 2 users, fairness | `ExistsMeansStored`, `NilMeansStored`, `EveryCallEnds`, `ImplementsLinkStore` | 82 000 |
| `server` | 3 requests out of 7 calls of 2 clients over both protocols, 2 users, 2 ids, 2 urls, 1 failure | `AnswersAgree`, `NeverForgotten`, `ListsOwn`, `DeletedByOwner`, `OrderlyStop` | 1 719 000 |
| `process` | 5 environments, 6 sets of flags, 3 files and a missing one, one request of each protocol, fairness | `NoneCutOff`, `NothingLeft`, `ExitStatus`, `VolatileOnlyIfAsked`, `StopsInTheEnd` | 169 000 |
| `response` | up to 3 writes of 2 kinds of chunk, every content type and status, either kind of client, 3 kinds of body | `Readable`, `LoggedAsSent` | 2 600 |

The bounds let the interesting cases happen. Two calls of two ids are four tasks
for a channel of one and batches of three: the channel is full with senders
waiting, a batch ends inside a request and holds tasks of two users, and the last
batch is incomplete. Three ids for two urls make an id collide with a stored one in
every way `SaveOutcome` tells apart, while two retries exercise the first and the
last; two requests meet between each other's calls. Three ids make a rewrite that has
written some records and not others after an append that a failure preceded; two
failures are a torn line and a rewrite that fails after it. Two events are one that
holds a semaphore and one that waits for it; a second retry would only repeat the
first. Three requests to the server are one that creates, one that deletes or creates
again, and one that sees the outcome, in any order and overlap. One request of each
protocol is enough in `process` because the servers only ask whether there is any; the
settings are a database, a path and neither, from each source, values taken back
with an empty string, and a subnet and an audit url that are none. Three writes are a first, one in a stream that has begun, and
one after it. What larger instances could add to the safety properties is proved
below for every size. Symmetry is used where only safety is
checked, over values that the module compares only with each other (in `file` the ids,
for its urls differ in length).

`file` and `file_long_line` do not check for deadlock: a server whose file cannot be
loaded does not start, and stays down.

Four more runs show where the code departs from its own docs, each a `finding`:
`batch_repeated_url` (a batch is not compared with itself),
`file_crash_in_rewrite` (the file is emptied before it is rewritten),
`file_torn_line` (an append after a write cut short) and `file_long_line` (a line that
`load` does not take). They violate `OneIDPerURL`, `AckedSurvive` (after a start every
acknowledged link resolves), `SaveAdds` (a `Save` that returns nil has added its record)
and `CleanRestarts` (what was written and closed without a failure can be loaded); the
last needs neither a failing call nor a kill. The passing runs name the assumption
without which the first happens (batches without a repeated url), `disk` is what remains
to be said of the next two, and `PromiseKept` below of the last. That a failed batch stays in
the maps, from which clients are answered until the process ends or a rewrite succeeds,
is part of the module (`FileSaveBatchFails`, `FlushFails`) and of what `behind` stands
for; the comment on `SaveBatch` promises atomicity only where the storage supports it.
The runs of `Shortener` also assume ids drawn apart (`DrawApart`): two equal ids in one
batch would overwrite each other in memory, but are a matter of chance.

### Fairness

`delete` assumes weak fairness of each sender's and each closer's steps, of
the worker's receive, tick and flush: the Go scheduler runs every goroutine that
can run, blocked senders and lockers wait in queues, the ticker keeps ticking.
`WF(Tick)` is needed because a batch that never fills is flushed by nothing
else, and `Tick` stays enabled while the buffer is not empty and the worker waits.
Nobody is obliged to call `DeleteUserURLs` or `Close`. `shorten` assumes
weak fairness of each request's next call; the repository always answers.

`audit` assumes weak fairness of every goroutine's steps: a
goroutine blocked on the semaphore waits in the channel's queue, and as the
events are finitely many the place is free for good in the end. The observer's own
step is fair because a write to a local file and an http attempt, bounded by
`remoteObserverRequestTimeout`, end some time; `Stuck` lists the observers of which
this is not assumed (in the run, the endpoint), the slow and busy ones of the tests in
`internal/audit/audit_test.go`. Clients need not cancel.

`postgres` assumes weak fairness of each call's statements: the database executes a
statement that waits for nobody, wakes one whose blocker has ended, and looks for
deadlocks. A lost connection is never obliged to happen. The batches of the run name
the same two urls in opposite order, so that two calls can wait for each other
while a third stands at the url of one of them.

`process` assumes weak fairness of every goroutine of `run`, of `Shutdown`'s
timer, and of calls of the repository once they are made. Calls over gRPC are
assumed to arrive in full, since `GracefulStop` waits for them and nothing in the
code bounds them; requests over HTTP are not, for the context of `Shutdown` ends. A
connection that stays silent is not obliged to speak, and `StopsInTheEnd` says so:
the process ends, or some connection is silent. No signal and no failure need ever
come. `server`, `file` and `response` check safety only and assume no fairness.

## The proofs

Every theorem holds for any value of the constants that satisfies the assumptions
named in the module it is about.

### DeletePipelineProofs

For any set of calls, closers and users, any channel capacity and batch size:

| theorem | says |
|---|---|
| `TypeCorrect` | `Spec => []TypeOK`: among others, channel and buffer keep to their capacity |
| `ChannelDisciplineHolds` | the channel is closed once, with no sender left |
| `ConservationHolds` | every accepted task is in exactly one place and handed over at most once |
| `CloseFlushesAllHolds` | `Close` returns with every accepted task handed over |
| `InOrderHolds` | the order within a request is kept |
| `NeverStuckHolds` | while anything is under way, somebody can go on |
| `Implementation` | `Spec => ImplementsAsyncDelete` |

They all follow from one inductive invariant,

    IndInv == TypeOK /\ Control /\ Counting /\ Custody

None of the properties is inductive on its own. `Control` relates the control
points: who holds `closeMu`, that one closer at most is inside `closeOnce`, that
`closed` is set before the wait, that a call between check and `Add` holds the
mutex and hence sees `closed` false. `Counting` says that `enqueueWG` is the number of
senders: with `Control` it follows that the channel is open as long as anyone may
send. `Custody` follows the tasks: what a sender has sent (`SenderInv`, `SentInv`),
where it is (`PlaceInv`), that nothing is lost (`NothingLost`) and what the worker's
state says about its buffer and groups (`WorkerInv`). TLC checked each part of
`IndInv` on an instance of three calls before it was proved. The proof that a
step preserves a part has one case per action. The refinement maps each action to
`Schedule`, `Apply`, `Shut`, `Return` or a stutter, under `IndInv`.

`NeverStuck` is freedom from deadlock: as long as a call is being scheduled, a sender
sends, a task is outstanding or a `Close` has not returned, one of the steps that others
may wait for can be taken. The argument follows who waits for whom. Senders wait for the
worker only (`WorkerOrSenderMoves`), and the worker for nobody while a task is
outstanding, by `Custody`; the holder of `closeMu` waits for nobody (`HolderMoves`); the closer inside
`closeOnce` waits for the mutex, the senders and then the worker, in this order
(`BodyMoves`); the other closers wait for it. Two more invariants are needed: a flush
has a group left (`FlushInv`), and a `closeOnce` that runs has a closer in it (`OnceInv`).

### ShortenerProofs

For any set of requests, ids, urls and users, and any
bound on batches and retries:

| theorem | says | assuming |
|---|---|---|
| `LinkImmutableHolds` | a stored link is never redirected, re-owned or revived | nothing |
| `LookupNeverMissesHolds` | the lookup after `ErrURLExists` finds the link | nothing |
| `AnswersResolveHolds` | every id answered leads to its url | `DrawApart` |
| `OneIDPerURLHolds` | the two maps mirror each other | `DrawApart`, `DistinctURLs` |
| `OneCreatorHolds` | concurrent requests get one link, with at most one creator | `DrawApart`, `DistinctURLs` |
| `ListingExactHolds` | a user's listing has each link of the user once and no other | `DrawApart` |
| `TypeCorrect` | `Spec => []TypeOK`: among others, no request retries more often than it may | nothing |
| `WorkBoundedHolds` | a request has at most `MaxSaveRetries * (2 * MaxBatch + 1)` calls of the repository to make | nothing |
| `WorkDecreasesHolds` | each of its calls leaves it fewer, and no step of others adds any | nothing |

`DrawApart` (the ids drawn for one batch differ) and `DistinctURLs` (no batch names
a url twice) are not promised by the code. Equal ids are a matter of chance, one
in 62^8 for two entries; the memory and the file repository would let the second
entry overwrite the first. A repeated url is what the finding `batch_repeated_url` is
about. The theorems say that nothing else is in the way.

The invariants come in layers, each proved with the help of those before it.
`Base` (`RequestType`, and `Progress`: how phase, outcome and item belong together)
holds on its own. `Keeps` is what no step takes back: stored links, the reverse map
and deletions; with `Base` it gives the first two theorems. `ResolveInv` adds, for
`AnswersResolve`, that the reverse map leads to the right links (`ReverseRight`),
that what a request has answered so far leads to its urls (`Resolved`), and that
the ids a batch is about to store are those it will answer (`Drawn`). `CreateInv`
adds that a batch about to be stored repeats no url (`BatchInv`), which is what
makes `SaveBatch` keep the two maps each other's mirror, and that of two calls of
`Shorten` for a url one was told "conflict" (`SingleCreator`): the second could
only have stored the link if the url were not in the reverse map, where the first
left it. That all are given the same link follows from `AnswersResolve` and
`OneIDPerURL`.

What `SaveBatch` does to the maps is stated once, in `MemoryRepositoryProofs`
(`SaveBatchIsNew`, `SaveBatchKeeps`, `SaveBatchStores`, `SaveBatchReverse`), from
`LastOfSet`: the last entry for a key decides. That there is a last entry is the
least-number principle, `LeastNumber`, which follows from the library's
well-foundedness of the natural numbers. `InOrderEffect` and `ListedEffect` say that what
a batch appends to a user's listing is the id of each entry of the user once, which `ListInv` joins to what is there.

`WorkBounded` and `WorkDecreases` are the part of `EveryRequestEnds` that is not about
fairness: `Bounds` (how far the attempts of a request can have come) and the bound on
its calls make an infinite run of retries impossible, whoever else stores the same urls.

### FileRepositoryProofs

For any set of ids, urls and users, batches of any length, and any number of failures,
kills and restarts; `PartialWrites` and `CrashInFlush` may be either:

| theorem | says |
|---|---|
| `LostOnlyBehindHolds` | a link given to a client resolves unless the process ended while the file was behind |
| `RewriteRepairsHolds` | a completed rewrite leaves a file with every such link and no torn line |
| `CleanRestartExactHolds` | `Close` leaves each link once, with owner and deletion, and no torn line |
| `UUIDsDistinctHolds` | lines keep distinct numbers |
| `FileAgreesHolds` | no line contradicts the maps |
| `ListingExactHolds` | a user's listing has each link of the user once and no other, after any restart |
| `TypeCorrect` | `Spec => []TypeOK` |
| `PromiseKept` | if no system call fails and no rewrite is killed: every link given to a client resolves and is in the file, and the server starts again unless some line is too long |

The invariant is `IInv`, in four parts besides the types. `Contents`: all lines with one
id have one url and one owner (`OneStory`), and while the server runs they are those
of the maps (`Agree`). `OneStory` is needed of its own because a kill in `Save` leaves a
line that the maps do not have, and because a load keeps the last line of each
id: with it, it does not matter which. `Rewriting`: in the middle of a rewrite the
file has one line for each id that is not still `left`. `Durable` says what each value
of `disk` promises; that `disk` is never `behind` while the server is down is what makes
`behind` repairable. `Numbered` is the argument why a rewrite, which numbers its lines
from one, never collides with an append, which takes `nextUUID`: the maps always have
fewer ids than the counter says, a cardinality that grows by no more than the entries
of a batch, and that a load re-establishes since distinct numbers below the counter
bound the number of ids. `LoadEffect` and `NextUUIDFacts` say what a load does.

A load appends an id to a listing for each line, so that the listings are exact only if
the file never has two lines for an id: `OnceEach`, which `ListInv` adds. `PromiseKept`
is what the documentation promises, under `MaxErrors = 0` and `CrashInFlush = FALSE`: a
kill between a line and its map entry, or anywhere outside of a rewrite, loses nothing.
Two of the file findings drop one of the two hypotheses each, and the third is the
exception in its conclusion; with `LostOnlyBehind` and `RewriteRepairs`, which need
neither hypothesis, it bounds the findings from both sides. Its invariant is `Calm`: the
file is behind the maps in a rewrite only, and a server that failed to start has met a
line that is too long, for by `Durable` none is torn.

### AuditNotifierProofs

For any number of events and observers of both kinds:

| theorem | says | assuming |
|---|---|---|
| `TypeCorrect` | `Spec => []TypeOK`: one token in a semaphore, no negative WaitGroup | nothing |
| `OneAtATimeHolds` | an observer has one event at a time | nothing |
| `NoneLeftHolds` | `Notify` returns after all of its goroutines | nothing |
| `NilMeansTakenHolds` | success means that every observer has the event | nothing |
| `WaitsForObserverHolds` | a goroutine can go on, or somebody is with its observer | nothing |
| `RunsDownHolds` | a goroutine ends within a bounded number of its own steps | nothing |

The invariant is `IndInv`: `Launched` (which goroutines exist), `Counted` (the
WaitGroup is the number of live goroutines, by the lemmas on cardinalities),
`Held` (the semaphore is taken exactly while one goroutine, and one only, is past
it), `Results` (what was sent and what it means for `log`) and `Answers` (what
`Notify` returned joins all results). `Counted` makes `wg[e] = 0` mean that nobody
is left, `Launched` that everybody was started: together they are what `Return`
relies on.

`WaitsForObserver` says that `Notify` waits for its goroutines only, and one of these for
its observer or for the goroutine of another event that is with it; in particular the
send of a result never blocks (`RoomToSend`: `errCh` has a place for each observer, and each
sends once, `SentOnce`), and a semaphore that is taken has a holder (`TakenBy`). `RunsDown` counts
the steps of a goroutine, retries included. Together they leave one way for `Notify` not
to return: an observer that is never done, which is what `Stuck` stands for.

### PostgresRepositoryProofs

For any number of calls and any batches:

| theorem | says | assuming |
|---|---|---|
| `TypeCorrect` | `Spec => []TypeOK`: a call that has returned holds no row | nothing |
| `ExistsMeansStoredHolds` | after `ErrURLExists` of `Save` the lookup finds one id | nothing |
| `NilMeansStoredHolds` | success means listed, and resolved to its url, for good | nothing |
| `Implementation` | `Spec => ImplementsLinkStore` | nothing |
| `SomeoneGoesOnHolds` | if any call is under way, one can go on or some are a circle | finitely many calls |
| `RunsDownHolds` | a call ends within a bounded number of its own statements | nothing |

"Nothing" is on the code's side: the behaviour of the database's indexes is part of the
module. The invariant is `IndInvariant`: `Stage` (what a transaction holds are
the rows of the entries it has been through, and nothing before and after it),
`Separate` (no two rows, committed or held by whatever transaction, share a url or
id) and `Result` (what an outcome says about the rows). The conditions under
which an `INSERT` succeeds are what keeps `Separate` (`FreeFacts`), and `Separate` is
what lets `Commit` add all rows at once; all ways in which a call ends are one lemma,
`EndsKeeps`. Every end of a call maps to `Store` or `Refuse`, and a row that is
only held to a stutter.

`SomeoneGoesOn` is the argument that the database's detection of deadlocks is enough: a
call waits only for calls that have not ended, since whoever is in the way holds a row
(`BlockersStarted`); if every one of finitely many calls waits, follow one blocker of
each, and a part of them is permuted (`Circle`, from the well-foundedness of strict
inclusion between finite sets), which is what `Deadlocked` means. `RunsDown` says that
nothing sets a call back, so that it gets its turn after finitely many others.

### ServerProofs

For any clients, calls, ids and urls, and any number of requests, users and failures:

| theorem | says |
|---|---|
| `TypeCorrect` | `Spec => []TypeOK`: among others, no HTTP handler is reached without a user |
| `AnswersAgreeHolds` | in all answers together an id stands for one url and a url for one id |
| `NeverForgottenHolds` | a link that a client was given is found by later requests until it is gone |
| `ListsOwnHolds` | a list has every link of the user the client was told of, and nothing it did not ask for |
| `DeletedByOwnerHolds` | a deleted link was deleted by a request of the client that created it |
| `OrderlyStopHolds` | the process exits after the last request and the last scheduled deletion |
| `ReadableHolds` | (`Response`) the client can read all of an answer by the encoding it was told |
| `LoggedAsSentHolds` | (`Response`) the log has the status and size of what was sent |

`IndInv` says that users are numbered as they are generated (`IssuedInOrder`: a new
user is nobody's yet), that a user belongs to one client (`OneClient`: a cookie in a
client's hands was given to a request of that client), that what was answered is stored
and what is stored was asked for (`AnswersStored`, `LinksAsked`), that a scheduled
deletion was asked for by its user (`PendingAsked`), and how far the stop has come
(`Drained`, `Scheduled`). `DeletedByOwner` then is a chain of three actors: the client
that created the link, its cookie, and the worker that applies the deletion.

The two theorems about `Response` hold for handlers that write any number of chunks, and
for whatever `gzip.Writer` holds back in between. Their invariant is `ResponseInv`: nothing has been
sent or chosen before the first `WriteHeader` or `Write` (`Untouched`); from then on the
choice of the writer, the header that was sent and `compress` agree (`Agreed`), and what is on the
wire followed by what is held back is the gzip header, if any, and what the handler wrote
(`Flowing`); the size in the log is that of the wire. `SubSeq` and concatenation are
handled by `SplitSequence` and `ConcatAppend`.

### ProcessProofs

For any environments, flags and files:

| theorem | says |
|---|---|
| `TypeCorrect` | `Spec => []TypeOK`: among others, `errCh` never has more than its three places |
| `NoneCutOffHolds` | while a request is in flight, what it may need is open, unless `Shutdown` gave up |
| `NothingLeftHolds` | a process that served and ends by itself has no server running and nothing open |
| `ExitStatusHolds` | what the two exit statuses mean |
| `VolatileHolds` | links are kept in memory only if the strongest source with a say asks for it |
| `NeverStuckHolds` | from the start to the exit somebody can go on, but for servers that serve and silent connections |

Its `IndInv` follows what each of the five goroutines has waited for: `Stages` (how main
and the listener belong together), `Opened` and `Closed` (what is open at each point of
`main`), `Returned` (the length of `errCh` counts the servers that have returned, so
that `ServersReturn` means all three), `Waited` (after `GracefulStop` there is no gRPC
call, after a `Shutdown` that did not give up no HTTP request) and `Blamed` (where an error
of the group can come from).

`NeverStuck` is the argument that the three servers, the stopper and `main` never wait
for one another in a circle: once a signal has come or the group has an error, one of
them can go on, or a request is under way, or cmux waits for the first bytes of a
connection. It needs `Unlistened`: whichever server has left has closed the
listener, and so has the stopper of a server that still serves, so that every `Accept`
fails.

### Progress

`NeverStuck`, `WaitsForObserver`, `SomeoneGoesOn`, `RunsDown` and `WorkDecreases` are the safety
half of the liveness properties: somebody can always go on, and in three of the modules
nobody can go on for ever. As `ENABLED` is out of the prover's reach, "can go on" is
written out as the guards of the actions (`CallMoves`, `WorkerMoves`, `Executable`, `MuxFree`, ...);
evaluated with TLC in every reachable state of the runs' instances, these were the same as
`ENABLED` of the actions. What remains for TLC alone is the step from "can" to "does",
which takes fairness.

### What is only model-checked

The liveness properties (`EveryAcceptedHandled`, `CloseReturns`, `EveryRequestEnds`,
`NotifyReturns`, `OthersServed`, `CancelledLeaves`, `EveryCallEnds`, `StopsInTheEnd`),
which are beyond the proof system. Every invariant, action property and refinement that a
passing run checks has its theorem, so that the bounds of the runs matter for these eight only.

Proved and not run: the `TypeOK`s, `Conservation` and `InOrder` of the pipeline,
`PromiseKept`, and the theorems on progress. `LinkStore` and `AsyncDelete` are shown to
be implemented both ways, by TLC and by proof.

## Not modelled

- Contents of ids and urls (validation, the alphabet), log messages, the encoding of
  events, overlong user ids (the middleware issues the ids).
- A kill in the middle of the write of a single line: the line is one small write.
  A write that fails in the middle is modelled, but for one case: all of a line may be
  written except its newline, which leaves a record that a load can still read until
  another is appended to it.
- Urls that are not valid UTF-8: `json.Marshal` replaces their bytes, so that after a
  restart the link leads to another url than the one that was stored.
- `GetStats` with its route and the trusted subnet's check of it: one read of what the
  properties already relate, guarded by one library call. An invalid subnet, which keeps
  the server from starting, is part of `Process`, as is an audit url that is none.
- `/ping`: it asks the database and changes nothing.
- The TLS listener: it makes a certificate at the start or fails, which is `Listen`'s
  failure; it has no state.
- How migrations are applied (library code); that they are run, or the process ends,
  before the repository is used is part of `Process`, and the indexes they create are
  part of `PostgresRepository`.
- `pkg/pool`: two calls of `sync.Pool` with a `Reset` in between, used by no other
  package. `cmd/reset`: a generator run by hand, text in and text out. `cmd/staticlint`:
  a list of library analyzers. The generated protobuf code.
- That every error of the repository is reported as "not found" (`GetOriginal`) is modelled
  in `Server`, which excepts the requests the repository failed from `NeverForgotten`; no
  doc promises otherwise.
