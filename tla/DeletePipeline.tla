-------------------------- MODULE DeletePipeline --------------------------
(***************************************************************************)
(* The asynchronous deletion of service.Shortener (internal/service/       *)
(* shortener.go): DeleteUserURLs hands each accepted request to a sender   *)
(* goroutine, the senders fill the channel delCh, one worker drains it     *)
(* into a buffer and flushes the buffer to the repository when it is full, *)
(* when a ticker fires and when the channel is closed, and Close takes the *)
(* whole thing down in order.                                              *)
(*                                                                         *)
(* One action per step between two synchronisation points of a goroutine:  *)
(* a mutex operation, a channel operation, a WaitGroup operation or a call *)
(* to the repository.  A task is named by its request and its position in  *)
(* it; which user it belongs to follows from the request.                  *)
(*                                                                         *)
(* A definition introduced as a "slip" is not part of the specification:   *)
(* it is the next definition with a mistake, and PROJECT.json names the    *)
(* property that catches it.                                               *)
(***************************************************************************)
EXTENDS Integers, Sequences, FiniteSets, Functions

CONSTANTS
  Calls,          \* the calls of DeleteUserURLs, each with its sender
  Closers,        \* the calls of Close
  Users,          \* who asks for deletions
  MaxIDs,         \* BOUND: short ids in one request
  ChanCap,        \* capacity of delCh: 1024 in the code
  BatchSize,      \* batchSize: 100 in the code
  Nobody          \* closeMu is free; no request yet

ASSUME CallsAssumption     == IsFiniteSet(Calls) /\ Calls \cap Closers = {}
ASSUME NobodyAssumption    == Nobody \notin Calls \cup Closers \cup Users
ASSUME MaxIDsAssumption    == MaxIDs \in Nat \ {0}
ASSUME ChanCapAssumption   == ChanCap \in Nat \ {0}
ASSUME BatchSizeAssumption == BatchSize \in Nat \ {0}

\* deleteTask, with the identity the code has no need of: a task stands for
\* the id at position pos of its call.
Tasks == [call : Calls, pos : 1..MaxIDs]

VARIABLES
  closeMu,        \* the call holding the mutex, or Nobody
  closed,         \* set by Close under closeMu
  enqueueWG,      \* counter of the WaitGroup of senders
  delCh,          \* contents of the channel
  chClosed,       \* close(delCh) has been executed
  pc,             \* where each DeleteUserURLs call and its sender are
  user,           \* userID of each call, Nobody before it is made
  size,           \* len(shortIDs) of each call
  sent,           \* how many of its tasks each sender has sent
  wpc,            \* where the worker is
  buf,            \* the worker's buffer
  groups,         \* byUser: users of buf still to be handed to the repository
  handled,        \* history: how often each task reached the repository
  once,           \* closeOnce: "new", "running" or "done"
  cpc             \* where each Close call is

callVars   == <<pc, user, size, sent>>
workerVars == <<wpc, buf, groups, handled>>
closeVars  == <<once, cpc>>
vars == <<closeMu, closed, enqueueWG, delCh, chClosed, callVars, workerVars,
          closeVars>>

UserOf(t) == user[t.call]

\* generateDeleteTasks: the i-th task of call c
TaskOf(c, i) == [call |-> c, pos |-> i]

TypeOK ==
  /\ closeMu \in Calls \cup Closers \cup {Nobody}
  /\ closed \in BOOLEAN
  /\ enqueueWG \in Nat
  /\ delCh \in Seq(Tasks)
  /\ Len(delCh) <= ChanCap
  /\ chClosed \in BOOLEAN
  /\ pc \in [Calls -> {"idle", "locked", "checked", "sending", "done",
                       "dropped"}]
  /\ user \in [Calls -> Users \cup {Nobody}]
  /\ size \in [Calls -> 0..MaxIDs]
  /\ sent \in [Calls -> 0..MaxIDs]
  /\ wpc \in {"select", "flush", "finish", "exited"}
  /\ buf \in Seq(Tasks)
  /\ Len(buf) <= BatchSize
  /\ groups \subseteq Users
  /\ handled \in [Tasks -> Nat]
  /\ once \in {"new", "running", "done"}
  /\ cpc \in [Closers -> {"idle", "called", "lock", "mark", "wait", "close",
                          "join", "returned"}]

----------------------------------------------------------------------------
(* DeleteUserURLs and the sender goroutine it starts                       *)

\* A call for n ids of user u acquires closeMu.
DeleteLock(c, u, n) ==
  /\ pc[c] = "idle"
  /\ closeMu = Nobody
  /\ closeMu' = c
  /\ pc' = [pc EXCEPT ![c] = "locked"]
  /\ user' = [user EXCEPT ![c] = u]
  /\ size' = [size EXCEPT ![c] = n]
  /\ UNCHANGED <<closed, enqueueWG, delCh, chClosed, sent, workerVars, closeVars>>

\* The service is closed: the request is dropped without a word.
DeleteRefuse(c) ==
  /\ pc[c] = "locked"
  /\ closed
  /\ closeMu' = Nobody
  /\ pc' = [pc EXCEPT ![c] = "dropped"]
  /\ UNCHANGED <<closed, enqueueWG, delCh, chClosed, user, size, sent,
                 workerVars, closeVars>>

\* Slip: the mutex is released between the check and the Add.
DeleteCheckUnlocks(c) ==
  /\ pc[c] = "locked"
  /\ ~closed
  /\ closeMu' = Nobody
  /\ pc' = [pc EXCEPT ![c] = "checked"]
  /\ UNCHANGED <<closed, enqueueWG, delCh, chClosed, user, size, sent,
                 workerVars, closeVars>>

\* if s.closed, answered no; the mutex is still held.
DeleteCheck(c) ==
  /\ pc[c] = "locked"
  /\ ~closed
  /\ pc' = [pc EXCEPT ![c] = "checked"]
  /\ UNCHANGED <<closeMu, closed, enqueueWG, delCh, chClosed, user, size, sent,
                 workerVars, closeVars>>

\* enqueueWG.Add(1), Unlock, go func: the sender of c exists from here on.
DeleteAccept(c) ==
  /\ pc[c] = "checked"
  /\ enqueueWG' = enqueueWG + 1
  /\ closeMu' = Nobody
  /\ pc' = [pc EXCEPT ![c] = "sending"]
  /\ UNCHANGED <<closed, delCh, chClosed, user, size, sent, workerVars, closeVars>>

\* s.delCh <- task blocks while the channel is full.
Send(c) ==
  /\ pc[c] = "sending"
  /\ sent[c] < size[c]
  /\ Len(delCh) < ChanCap
  /\ delCh' = Append(delCh, TaskOf(c, sent[c] + 1))
  /\ sent' = [sent EXCEPT ![c] = @ + 1]
  /\ UNCHANGED <<closeMu, closed, enqueueWG, chClosed, pc, user, size,
                 workerVars, closeVars>>

\* defer s.enqueueWG.Done()
SendDone(c) ==
  /\ pc[c] = "sending"
  /\ sent[c] = size[c]
  /\ enqueueWG' = enqueueWG - 1
  /\ pc' = [pc EXCEPT ![c] = "done"]
  /\ UNCHANGED <<closeMu, closed, delCh, chClosed, user, size, sent,
                 workerVars, closeVars>>

----------------------------------------------------------------------------
(* runDeleteWorker and flushDeleteBatch                                    *)

\* flushDeleteBatch(b) groups the tasks by user; next is where the worker
\* performs the flush.
StartFlush(b, next) ==
  /\ groups' = {UserOf(t) : t \in Range(b)}
  /\ wpc' = next

\* Slip: > for >=.
FullLate(b) == Len(b) > BatchSize

\* The buffer is flushed as soon as it is full ...
Full(b) == Len(b) >= BatchSize

\* Slip: an incomplete batch is not flushed.
DueWhenFull(b) == Len(b) >= BatchSize

\* ... and on a tick or at the end if there is anything in it.
Due(b) == Len(b) > 0

\* Slip: the flushed buffer goes on being used.
SameBuffer == UNCHANGED buf

\* buf = make([]deleteTask, 0, batchSize)
NewBuffer == buf' = <<>>

\* case task, ok := <-s.delCh with ok
Receive ==
  /\ wpc = "select"
  /\ delCh # <<>>
  /\ delCh' = Tail(delCh)
  /\ buf' = Append(buf, Head(delCh))
  /\ IF Full(buf')
       THEN StartFlush(buf', "flush")
       ELSE UNCHANGED <<groups, wpc>>
  /\ UNCHANGED <<closeMu, closed, enqueueWG, chClosed, callVars, handled, closeVars>>

\* case task, ok := <-s.delCh with !ok
ChannelDrained ==
  /\ wpc = "select"
  /\ delCh = <<>>
  /\ chClosed
  /\ IF Due(buf)
       THEN StartFlush(buf, "finish")
       ELSE wpc' = "exited" /\ UNCHANGED groups
  /\ UNCHANGED <<closeMu, closed, enqueueWG, delCh, chClosed, callVars, buf,
                 handled, closeVars>>

\* case <-ticker.C: a tick that finds the buffer empty changes nothing.
Tick ==
  /\ wpc = "select"
  /\ Due(buf)
  /\ StartFlush(buf, "flush")
  /\ UNCHANGED <<closeMu, closed, enqueueWG, delCh, chClosed, callVars, buf,
                 handled, closeVars>>

\* One repo.DeleteUserURLs call of the flush; the map is ranged over in any
\* order and the repository's error is ignored.  After the last group the
\* worker starts a new buffer, or ends.
FlushUser(u) ==
  /\ wpc \in {"flush", "finish"}
  /\ u \in groups
  /\ handled' = [t \in Tasks |->
                   IF t \in Range(buf) /\ UserOf(t) = u THEN handled[t] + 1
                                                        ELSE handled[t]]
  /\ groups' = groups \ {u}
  /\ IF groups' # {} THEN UNCHANGED <<wpc, buf>>
     ELSE /\ NewBuffer
          /\ wpc' = IF wpc = "flush" THEN "select" ELSE "exited"
  /\ UNCHANGED <<closeMu, closed, enqueueWG, delCh, chClosed, callVars, closeVars>>

----------------------------------------------------------------------------
(* Close                                                                   *)

CloseCall(k) ==
  /\ cpc[k] = "idle"
  /\ cpc' = [cpc EXCEPT ![k] = "called"]
  /\ UNCHANGED <<closeMu, closed, enqueueWG, delCh, chClosed, callVars,
                 workerVars, once>>

\* closeOnce.Do runs the body for the first call only ...
OnceFirst(k) ==
  /\ cpc[k] = "called"
  /\ once = "new"
  /\ once' = "running"
  /\ cpc' = [cpc EXCEPT ![k] = "lock"]
  /\ UNCHANGED <<closeMu, closed, enqueueWG, delCh, chClosed, callVars, workerVars>>

\* ... and blocks the others until the body has returned.
OnceSkip(k) ==
  /\ cpc[k] = "called"
  /\ once = "done"
  /\ cpc' = [cpc EXCEPT ![k] = "returned"]
  /\ UNCHANGED <<closeMu, closed, enqueueWG, delCh, chClosed, callVars,
                 workerVars, once>>

CloseLock(k) ==
  /\ cpc[k] = "lock"
  /\ closeMu = Nobody
  /\ closeMu' = k
  /\ cpc' = [cpc EXCEPT ![k] = "mark"]
  /\ UNCHANGED <<closed, enqueueWG, delCh, chClosed, callVars, workerVars, once>>

\* s.closed = true; s.closeMu.Unlock()
CloseMark(k) ==
  /\ cpc[k] = "mark"
  /\ closed' = TRUE
  /\ closeMu' = Nobody
  /\ cpc' = [cpc EXCEPT ![k] = "wait"]
  /\ UNCHANGED <<enqueueWG, delCh, chClosed, callVars, workerVars, once>>

\* Slip: the worker is waited for before its channel is closed.
CloseWaitSwapped(k) ==
  /\ cpc[k] = "wait"
  /\ enqueueWG = 0
  /\ cpc' = [cpc EXCEPT ![k] = "join"]
  /\ UNCHANGED <<closeMu, closed, enqueueWG, delCh, chClosed, callVars,
                 workerVars, once>>

\* s.enqueueWG.Wait()
CloseWait(k) ==
  /\ cpc[k] = "wait"
  /\ enqueueWG = 0
  /\ cpc' = [cpc EXCEPT ![k] = "close"]
  /\ UNCHANGED <<closeMu, closed, enqueueWG, delCh, chClosed, callVars,
                 workerVars, once>>

\* close(s.delCh)
CloseChannel(k) ==
  /\ cpc[k] = "close"
  /\ chClosed' = TRUE
  /\ cpc' = [cpc EXCEPT ![k] = "join"]
  /\ UNCHANGED <<closeMu, closed, enqueueWG, delCh, callVars, workerVars, once>>

\* s.workerWG.Wait() ends when the worker has: Done is its deferred call.
CloseJoin(k) ==
  /\ cpc[k] = "join"
  /\ wpc = "exited"
  /\ once' = "done"
  /\ cpc' = [cpc EXCEPT ![k] = "returned"]
  /\ UNCHANGED <<closeMu, closed, enqueueWG, delCh, chClosed, callVars, workerVars>>

----------------------------------------------------------------------------
(* The specification                                                       *)

\* NewShortener
Init ==
  /\ closeMu = Nobody
  /\ closed = FALSE
  /\ enqueueWG = 0
  /\ delCh = <<>>
  /\ chClosed = FALSE
  /\ pc = [c \in Calls |-> "idle"]
  /\ user = [c \in Calls |-> Nobody]
  /\ size = [c \in Calls |-> 0]
  /\ sent = [c \in Calls |-> 0]
  /\ wpc = "select"
  /\ buf = <<>>
  /\ groups = {}
  /\ handled = [t \in Tasks |-> 0]
  /\ once = "new"
  /\ cpc = [k \in Closers |-> "idle"]

DeleteStep(c) ==
  \/ DeleteRefuse(c) \/ DeleteCheck(c) \/ DeleteAccept(c)
  \/ Send(c) \/ SendDone(c)

Consume == Receive \/ ChannelDrained
Flush == \E u \in Users : FlushUser(u)

CloseStep(k) ==
  \/ OnceFirst(k) \/ OnceSkip(k)
  \/ CloseLock(k) \/ CloseMark(k)
  \/ CloseWait(k) \/ CloseChannel(k) \/ CloseJoin(k)

\* Every call has been made and has ended: nothing more is expected.
Terminated ==
  /\ \A c \in Calls : pc[c] \in {"done", "dropped"}
  /\ \A k \in Closers : cpc[k] = "returned"
  /\ UNCHANGED vars

Next ==
  \/ \E c \in Calls :
       \/ \E u \in Users, n \in 1..MaxIDs : DeleteLock(c, u, n)
       \/ DeleteStep(c)
  \/ Consume \/ Tick \/ Flush
  \/ \E k \in Closers : CloseCall(k) \/ CloseStep(k)
  \/ Terminated

Spec == Init /\ [][Next]_vars

\* The Go scheduler runs every goroutine that can run, a blocked send or
\* lock is eventually served (waiters queue), and the ticker keeps ticking.
\* Nothing obliges anyone to call DeleteUserURLs or Close.
Fairness ==
  /\ \A c \in Calls : WF_vars(DeleteStep(c))
  /\ WF_vars(Consume) /\ WF_vars(Tick) /\ WF_vars(Flush)
  /\ \A k \in Closers : WF_vars(CloseStep(k))

FairSpec == Spec /\ Fairness

----------------------------------------------------------------------------
(* Properties                                                              *)

\* Tasks of the calls that got past the closed check.
Accepted == {t \in Tasks : /\ pc[t.call] \in {"sending", "done"}
                           /\ t.pos <= size[t.call]}

\* Accepted, but not yet in the channel.
Unsent == {t \in Accepted : t.pos > sent[t.call]}

\* In the worker's buffer, its group not yet handed over.
Pending == {t \in Range(buf) : wpc = "select" \/ UserOf(t) \in groups}

\* The channel is closed once every sender is through, so no sender can
\* panic on it, and the WaitGroup counts the live senders: the Add under
\* closeMu cannot be overtaken by the Wait of Close.
ChannelDiscipline ==
  /\ enqueueWG = Cardinality({c \in Calls : pc[c] = "sending"})
  /\ chClosed => closed /\ enqueueWG = 0
  /\ \A k \in Closers : cpc[k] = "close" => ~chClosed /\ enqueueWG = 0

\* Handed over to the repository.
Handed == {t \in Tasks : handled[t] = 1}

\* Exactly-once hand-over.  An accepted task is in exactly one place: with
\* its sender, in the channel, in the buffer, or handed to the repository,
\* and handed over no more than once; a task nobody accepted is nowhere.
Conservation ==
  /\ IsInjective(delCh)
  /\ IsInjective(buf)
  /\ \A t \in Tasks : handled[t] <= 1
  /\ Accepted = Unsent \cup Range(delCh) \cup Pending \cup Handed
  /\ Unsent \cap (Range(delCh) \cup Pending \cup Handed) = {}
  /\ Range(delCh) \cap (Pending \cup Handed) = {}
  /\ Pending \cap Handed = {}

\* "Close waits for all scheduled deletions and flushes the last batch":
\* when any call of Close has returned, every accepted task has reached the
\* repository.
CloseFlushesAll ==
  (\E k \in Closers : cpc[k] = "returned")
    => \A t \in Accepted : handled[t] = 1

\* The ids of one request reach the repository in the order of the request,
\* whatever the interleaving of senders and the order of the groups.
InOrder ==
  \A t1, t2 \in Accepted :
    t1.call = t2.call /\ t1.pos < t2.pos /\ handled[t2] > 0 => handled[t1] > 0

\* Without Close, the ticker alone brings every accepted task to the
\* repository, however full the channel is and whatever the batch size.
EveryAcceptedHandled ==
  \A t \in Tasks : t \in Accepted ~> handled[t] = 1

\* Close returns: it cannot wait for ever on the lock, on a sender blocked on
\* a full channel, or on the worker.
CloseReturns ==
  \A k \in Closers : cpc[k] = "called" ~> cpc[k] = "returned"

\* The pipeline implements the promise of AsyncDelete.
Abstract == INSTANCE AsyncDelete WITH
  phase     <- IF once = "done" THEN "returned" ELSE IF closed THEN "shut" ELSE "open",
  scheduled <- Accepted

\* Every step of senders, worker and Close is a step of AsyncDelete or
\* stutters: scheduling stops at the closed flag, a hand-over is of
\* outstanding tasks only, Close returns with none left.
ImplementsAsyncDelete == Abstract!ASpec
=============================================================================
