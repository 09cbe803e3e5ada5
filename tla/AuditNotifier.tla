--------------------------- MODULE AuditNotifier ---------------------------
(***************************************************************************)
(* Audit events on their way to the observers (internal/audit/audit.go):   *)
(* Notifier.Notify, FileObserver.Notify and RemoteObserver.Notify.         *)
(*                                                                         *)
(* The facade calls Notify in the goroutine of the request, which waits    *)
(* for it: each event stands for one such call, with the request's context.*)
(* Notify starts a goroutine for each observer; a semaphore of one place   *)
(* lets the goroutines of concurrent calls pass to an observer one by one. *)
(* The definitions introduced as slips are mutations, not part of the      *)
(* specification.                                                          *)
(***************************************************************************)
EXTENDS Naturals, Sequences, FiniteSets

CONSTANTS
  Events,       \* the calls of Notify
  Kinds,        \* the observers in their order, each "file" or "remote"
  RetryMax,     \* remoteObserverRetryMax: 3 in the code
  Stuck         \* observers that nobody promises to be done with an event

Observers == DOMAIN Kinds

ASSUME KindsAssumption == Kinds \in Seq({"file", "remote"})
ASSUME RetryMaxAssumption == RetryMax \in Nat
ASSUME StuckAssumption == Stuck \subseteq Observers

VARIABLES
  next,         \* the observer whose goroutine Notify starts next; 0: not called
  pc,           \* where the goroutine of each event and observer is
  wg,           \* the WaitGroup of each call
  errCh,        \* observers whose result is in the call's channel
  result,       \* what the goroutine of each event and observer sends there
  answer,       \* what Notify returned: "nil" or "error"
  cancelled,    \* events whose request's context is done
  sem,          \* how many tokens each observer's semaphore holds
  tries,        \* retries spent so far by the http client, in each of its calls
  log,          \* events that are in the file, or that the endpoint accepted
  torn,         \* files that end in the middle of a line
  garbled       \* events written to the end of such a line: nobody can read them

callVars == <<next, wg, answer>>
targetVars == <<log, torn, garbled>>
vars == <<callVars, pc, errCh, result, cancelled, sem, tries, targetVars>>

Goroutine == {"new", "select", "notify", "send", "release", "cancelled", "exit", "gone"}

TypeOK ==
  /\ next \in [Events -> 0..Len(Kinds) + 1]
  /\ pc \in [Events -> [Observers -> Goroutine]]
  /\ wg \in [Events -> 0..Len(Kinds)]
  /\ errCh \in [Events -> SUBSET Observers]
  /\ result \in [Events -> [Observers -> {"none", "nil", "error"}]]
  /\ answer \in [Events -> {"none", "nil", "error"}]
  /\ cancelled \in SUBSET Events
  /\ sem \in [Observers -> 0..1]
  /\ tries \in [Events -> [Observers -> 0..RetryMax]]
  /\ log \in [Observers -> SUBSET Events]
  /\ torn \in SUBSET Observers
  /\ garbled \in [Observers -> SUBSET Events]

At(e, o, where) == pc[e][o] = where
Goes(e, o, where) == pc' = [pc EXCEPT ![e][o] = where]

----------------------------------------------------------------------------
(* Notify                                                                  *)

\* The facade calls Notify.
Call(e) ==
  /\ next[e] = 0
  /\ next' = [next EXCEPT ![e] = 1]
  /\ UNCHANGED <<pc, wg, errCh, result, answer, cancelled, sem, tries, targetVars>>

\* Slip: the goroutine does its own Add, when it runs.
LaunchNoAdd(e) == UNCHANGED wg

LaunchAdd(e) == wg' = [wg EXCEPT ![e] = @ + 1]

\* One turn of the loop: Add, then the goroutine.
Launch(e) ==
  /\ next[e] \in Observers
  /\ LaunchAdd(e)
  /\ Goes(e, next[e], "select")
  /\ next' = [next EXCEPT ![e] = @ + 1]
  /\ UNCHANGED <<errCh, result, answer, cancelled, sem, tries, targetVars>>

\* Slip: it takes the errors of all observers to make an error.
JoinedAll(e) ==
  IF \A o \in errCh[e] : result[e][o] = "error" THEN "error" ELSE "nil"

\* errors.Join over what is in the channel
Joined(e) == IF \E o \in errCh[e] : result[e][o] = "error" THEN "error" ELSE "nil"

\* wg.Wait returns; no goroutine is left to send, the channel is closed and read.
Return(e) ==
  /\ next[e] = Len(Kinds) + 1
  /\ wg[e] = 0
  /\ answer[e] = "none"
  /\ answer' = [answer EXCEPT ![e] = Joined(e)]
  /\ UNCHANGED <<next, pc, wg, errCh, result, cancelled, sem, tries, targetVars>>

----------------------------------------------------------------------------
(* The goroutine of one event and one observer                             *)

\* Slip: one semaphore for all observers.
FreeShared(o) == \A p \in Observers : sem[p] = 0

\* Slip: a semaphore of two places.
FreeTwo(o) == sem[o] < 2

\* The send on the semaphore, a channel of one place, can go ahead.
Free(o) == sem[o] = 0

\* The select of the goroutine takes whichever case is ready: the semaphore ...
Acquire(e, o) ==
  /\ At(e, o, "select")
  /\ Free(o)
  /\ sem' = [sem EXCEPT ![o] = @ + 1]
  /\ Goes(e, o, "notify")
  /\ UNCHANGED <<callVars, errCh, result, cancelled, tries, targetVars>>

\* Slip: the context is not watched.
DoneNever(e) == FALSE

Done(e) == e \in cancelled

\* ... or the context.
GiveUp(e, o) ==
  /\ At(e, o, "select")
  /\ Done(e)
  /\ result' = [result EXCEPT ![e][o] = "error"]
  /\ Goes(e, o, "cancelled")
  /\ UNCHANGED <<callVars, errCh, cancelled, sem, tries, targetVars>>

\* Slip: the semaphore is not given back after an error.
AfterSendKeep(e, o) == IF result[e][o] = "nil" THEN "release" ELSE "exit"

\* The deferred calls: give the semaphore back, if it was taken, then Done.
AfterSend(e, o) == IF At(e, o, "send") THEN "release" ELSE "exit"

\* The result goes into the channel, which nobody reads before wg.Wait returns.
SendResult(e, o) ==
  /\ pc[e][o] \in {"send", "cancelled"}
  /\ Cardinality(errCh[e]) < Len(Kinds)
  /\ errCh' = [errCh EXCEPT ![e] = @ \cup {o}]
  /\ Goes(e, o, AfterSend(e, o))
  /\ UNCHANGED <<callVars, result, cancelled, sem, tries, targetVars>>

Release(e, o) ==
  /\ At(e, o, "release")
  /\ sem[o] > 0
  /\ sem' = [sem EXCEPT ![o] = @ - 1]
  /\ Goes(e, o, "exit")
  /\ UNCHANGED <<callVars, errCh, result, cancelled, tries, targetVars>>

Exit(e, o) ==
  /\ At(e, o, "exit")
  /\ wg' = [wg EXCEPT ![e] = @ - 1]
  /\ Goes(e, o, "gone")
  /\ UNCHANGED <<next, errCh, result, answer, cancelled, sem, tries, targetVars>>

----------------------------------------------------------------------------
(* The observers                                                           *)

\* observer.Notify returns res.
Notified(e, o, res) ==
  /\ result' = [result EXCEPT ![e][o] = res]
  /\ Goes(e, o, "send")
  /\ tries' = [tries EXCEPT ![e][o] = 0]
  /\ UNCHANGED <<callVars, errCh, cancelled, sem>>

Takes(e, o) == log' = [log EXCEPT ![o] = @ \cup {e}]

\* FileObserver.Notify appends a line; at the end of a torn line it is not a line
\* of its own.
FileWrites(e, o) ==
  /\ At(e, o, "notify") /\ Kinds[o] = "file"
  /\ e \notin cancelled
  /\ IF o \in torn
       THEN garbled' = [garbled EXCEPT ![o] = @ \cup {e}] /\ UNCHANGED log
       ELSE Takes(e, o) /\ UNCHANGED garbled
  /\ torn' = torn \ {o}
  /\ Notified(e, o, "nil")

\* The context is done, or nothing is written: the disk is full, or run has
\* closed the file already, not waiting for this request.
FileFails(e, o) ==
  /\ At(e, o, "notify") /\ Kinds[o] = "file"
  /\ Notified(e, o, "error")
  /\ UNCHANGED targetVars

\* The write is cut short.
FileTears(e, o) ==
  /\ At(e, o, "notify") /\ Kinds[o] = "file"
  /\ e \notin cancelled
  /\ torn' = torn \cup {o}
  /\ Notified(e, o, "error")
  /\ UNCHANGED <<log, garbled>>

\* The endpoint answers with a status below 400; if the request is cancelled
\* now, the answer was already on its way.
RemoteAccepts(e, o) ==
  /\ At(e, o, "notify") /\ Kinds[o] = "remote"
  /\ Takes(e, o)
  /\ Notified(e, o, "nil")
  /\ UNCHANGED <<torn, garbled>>

\* No answer within five seconds, a broken connection or a status from 500: the
\* client tries again.
RemoteRetries(e, o) ==
  /\ At(e, o, "notify") /\ Kinds[o] = "remote"
  /\ e \notin cancelled
  /\ tries[e][o] < RetryMax
  /\ tries' = [tries EXCEPT ![e][o] = @ + 1]
  /\ UNCHANGED <<callVars, pc, errCh, result, cancelled, sem, targetVars>>

\* Slip: a status of 400 and more is taken for an answer like any other.
RejectedNil == "nil"

Rejected == "error"

\* The endpoint rejects the event, the request is cancelled, or the last
\* attempt failed.
RemoteFails(e, o) ==
  /\ At(e, o, "notify") /\ Kinds[o] = "remote"
  /\ Notified(e, o, Rejected)
  /\ UNCHANGED targetVars

----------------------------------------------------------------------------
(* The specification                                                       *)

Init ==
  /\ next = [e \in Events |-> 0]
  /\ pc = [e \in Events |-> [o \in Observers |-> "new"]]
  /\ wg = [e \in Events |-> 0]
  /\ errCh = [e \in Events |-> {}]
  /\ result = [e \in Events |-> [o \in Observers |-> "none"]]
  /\ answer = [e \in Events |-> "none"]
  /\ cancelled = {}
  /\ sem = [o \in Observers |-> 0]
  /\ tries = [e \in Events |-> [o \in Observers |-> 0]]
  /\ log = [o \in Observers |-> {}]
  /\ torn = {}
  /\ garbled = [o \in Observers |-> {}]

\* The client goes away, before or while its event is on its way.
Cancel(e) ==
  /\ answer[e] = "none"
  /\ cancelled' = cancelled \cup {e}
  /\ UNCHANGED <<callVars, pc, errCh, result, sem, tries, targetVars>>

Proceed(e) == Launch(e) \/ Return(e)

Pass(e, o) == Acquire(e, o) \/ SendResult(e, o) \/ Release(e, o) \/ Exit(e, o)

Observe(e, o) ==
  \/ FileWrites(e, o) \/ FileFails(e, o) \/ FileTears(e, o)
  \/ RemoteAccepts(e, o) \/ RemoteRetries(e, o) \/ RemoteFails(e, o)

\* All events have been audited: the server waits for requests.
Quiet == (\A e \in Events : answer[e] # "none") /\ UNCHANGED vars

Next ==
  \/ \E e \in Events :
       \/ Call(e) \/ Cancel(e) \/ Proceed(e)
       \/ \E o \in Observers : Pass(e, o) \/ GiveUp(e, o) \/ Observe(e, o)
  \/ Quiet

Spec == Init /\ [][Next]_vars

\* Goroutines that can run do run.  An observer is done with an event after
\* some time, for the file is local and the http client has its timeouts; those
\* in Stuck may take for ever.
FairSpec ==
  /\ Spec
  /\ \A e \in Events :
       /\ WF_vars(Proceed(e))
       /\ \A o \in Observers :
            /\ WF_vars(Pass(e, o)) /\ WF_vars(GiveUp(e, o))
            /\ o \notin Stuck => WF_vars(Observe(e, o))

----------------------------------------------------------------------------
(* Properties                                                              *)

\* What the semaphore is for: an observer is given one event at a time,
\* however many requests are audited at once and whichever are cancelled.
OneAtATime ==
  \A o \in Observers : \A e, f \in Events :
    At(e, o, "notify") /\ At(f, o, "notify") => e = f

\* Notify returns after all of its goroutines: none is left to send on the
\* closed channel, to hold a semaphore, or to deliver the event later.
NoneLeft ==
  \A e \in Events : answer[e] # "none" => \A o \in Observers : At(e, o, "gone")

\* Notify reports success only if every observer has taken the event; the audit
\* file has no readable line of it if the line before was cut short.
NilMeansTaken ==
  \A e \in Events : answer[e] = "nil" =>
    \A o \in Observers : e \in log[o] \cup garbled[o]

\* Every Notify returns, and with it the request that is audited, unless it is
\* held up for ever by an observer that is stuck.
NotifyReturns ==
  \A e \in Events :
    \/ next[e] # 0 ~> answer[e] # "none"
    \/ <>[](\E o \in Stuck : pc[e][o] \in {"select", "notify"})

\* An observer that is stuck with one event does not keep the other observers
\* from this event or from the next.
OthersServed ==
  \A e \in Events, o \in Observers \ Stuck :
    At(e, o, "select") ~> At(e, o, "gone")

\* A cancelled request does not wait for an observer that is busy with another.
CancelledLeaves ==
  \A e \in Events, o \in Observers :
    At(e, o, "select") /\ e \in cancelled ~>
      At(e, o, "gone") \/ At(e, o, "notify")
=============================================================================
