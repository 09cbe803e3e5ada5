------------------------ MODULE AuditNotifierProofs ------------------------
(***************************************************************************)
(* Proofs about AuditNotifier, for any number of calls and of observers.   *)
(***************************************************************************)
EXTENDS AuditNotifier, FiniteSetTheorems, TLAPS

\* The goroutines between Add and Done, and those past the semaphore.
Live(e) == {o \in Observers : pc[e][o] \notin {"new", "gone"}}
Holds(e, o) == pc[e][o] \in {"notify", "send", "release"}

\* The types of the variables, without the bounds of the counters.
Types ==
  /\ next \in [Events -> 0..Len(Kinds) + 1]
  /\ pc \in [Events -> [Observers -> Goroutine]]
  /\ wg \in [Events -> Int]
  /\ errCh \in [Events -> SUBSET Observers]
  /\ result \in [Events -> [Observers -> {"none", "nil", "error"}]]
  /\ answer \in [Events -> {"none", "nil", "error"}]
  /\ cancelled \in SUBSET Events
  /\ sem \in [Observers -> Int]
  /\ tries \in [Events -> [Observers -> 0..RetryMax]]
  /\ log \in [Observers -> SUBSET Events]
  /\ torn \in SUBSET Observers
  /\ garbled \in [Observers -> SUBSET Events]

\* Notify has started the goroutines of the observers before next, and no other.
Launched == \A e \in Events, o \in Observers : pc[e][o] = "new" <=> next[e] <= o

\* The WaitGroup counts the goroutines.
Counted == \A e \in Events : wg[e] = Cardinality(Live(e))

\* The semaphore is taken as long as one goroutine is past it, and one only.
Held ==
  \A o \in Observers :
    /\ sem[o] \in 0..1
    /\ \A e \in Events : Holds(e, o) => sem[o] = 1
    /\ \A e, f \in Events : Holds(e, o) /\ Holds(f, o) => e = f

\* A goroutine that has sent its result is past the send, and a result of nil
\* means that the observer has the event.
Results ==
  \A e \in Events, o \in Observers :
    /\ pc[e][o] \in {"release", "exit", "gone"} => o \in errCh[e] /\ result[e][o] # "none"
    /\ pc[e][o] \in {"send", "cancelled"} => result[e][o] # "none"
    /\ result[e][o] = "nil" => e \in log[o] \cup garbled[o]

\* What Notify returned joins the results of all observers.
Answers ==
  \A e \in Events : answer[e] # "none" =>
    /\ next[e] = Len(Kinds) + 1
    /\ \A o \in Observers : At(e, o, "gone")
    /\ answer[e] = "nil" => \A o \in Observers : result[e][o] = "nil"

IndInv == Types /\ Launched /\ Counted /\ Held /\ Results /\ Answers

----------------------------------------------------------------------------
(* Facts about the constants and about single steps                        *)

LEMMA ObserversAre == /\ Len(Kinds) \in Nat
                      /\ Observers = 1..Len(Kinds)
  BY KindsAssumption DEF Observers

LEMMA LiveFinite ==
  ASSUME NEW e \in Events
  PROVE  /\ IsFiniteSet(Live(e))
         /\ Cardinality(Live(e)) \in Nat
         /\ Cardinality(Live(e)) <= Len(Kinds)
<1>1. /\ IsFiniteSet(Observers)
      /\ Cardinality(Observers) = Len(Kinds)
  BY ObserversAre, FS_Interval
<1>2. Live(e) \subseteq Observers
  BY DEF Live
<1>3. QED
  BY <1>1, <1>2, FS_Subset, FS_CardinalityType

\* The goroutine of e and o goes from one place to another, in none of which it
\* is new, and the other goroutines stay where they are.
Moves(e, o, to) == /\ pc[e][o] # "new"
                   /\ to \in Goroutine \ {"new"}
                   /\ pc' = [pc EXCEPT ![e][o] = to]

\* The steps of a goroutine, but for the retries, which leave it where it is.
Advance(e, o) == \/ Pass(e, o) \/ GiveUp(e, o)
                 \/ FileWrites(e, o) \/ FileFails(e, o) \/ FileTears(e, o)
                 \/ RemoteAccepts(e, o) \/ RemoteFails(e, o)

\* Every step is one of these.
LEMMA Steps ==
  ASSUME [Next]_vars
  PROVE  \/ UNCHANGED vars
         \/ \E e \in Events : \/ Call(e) \/ Cancel(e) \/ Launch(e) \/ Return(e)
                             \/ \E o \in Observers : Advance(e, o) \/ RemoteRetries(e, o)
BY DEF Next, Proceed, Observe, Quiet, Advance

\* A goroutine that advances moves on, and its call does not.
LEMMA GoroutineMoves ==
  ASSUME Types, NEW e \in Events, NEW o \in Observers,
         Advance(e, o)
  PROVE  /\ next' = next
         /\ answer' = answer
         /\ \E to \in Goroutine : Moves(e, o, to)
BY DEF Types, Advance, Pass, GiveUp, Acquire, SendResult, Release, Exit, FileWrites,
   FileFails, FileTears, RemoteAccepts, RemoteFails, Notified, Goes, At, Goroutine,
   Moves, AfterSend, callVars

\* What the steps other than those of goroutines do to the control state.
LEMMA CallMoves ==
  ASSUME Types, NEW e \in Events,
         Call(e) \/ Cancel(e) \/ Return(e) \/ \E o \in Observers : RemoteRetries(e, o)
  PROVE  /\ pc' = pc /\ wg' = wg /\ sem' = sem /\ errCh' = errCh
         /\ result' = result /\ log' = log /\ garbled' = garbled
BY DEF Call, Cancel, Return, RemoteRetries, callVars, targetVars

----------------------------------------------------------------------------
(* The invariant is preserved, part by part                                *)

LEMMA TypesStep ==
  ASSUME Types, [Next]_vars
  PROVE  Types'
<1>1. CASE UNCHANGED vars
  BY <1>1 DEF Types, vars, callVars, targetVars
<1>2. ASSUME NEW e \in Events, Call(e) PROVE Types'
  BY <1>2, ObserversAre DEF Types, Call, targetVars
<1>3. ASSUME NEW e \in Events, Cancel(e) PROVE Types'
  BY <1>3 DEF Types, Cancel, callVars, targetVars
<1>4. ASSUME NEW e \in Events, Launch(e) PROVE Types'
  BY <1>4, ObserversAre DEF Types, Launch, LaunchAdd, Goes, Goroutine, targetVars
<1>5. ASSUME NEW e \in Events, Return(e) PROVE Types'
  BY <1>5 DEF Types, Return, Joined, targetVars
<1>6. ASSUME NEW e \in Events, NEW o \in Observers, Pass(e, o) PROVE Types'
  <2>1. CASE Acquire(e, o)
    BY <2>1 DEF Types, Acquire, Goes, Goroutine, callVars, targetVars
  <2>2. CASE SendResult(e, o)
    BY <2>2 DEF Types, SendResult, AfterSend, Goes, Goroutine, callVars, targetVars
  <2>3. CASE Release(e, o)
    BY <2>3 DEF Types, Release, Goes, Goroutine, callVars, targetVars
  <2>4. CASE Exit(e, o)
    BY <2>4 DEF Types, Exit, Goes, Goroutine, targetVars
  <2>5. QED
    BY <1>6, <2>1, <2>2, <2>3, <2>4 DEF Pass
<1>7. ASSUME NEW e \in Events, NEW o \in Observers, GiveUp(e, o) PROVE Types'
  BY <1>7 DEF Types, GiveUp, Goes, Goroutine, callVars, targetVars
<1>8. ASSUME NEW e \in Events, NEW o \in Observers, Observe(e, o) PROVE Types'
  <2>1. ASSUME NEW res \in {"nil", "error"}, Notified(e, o, res)
        PROVE  /\ pc' \in [Events -> [Observers -> Goroutine]]
               /\ result' \in [Events -> [Observers -> {"none", "nil", "error"}]]
               /\ tries' \in [Events -> [Observers -> 0..RetryMax]]
               /\ UNCHANGED <<callVars, errCh, cancelled, sem>>
    BY <2>1, RetryMaxAssumption DEF Types, Notified, Goes, Goroutine
  <2>2. CASE FileWrites(e, o)
    <3>1. Notified(e, o, "nil") /\ torn' = torn \ {o}
      BY <2>2 DEF FileWrites
    <3>2. /\ log' \in [Observers -> SUBSET Events]
          /\ garbled' \in [Observers -> SUBSET Events]
      <4>1. \/ log' = log
            \/ log' = [log EXCEPT ![o] = @ \cup {e}]
        BY <2>2 DEF FileWrites, Takes
      <4>2. \/ garbled' = garbled
            \/ garbled' = [garbled EXCEPT ![o] = @ \cup {e}]
        BY <2>2 DEF FileWrites
      <4>3. log[o] \cup {e} \in SUBSET Events /\ garbled[o] \cup {e} \in SUBSET Events
        BY DEF Types
      <4>4. log' \in [Observers -> SUBSET Events]
        BY <4>1, <4>3 DEF Types
      <4>5. garbled' \in [Observers -> SUBSET Events]
        BY <4>2, <4>3 DEF Types
      <4>6. QED
        BY <4>4, <4>5
    <3>3. QED
      BY <2>1, <3>1, <3>2 DEF Types, callVars
  <2>3. CASE FileFails(e, o)
    BY <2>1, <2>3 DEF Types, FileFails, callVars, targetVars
  <2>4. CASE FileTears(e, o)
    BY <2>1, <2>4 DEF Types, FileTears, callVars
  <2>5. CASE RemoteAccepts(e, o)
    BY <2>1, <2>5 DEF Types, RemoteAccepts, Takes, callVars
  <2>6. CASE RemoteRetries(e, o)
    BY <2>6, RetryMaxAssumption DEF Types, RemoteRetries, callVars, targetVars
  <2>7. CASE RemoteFails(e, o)
    BY <2>1, <2>7 DEF Types, RemoteFails, Rejected, callVars, targetVars
  <2>8. QED
    BY <1>8, <2>2, <2>3, <2>4, <2>5, <2>6, <2>7 DEF Observe
<1>9. QED
  BY <1>1, <1>2, <1>3, <1>4, <1>5, <1>6, <1>7, <1>8 DEF Next, Proceed, Quiet

LEMMA LaunchedStep ==
  ASSUME Types, Launched, [Next]_vars
  PROVE  Launched'
<1>1. CASE UNCHANGED vars
  BY <1>1 DEF Launched, vars, callVars
<1>2. ASSUME NEW e \in Events, Call(e) PROVE Launched'
  BY <1>2, ObserversAre DEF Types, Launched, Call
<1>3. ASSUME NEW e \in Events, Cancel(e) PROVE Launched'
  BY <1>3 DEF Launched, Cancel, callVars
<1>4. ASSUME NEW e \in Events, Launch(e) PROVE Launched'
  BY <1>4, ObserversAre DEF Types, Launched, Launch, Goes
<1>5. ASSUME NEW e \in Events, Return(e) PROVE Launched'
  BY <1>5 DEF Launched, Return
<1>6. ASSUME NEW e \in Events, NEW o \in Observers, RemoteRetries(e, o) PROVE Launched'
  BY <1>6 DEF Launched, RemoteRetries, callVars
<1>7. ASSUME NEW e \in Events, NEW o \in Observers, Advance(e, o) PROVE Launched'
  <2>1. PICK to \in Goroutine : Moves(e, o, to)
    BY <1>7, GoroutineMoves
  <2>2. \A f \in Events, p \in Observers : pc'[f][p] = "new" <=> pc[f][p] = "new"
    BY <2>1 DEF Types, Moves
  <2>3. QED
    BY <2>2, <1>7, GoroutineMoves DEF Launched
<1>8. QED
  BY <1>1, <1>2, <1>3, <1>4, <1>5, <1>6, <1>7, Steps

LEMMA CountedStep ==
  ASSUME Types, Launched, Counted, [Next]_vars
  PROVE  Counted'
<1>1. ASSUME pc' = pc, wg' = wg PROVE Counted'
  BY <1>1 DEF Counted, Live
<1>2. ASSUME NEW e \in Events, Launch(e) PROVE Counted'
  <2>1. next[e] \in Observers /\ pc[e][next[e]] = "new"
    BY <1>2, ObserversAre DEF Launch, Launched, Types
  <2>2. Live(e)' = Live(e) \cup {next[e]} /\ next[e] \notin Live(e)
    BY <1>2, <2>1 DEF Launch, Goes, Live, Types
  <2>3. Cardinality(Live(e)') = Cardinality(Live(e)) + 1
    BY <2>2, LiveFinite, FS_AddElement
  <2>4. wg'[e] = wg[e] + 1
    BY <1>2 DEF Launch, LaunchAdd, Types
  <2>5. \A f \in Events \ {e} : Live(f)' = Live(f) /\ wg'[f] = wg[f]
    BY <1>2 DEF Launch, LaunchAdd, Goes, Live, Types
  <2>6. QED
    BY <2>3, <2>4, <2>5 DEF Counted
<1>3. ASSUME NEW e \in Events, NEW o \in Observers, Exit(e, o) PROVE Counted'
  <2>1. Live(e)' = Live(e) \ {o} /\ o \in Live(e)
    BY <1>3 DEF Exit, At, Goes, Live, Types
  <2>2. Cardinality(Live(e)') = Cardinality(Live(e)) - 1
    BY <2>1, LiveFinite, FS_RemoveElement
  <2>3. wg'[e] = wg[e] - 1
    BY <1>3 DEF Exit, Types
  <2>4. \A f \in Events \ {e} : Live(f)' = Live(f) /\ wg'[f] = wg[f]
    BY <1>3 DEF Exit, Goes, Live, Types
  <2>5. QED
    BY <2>2, <2>3, <2>4 DEF Counted
<1>4. ASSUME NEW e \in Events, NEW o \in Observers, Advance(e, o), ~Exit(e, o)
      PROVE  Counted'
  <2>1. /\ wg' = wg
        /\ pc[e][o] \notin {"new", "gone"}
        /\ \E to \in Goroutine \ {"new", "gone"} : pc' = [pc EXCEPT ![e][o] = to]
    BY <1>4 DEF Types, Advance, Pass, GiveUp, Acquire, SendResult, Release, FileWrites,
       FileFails, FileTears, RemoteAccepts, RemoteFails, Notified, Goes, At, Goroutine,
       AfterSend, callVars
  <2>2. \A f \in Events : Live(f)' = Live(f)
    BY <2>1 DEF Live, Types
  <2>3. QED
    BY <2>1, <2>2 DEF Counted
<1>5. ASSUME NEW e \in Events, NEW o \in Observers, Advance(e, o) PROVE Counted'
  BY <1>3, <1>4, <1>5
<1>6. ASSUME NEW e \in Events,
             Call(e) \/ Cancel(e) \/ Return(e) \/ \E o \in Observers : RemoteRetries(e, o)
      PROVE  Counted'
  BY <1>1, <1>6, CallMoves
<1>7. CASE UNCHANGED vars
  BY <1>1, <1>7 DEF vars, callVars
<1>8. QED
  BY <1>2, <1>5, <1>6, <1>7, Steps

\* The semaphores stay as they are when nobody gets past one or back.
LEMMA HeldKept ==
  ASSUME Held, sem' = sem,
         \A e \in Events, o \in Observers : Holds(e, o)' <=> Holds(e, o)
  PROVE  Held'
BY DEF Held

LEMMA HeldStep ==
  ASSUME Types, Launched, Held, [Next]_vars
  PROVE  Held'
<1>1. ASSUME pc' = pc, sem' = sem PROVE Held'
  BY <1>1, HeldKept DEF Holds
<1>2. ASSUME NEW e \in Events, Launch(e) PROVE Held'
  <2>1. next[e] \in Observers /\ pc[e][next[e]] = "new" /\ sem' = sem
    BY <1>2, ObserversAre DEF Launch, Launched, Types
  <2>2. \A f \in Events, p \in Observers : Holds(f, p)' <=> Holds(f, p)
    BY <1>2, <2>1 DEF Launch, Goes, Holds, Types
  <2>3. QED
    BY <2>1, <2>2, HeldKept
<1>3. ASSUME NEW e \in Events, NEW o \in Observers, Acquire(e, o) PROVE Held'
  <2>1. sem[o] = 0 /\ sem'[o] = 1
    BY <1>3 DEF Acquire, Free, Types
  <2>2. \A f \in Events : Holds(f, o)' <=> f = e
    BY <1>3, <2>1 DEF Acquire, Goes, Holds, Held, Types
  <2>3. \A p \in Observers \ {o} : sem'[p] = sem[p] /\ \A f \in Events : Holds(f, p)' <=> Holds(f, p)
    BY <1>3 DEF Acquire, Goes, Holds, Types
  <2>4. QED
    BY <2>1, <2>2, <2>3 DEF Held
<1>4. ASSUME NEW e \in Events, NEW o \in Observers, Release(e, o) PROVE Held'
  <2>1. Holds(e, o) /\ sem[o] = 1 /\ sem'[o] = 0
    BY <1>4 DEF Release, At, Holds, Held, Types
  <2>2. \A f \in Events : ~Holds(f, o)'
    BY <1>4, <2>1 DEF Release, Goes, Holds, Held, Types
  <2>3. \A p \in Observers \ {o} : sem'[p] = sem[p] /\ \A f \in Events : Holds(f, p)' <=> Holds(f, p)
    BY <1>4 DEF Release, Goes, Holds, Types
  <2>4. QED
    BY <2>1, <2>2, <2>3 DEF Held
<1>5. ASSUME NEW e \in Events, NEW o \in Observers, Advance(e, o), ~Acquire(e, o), ~Release(e, o)
      PROVE  Held'
  <2>1. /\ sem' = sem
        /\ \E to \in Goroutine :
             /\ pc' = [pc EXCEPT ![e][o] = to]
             /\ to \in {"notify", "send", "release"} <=> Holds(e, o)
    BY <1>5 DEF Types, Advance, Pass, GiveUp, SendResult, Exit, FileWrites,
       FileFails, FileTears, RemoteAccepts, RemoteFails, Notified, Goes, At, Goroutine,
       AfterSend, callVars, Holds
  <2>2. \A f \in Events, p \in Observers : Holds(f, p)' <=> Holds(f, p)
    BY <2>1 DEF Holds, Types
  <2>3. QED
    BY <2>1, <2>2, HeldKept
<1>6. ASSUME NEW e \in Events, NEW o \in Observers, Advance(e, o) PROVE Held'
  BY <1>3, <1>4, <1>5, <1>6
<1>7. ASSUME NEW e \in Events,
             Call(e) \/ Cancel(e) \/ Return(e) \/ \E o \in Observers : RemoteRetries(e, o)
      PROVE  Held'
  BY <1>1, <1>7, CallMoves
<1>8. CASE UNCHANGED vars
  BY <1>1, <1>8 DEF vars
<1>9. QED
  BY <1>2, <1>6, <1>7, <1>8, Steps

\* What Results says of one goroutine.
ResultOf(e, o) ==
  /\ pc[e][o] \in {"release", "exit", "gone"} => o \in errCh[e] /\ result[e][o] # "none"
  /\ pc[e][o] \in {"send", "cancelled"} => result[e][o] # "none"
  /\ result[e][o] = "nil" => e \in log[o] \cup garbled[o]

\* observer.Notify returned res, and the observer has the event if that is nil.
LEMMA ResultsNotified ==
  ASSUME Types, Results, NEW e \in Events, NEW o \in Observers, NEW res \in {"nil", "error"},
         Notified(e, o, res),
         \A p \in Observers : log[p] \cup garbled[p] \subseteq log'[p] \cup garbled'[p],
         res = "nil" => e \in log'[o] \cup garbled'[o]
  PROVE  Results'
<1>1. pc'[e][o] = "send" /\ result'[e][o] = res
  BY DEF Notified, Goes, Types
<1>2. \A f \in Events, p \in Observers : <<f, p>> # <<e, o>> =>
        pc'[f][p] = pc[f][p] /\ result'[f][p] = result[f][p]
  BY DEF Notified, Goes, Types
<1>3. errCh' = errCh
  BY DEF Notified
<1>4. \A f \in Events, p \in Observers : ResultOf(f, p)
  BY DEF Results, ResultOf
<1>5. \A f \in Events, p \in Observers : ResultOf(f, p)'
  BY <1>1, <1>2, <1>3, <1>4 DEF ResultOf
<1>6. QED
  BY <1>5 DEF Results, ResultOf

LEMMA ResultsStep ==
  ASSUME Types, Launched, Results, [Next]_vars
  PROVE  Results'
<1>1. ASSUME UNCHANGED <<pc, errCh, result, log, garbled>> PROVE Results'
  BY <1>1 DEF Results
<1>2. ASSUME NEW e \in Events, Launch(e) PROVE Results'
  <2>1. next[e] \in Observers
    BY <1>2 DEF Launch
  <2>2. UNCHANGED <<errCh, result, log, garbled>>
    BY <1>2 DEF Launch, targetVars
  <2>3. \A f \in Events, p \in Observers : pc'[f][p] = pc[f][p] \/ pc'[f][p] = "select"
    BY <1>2, <2>1 DEF Launch, Goes, Types
  <2>4. QED
    BY <2>2, <2>3 DEF Results
<1>3. ASSUME NEW e \in Events, NEW o \in Observers, Acquire(e, o) PROVE Results'
  <2>1. UNCHANGED <<errCh, result, log, garbled>>
    BY <1>3 DEF Acquire, targetVars
  <2>2. \A f \in Events, p \in Observers : pc'[f][p] = pc[f][p] \/ pc'[f][p] = "notify"
    BY <1>3 DEF Acquire, Goes, Types
  <2>3. QED
    BY <2>1, <2>2 DEF Results
<1>4. ASSUME NEW e \in Events, NEW o \in Observers, GiveUp(e, o) PROVE Results'
  <2>1. UNCHANGED <<errCh, log, garbled>>
    BY <1>4 DEF GiveUp, targetVars
  <2>2. pc'[e][o] = "cancelled" /\ result'[e][o] = "error"
    BY <1>4 DEF GiveUp, Goes, Types
  <2>3. \A f \in Events, p \in Observers : <<f, p>> # <<e, o>> =>
          pc'[f][p] = pc[f][p] /\ result'[f][p] = result[f][p]
    BY <1>4 DEF GiveUp, Goes, Types
  <2>4. \A f \in Events, p \in Observers : ResultOf(f, p)'
    BY <2>1, <2>2, <2>3 DEF Results, ResultOf
  <2>5. QED
    BY <2>1, <2>4 DEF Results, ResultOf
<1>5. ASSUME NEW e \in Events, NEW o \in Observers, SendResult(e, o) PROVE Results'
  <2>1. UNCHANGED <<result, log, garbled>> /\ pc[e][o] \in {"send", "cancelled"}
    BY <1>5 DEF SendResult, targetVars
  <2>2. pc'[e][o] \in {"release", "exit"} /\ o \in errCh'[e]
    BY <1>5 DEF SendResult, AfterSend, Goes, Types
  <2>3. \A f \in Events, p \in Observers : /\ <<f, p>> # <<e, o>> => pc'[f][p] = pc[f][p]
                                           /\ errCh[f] \subseteq errCh'[f]
    BY <1>5 DEF SendResult, Goes, Types
  <2>4. \A f \in Events, p \in Observers : ResultOf(f, p)'
    BY <2>1, <2>2, <2>3 DEF Results, ResultOf
  <2>5. QED
    BY <2>1, <2>4 DEF Results, ResultOf
<1>6. ASSUME NEW e \in Events, NEW o \in Observers, Release(e, o) \/ Exit(e, o) PROVE Results'
  <2>1. UNCHANGED <<errCh, result, log, garbled>>
    BY <1>6 DEF Release, Exit, targetVars
  <2>2. pc[e][o] \in {"release", "exit"} /\ pc'[e][o] \in {"exit", "gone"}
    BY <1>6 DEF Release, Exit, At, Goes, Types
  <2>3. \A f \in Events, p \in Observers : <<f, p>> # <<e, o>> => pc'[f][p] = pc[f][p]
    BY <1>6 DEF Release, Exit, Goes, Types
  <2>4. \A f \in Events, p \in Observers : ResultOf(f, p)'
    BY <2>1, <2>2, <2>3 DEF Results, ResultOf
  <2>5. QED
    BY <2>1, <2>4 DEF Results, ResultOf
<1>7. ASSUME NEW e \in Events, NEW o \in Observers, FileWrites(e, o) PROVE Results'
  <2>1. Notified(e, o, "nil")
    BY <1>7 DEF FileWrites
  <2>2. \/ log' = [log EXCEPT ![o] = @ \cup {e}] /\ garbled' = garbled
        \/ garbled' = [garbled EXCEPT ![o] = @ \cup {e}] /\ log' = log
    BY <1>7 DEF FileWrites, Takes
  <2>3. \A p \in Observers : log[p] \cup garbled[p] \subseteq log'[p] \cup garbled'[p]
    BY <2>2 DEF Types
  <2>4. e \in log'[o] \cup garbled'[o]
    BY <2>2 DEF Types
  <2>5. QED
    BY <2>1, <2>3, <2>4, ResultsNotified
<1>8. ASSUME NEW e \in Events, NEW o \in Observers,
             FileFails(e, o) \/ FileTears(e, o) \/ RemoteFails(e, o)
      PROVE  Results'
  <2>1. Notified(e, o, "error") /\ log' = log /\ garbled' = garbled
    BY <1>8 DEF FileFails, FileTears, RemoteFails, Rejected, targetVars
  <2>2. QED
    BY <2>1, ResultsNotified
<1>9. ASSUME NEW e \in Events, NEW o \in Observers, RemoteAccepts(e, o) PROVE Results'
  <2>1. Notified(e, o, "nil") /\ garbled' = garbled /\ log' = [log EXCEPT ![o] = @ \cup {e}]
    BY <1>9 DEF RemoteAccepts, Takes
  <2>2. (\A p \in Observers : log[p] \subseteq log'[p]) /\ e \in log'[o]
    BY <2>1 DEF Types
  <2>3. QED
    BY <2>1, <2>2, ResultsNotified
<1>10. ASSUME NEW e \in Events, NEW o \in Observers, Advance(e, o) PROVE Results'
  BY <1>10, <1>3, <1>4, <1>5, <1>6, <1>7, <1>8, <1>9 DEF Advance, Pass
<1>11. ASSUME NEW e \in Events,
             Call(e) \/ Cancel(e) \/ Return(e) \/ \E o \in Observers : RemoteRetries(e, o)
      PROVE  Results'
  BY <1>1, <1>11, CallMoves
<1>12. CASE UNCHANGED vars
  BY <1>1, <1>12 DEF vars, targetVars
<1>13. QED
  BY <1>2, <1>10, <1>11, <1>12, Steps

LEMMA AnswersStep ==
  ASSUME Types, Launched, Counted, Results, Answers, [Next]_vars
  PROVE  Answers'
<1>1. ASSUME UNCHANGED <<next, pc, result, answer>> PROVE Answers'
  BY <1>1 DEF Answers, At
<1>2. ASSUME NEW e \in Events, Call(e) PROVE Answers'
  <2>1. next[e] = 0 /\ answer[e] = "none"
    BY <1>2, ObserversAre DEF Call, Answers
  <2>2. \A f \in Events \ {e} : next'[f] = next[f]
    BY <1>2 DEF Call, Types
  <2>3. UNCHANGED <<pc, result, answer>>
    BY <1>2 DEF Call
  <2>4. QED
    BY <2>1, <2>2, <2>3 DEF Answers, At
<1>3. ASSUME NEW e \in Events, Launch(e) PROVE Answers'
  <2>1. answer[e] = "none" /\ UNCHANGED <<result, answer>>
    BY <1>3, ObserversAre DEF Launch, Answers
  <2>2. \A f \in Events \ {e} : next'[f] = next[f] /\ pc'[f] = pc[f]
    BY <1>3 DEF Launch, Goes, Types
  <2>3. QED
    BY <2>1, <2>2 DEF Answers, At
<1>4. ASSUME NEW e \in Events, Return(e) PROVE Answers'
  <2>1. next[e] = Len(Kinds) + 1 /\ wg[e] = 0 /\ answer'[e] = Joined(e)
    BY <1>4 DEF Return, Types
  <2>2. Live(e) = {}
    BY <2>1, LiveFinite, FS_EmptySet DEF Counted
  <2>3. ASSUME NEW o \in Observers PROVE At(e, o, "gone")
    <3>1. pc[e][o] \in {"new", "gone"}
      BY <2>2 DEF Live
    <3>2. pc[e][o] # "new"
      BY <2>1, ObserversAre DEF Launched
    <3>3. QED
      BY <3>1, <3>2 DEF At
  <2>4. ASSUME NEW o \in Observers, Joined(e) = "nil" PROVE result[e][o] = "nil"
    <3>1. o \in errCh[e] /\ result[e][o] # "none"
      BY <2>3 DEF At, Results
    <3>2. result[e][o] # "error"
      BY <3>1, <2>4 DEF Joined
    <3>3. QED
      BY <3>1, <3>2 DEF Types
  <2>5. UNCHANGED <<next, pc, result>> /\ \A f \in Events \ {e} : answer'[f] = answer[f]
    BY <1>4 DEF Return, Types
  <2>6. QED
    BY <2>1, <2>3, <2>4, <2>5 DEF Answers, At
<1>5. ASSUME NEW e \in Events, NEW o \in Observers, Advance(e, o) PROVE Answers'
  <2>1. pc[e][o] # "gone"
    BY <1>5 DEF Advance, Pass, GiveUp, Acquire, SendResult, Release, Exit, FileWrites,
       FileFails, FileTears, RemoteAccepts, RemoteFails, At
  <2>2. answer[e] = "none"
    BY <2>1 DEF Answers, At
  <2>3. UNCHANGED <<next, answer>>
    BY <1>5, GoroutineMoves
  <2>4. \A f \in Events \ {e} : pc'[f] = pc[f] /\ result'[f] = result[f]
    BY <1>5 DEF Types, Advance, Pass, GiveUp, Acquire, SendResult, Release, Exit, FileWrites,
       FileFails, FileTears, RemoteAccepts, RemoteFails, Notified, Goes
  <2>5. QED
    BY <2>2, <2>3, <2>4 DEF Answers, At
<1>6. ASSUME NEW e \in Events,
             Cancel(e) \/ \E o \in Observers : RemoteRetries(e, o)
      PROVE  Answers'
  BY <1>1, <1>6 DEF Cancel, RemoteRetries, callVars
<1>7. CASE UNCHANGED vars
  BY <1>1, <1>7 DEF vars, callVars
<1>8. QED
  BY <1>2, <1>3, <1>4, <1>5, <1>6, <1>7, Steps

----------------------------------------------------------------------------
(* Theorems                                                                *)

LEMMA IndInvInit == Init => IndInv
<1> SUFFICES ASSUME Init PROVE IndInv
  OBVIOUS
<1>1. Types
  BY ObserversAre, RetryMaxAssumption DEF Init, Types, Goroutine
<1>2. Launched
  BY ObserversAre DEF Init, Launched
<1>3. Counted
  <2>1. \A e \in Events : Live(e) = {} /\ wg[e] = 0
    BY DEF Init, Live
  <2>2. QED
    BY <2>1, FS_EmptySet DEF Counted
<1>4. Held /\ Results /\ Answers
  BY DEF Init, Held, Holds, Results, Answers
<1>5. QED
  BY <1>1, <1>2, <1>3, <1>4 DEF IndInv

\* The control state, the counters and the results fit together in every state.
THEOREM IndInvariant == Spec => []IndInv
<1>1. IndInv /\ [Next]_vars => IndInv'
  BY TypesStep, LaunchedStep, CountedStep, HeldStep, ResultsStep, AnswersStep DEF IndInv
<1>2. QED
  BY IndInvInit, <1>1, PTL DEF Spec

\* Every variable keeps its type; the semaphore never has two tokens, and the
\* WaitGroup is never negative.
THEOREM TypeCorrect == Spec => []TypeOK
<1>1. IndInv => TypeOK
  <2> SUFFICES ASSUME IndInv PROVE TypeOK
    OBVIOUS
  <2>1. wg \in [Events -> 0..Len(Kinds)]
    <3>1. \A e \in Events : wg[e] \in 0..Len(Kinds)
      BY LiveFinite, ObserversAre DEF IndInv, Counted
    <3>2. QED
      BY <3>1 DEF IndInv, Types
  <2>2. sem \in [Observers -> 0..1]
    BY DEF IndInv, Types, Held
  <2>3. QED
    BY <2>1, <2>2 DEF IndInv, Types, TypeOK
<1>2. QED
  BY IndInvariant, <1>1, PTL

\* An observer is never given two events at a time, whichever calls are cancelled.
THEOREM OneAtATimeHolds == Spec => []OneAtATime
<1>1. IndInv => OneAtATime
  BY DEF IndInv, Held, Holds, At, OneAtATime
<1>2. QED
  BY IndInvariant, <1>1, PTL

\* When Notify has returned none of its goroutines is left.
THEOREM NoneLeftHolds == Spec => []NoneLeft
<1>1. IndInv => NoneLeft
  BY DEF IndInv, Answers, NoneLeft
<1>2. QED
  BY IndInvariant, <1>1, PTL

\* An event that Notify reports as passed on is with every observer.
THEOREM NilMeansTakenHolds == Spec => []NilMeansTaken
<1>1. IndInv => NilMeansTaken
  BY DEF IndInv, Answers, Results, NilMeansTaken
<1>2. QED
  BY IndInvariant, <1>1, PTL
----------------------------------------------------------------------------
(* No deadlock                                                             *)

\* A goroutine, or the call itself, can take its next step: the guards of Pass, GiveUp
\* and Proceed.
GoroutineFree(e, o) ==
  \/ At(e, o, "select") /\ (Free(o) \/ Done(e))
  \/ pc[e][o] \in {"send", "cancelled"} /\ Cardinality(errCh[e]) < Len(Kinds)
  \/ At(e, o, "release") /\ sem[o] > 0
  \/ At(e, o, "exit")
CallFree(e) ==
  \/ next[e] \in Observers
  \/ next[e] = Len(Kinds) + 1 /\ wg[e] = 0 /\ answer[e] = "none"

\* The goroutine is with the observer, on a write or on a request with a timeout.
WithObserver(e, o) == At(e, o, "notify")

\* A goroutine can go on, or is with its observer, or waits for the goroutine of another
\* event that can or is; and Notify itself waits for its own goroutines only.
WaitsForObserver ==
  \A e \in Events :
    /\ next[e] # 0 /\ answer[e] = "none" => CallFree(e) \/ Live(e) # {}
    /\ \A o \in Live(e) :
         \/ GoroutineFree(e, o) \/ WithObserver(e, o)
         \/ /\ At(e, o, "select")
            /\ \E f \in Events \ {e} : GoroutineFree(f, o) \/ WithObserver(f, o)

\* What is in the channel was sent by a goroutine that is through, and a semaphore
\* that is taken was taken by a goroutine that has not given it back.
SentOnce ==
  \A e \in Events : \A o \in errCh[e] : pc[e][o] \in {"release", "exit", "gone"}
TakenBy == \A o \in Observers : sem[o] = 1 => \E e \in Events : Holds(e, o)

LEMMA SentOnceStep ==
  ASSUME Types, Launched, SentOnce, [Next]_vars
  PROVE  SentOnce'
<1>1. ASSUME pc' = pc, errCh' = errCh PROVE SentOnce'
  BY <1>1 DEF SentOnce
<1>2. ASSUME NEW e \in Events, Launch(e) PROVE SentOnce'
  <2>1. next[e] \in Observers /\ pc[e][next[e]] = "new" /\ errCh' = errCh
    BY <1>2, ObserversAre DEF Launch, Launched, Types
  <2>2. \A f \in Events, p \in Observers :
          pc'[f][p] = pc[f][p] \/ (f = e /\ p = next[e])
    BY <1>2, <2>1 DEF Launch, Goes, Types
  <2>3. \A f \in Events : errCh[f] \subseteq Observers
    BY DEF Types
  <2>4. ASSUME NEW f \in Events, NEW p \in errCh[f]
        PROVE  pc'[f][p] \in {"release", "exit", "gone"}
    BY <2>1, <2>2, <2>3 DEF SentOnce
  <2>5. QED
    BY <2>1, <2>4 DEF SentOnce
<1>3. ASSUME NEW e \in Events, NEW o \in Observers, Advance(e, o) PROVE SentOnce'
  <2>1. \A f \in Events, p \in Observers :
          <<f, p>> # <<e, o>> => /\ pc'[f][p] = pc[f][p]
                                 /\ p \in errCh'[f] => p \in errCh[f]
    BY <1>3 DEF Types, Advance, Pass, GiveUp, Acquire, SendResult, Release, Exit, FileWrites,
       FileFails, FileTears, RemoteAccepts, RemoteFails, Notified, Goes
  <2>2. o \in errCh'[e] => pc'[e][o] \in {"release", "exit", "gone"}
    BY <1>3 DEF Types, Advance, Pass, GiveUp, Acquire, SendResult, Release, Exit, FileWrites,
       FileFails, FileTears, RemoteAccepts, RemoteFails, Notified, Goes, At, AfterSend, SentOnce
  <2>3. \A f \in Events : errCh'[f] \subseteq Observers
    BY TypesStep DEF Types
  <2>4. QED
    BY <2>1, <2>2, <2>3 DEF SentOnce
<1>4. ASSUME NEW e \in Events,
             Call(e) \/ Cancel(e) \/ Return(e) \/ \E o \in Observers : RemoteRetries(e, o)
      PROVE  SentOnce'
  BY <1>1, <1>4, CallMoves
<1>5. CASE UNCHANGED vars
  BY <1>1, <1>5 DEF vars
<1>6. QED
  BY <1>2, <1>3, <1>4, <1>5, Steps

LEMMA TakenByStep ==
  ASSUME Types, Launched, Held, TakenBy, [Next]_vars
  PROVE  TakenBy'
<1>1. ASSUME sem' = sem, \A f \in Events, p \in Observers : Holds(f, p) => Holds(f, p)'
      PROVE  TakenBy'
  BY <1>1 DEF TakenBy
<1>2. ASSUME NEW e \in Events, Launch(e) PROVE TakenBy'
  <2>1. next[e] \in Observers /\ pc[e][next[e]] = "new" /\ sem' = sem
    BY <1>2, ObserversAre DEF Launch, Launched, Types
  <2>2. \A f \in Events, p \in Observers : Holds(f, p) => Holds(f, p)'
    BY <1>2, <2>1 DEF Launch, Goes, Holds, Types
  <2>3. QED
    BY <1>1, <2>1, <2>2
<1>3. ASSUME NEW e \in Events, NEW o \in Observers, Acquire(e, o) PROVE TakenBy'
  <2>1. Holds(e, o)' /\ \A p \in Observers \ {o} : sem'[p] = sem[p]
    BY <1>3 DEF Acquire, Goes, Holds, Types
  <2>2. \A f \in Events, p \in Observers : Holds(f, p) => Holds(f, p)'
    BY <1>3 DEF Acquire, Goes, Holds, At, Types
  <2>3. QED
    BY <2>1, <2>2 DEF TakenBy
<1>4. ASSUME NEW e \in Events, NEW o \in Observers, Release(e, o) PROVE TakenBy'
  <2>1. sem[o] = 1 /\ sem'[o] = 0
    BY <1>4 DEF Release, Held, Types
  <2>2. \A p \in Observers \ {o} : sem'[p] = sem[p] /\ \A f \in Events : Holds(f, p) => Holds(f, p)'
    BY <1>4 DEF Release, Goes, Holds, Types
  <2>3. QED
    BY <2>1, <2>2 DEF TakenBy
<1>5. ASSUME NEW e \in Events, NEW o \in Observers, Advance(e, o), ~Acquire(e, o), ~Release(e, o)
      PROVE  TakenBy'
  <2>1. /\ sem' = sem
        /\ \E to \in Goroutine :
             /\ pc' = [pc EXCEPT ![e][o] = to]
             /\ to \in {"notify", "send", "release"} <=> Holds(e, o)
    BY <1>5 DEF Types, Advance, Pass, GiveUp, SendResult, Exit, FileWrites,
       FileFails, FileTears, RemoteAccepts, RemoteFails, Notified, Goes, At, Goroutine,
       AfterSend, callVars, Holds
  <2>2. \A f \in Events, p \in Observers : Holds(f, p) => Holds(f, p)'
    BY <2>1 DEF Holds, Types
  <2>3. QED
    BY <1>1, <2>1, <2>2
<1>6. ASSUME NEW e \in Events, NEW o \in Observers, Advance(e, o) PROVE TakenBy'
  BY <1>3, <1>4, <1>5, <1>6
<1>7. ASSUME NEW e \in Events,
             Call(e) \/ Cancel(e) \/ Return(e) \/ \E o \in Observers : RemoteRetries(e, o)
      PROVE  TakenBy'
  BY <1>1, <1>7, CallMoves DEF Holds
<1>8. CASE UNCHANGED vars
  BY <1>1, <1>8 DEF vars, Holds
<1>9. QED
  BY <1>2, <1>6, <1>7, <1>8, Steps

\* The channel has room for every goroutine: a send never waits for a reader.
LEMMA RoomToSend ==
  ASSUME Types, SentOnce, NEW e \in Events, NEW o \in Observers,
         pc[e][o] \in {"send", "cancelled"}
  PROVE  GoroutineFree(e, o)
<1>1. errCh[e] \subseteq Observers /\ o \notin errCh[e]
  BY DEF SentOnce, Types
<1>2. IsFiniteSet(Observers) /\ Cardinality(Observers) = Len(Kinds)
  <2>1. Len(Kinds) \in Nat /\ Observers = 1..Len(Kinds)
    BY ObserversAre
  <2> DEFINE n == Len(Kinds)
  <2> HIDE DEF n
  <2>2. n \in Nat => IsFiniteSet(1..n) /\ Cardinality(1..n) = n
    BY FS_Interval
  <2>3. QED
    BY <2>1, <2>2 DEF n
<1>3. /\ IsFiniteSet(errCh[e]) /\ Cardinality(errCh[e]) <= Cardinality(Observers)
      /\ Cardinality(errCh[e]) # Cardinality(Observers)
  BY <1>1, <1>2, FS_Subset
<1>4. Cardinality(errCh[e]) < Len(Kinds)
  BY <1>2, <1>3, FS_CardinalityType, ObserversAre
<1>5. QED
  BY <1>4 DEF GoroutineFree

\* No deadlock: a goroutine of Notify can go on, unless it is with its observer or waits
\* for the one that is; and a call of Notify waits for nobody but its goroutines.
THEOREM WaitsForObserverHolds == Spec => []WaitsForObserver
<1>1. Init => SentOnce /\ TakenBy
  BY DEF Init, SentOnce, TakenBy
<1>2. IndInv /\ SentOnce /\ TakenBy /\ [Next]_vars => SentOnce' /\ TakenBy'
  BY SentOnceStep, TakenByStep DEF IndInv
<1>3. IndInv /\ SentOnce /\ TakenBy => WaitsForObserver
  <2> SUFFICES ASSUME IndInv, SentOnce, TakenBy, NEW e \in Events
               PROVE  /\ next[e] # 0 /\ answer[e] = "none" => CallFree(e) \/ Live(e) # {}
                      /\ \A o \in Live(e) :
                           \/ GoroutineFree(e, o) \/ WithObserver(e, o)
                           \/ /\ At(e, o, "select")
                              /\ \E f \in Events \ {e} : GoroutineFree(f, o) \/ WithObserver(f, o)
    BY DEF WaitsForObserver
  <2> USE DEF IndInv
  <2>1. ASSUME next[e] # 0, answer[e] = "none", Live(e) = {} PROVE CallFree(e)
    <3>1. wg[e] = 0
      BY <2>1, FS_EmptySet DEF Counted
    <3>2. QED
      BY <2>1, <3>1, ObserversAre DEF CallFree, Types
  <2>2. ASSUME NEW f \in Events, NEW o \in Observers, Holds(f, o)
        PROVE  GoroutineFree(f, o) \/ WithObserver(f, o)
    <3>1. sem[o] = 1
      BY <2>2 DEF Held
    <3>2. QED
      BY <2>2, <3>1, RoomToSend DEF Holds, At, GoroutineFree, WithObserver
  <2>3. ASSUME NEW o \in Live(e)
        PROVE  \/ GoroutineFree(e, o) \/ WithObserver(e, o)
               \/ /\ At(e, o, "select")
                  /\ \E f \in Events \ {e} : GoroutineFree(f, o) \/ WithObserver(f, o)
    <3>1. o \in Observers /\ pc[e][o] \in Goroutine \ {"new", "gone"}
      BY DEF Live, Types
    <3>2. CASE At(e, o, "select")
      <4>1. CASE sem[o] = 0
        BY <3>2, <4>1 DEF GoroutineFree, Free
      <4>2. CASE sem[o] = 1
        <5>1. PICK f \in Events : Holds(f, o)
          BY <3>1, <4>2 DEF TakenBy
        <5>2. f # e
          BY <3>2, <5>1 DEF Holds, At
        <5>3. QED
          BY <2>2, <3>1, <3>2, <5>1, <5>2
      <4>3. QED
        BY <3>1, <4>1, <4>2 DEF Held
    <3>3. CASE At(e, o, "exit")
      BY <3>3 DEF GoroutineFree
    <3>4. CASE pc[e][o] = "cancelled"
      BY <3>1, <3>4, RoomToSend
    <3>5. CASE Holds(e, o)
      BY <2>2, <3>1, <3>5
    <3>6. QED
      BY <3>1, <3>2, <3>3, <3>4, <3>5 DEF Goroutine, Holds, At
  <2>4. QED
    BY <2>1, <2>3
<1>4. QED
  BY IndInvariant, <1>1, <1>2, <1>3, PTL DEF Spec

\* How many steps a goroutine has at most before it: the attempts of its observer, and
\* its own
StepsLeft(e, o) ==
  CASE At(e, o, "select") -> RetryMax + 5
    [] At(e, o, "notify") -> RetryMax - tries[e][o] + 4
    [] At(e, o, "send") -> 3
    [] pc[e][o] \in {"release", "cancelled"} -> 2
    [] At(e, o, "exit") -> 1
    [] OTHER -> 0

\* Each step of a goroutine, a retry included, brings it nearer to its end, and no step
\* of another goroutine or call sets it back.
RunsDown ==
  [][\A e \in Events : \A o \in Live(e) :
       /\ StepsLeft(e, o)' \in Nat
       /\ StepsLeft(e, o)' <= StepsLeft(e, o)
       /\ Pass(e, o) \/ GiveUp(e, o) \/ Observe(e, o) => StepsLeft(e, o)' < StepsLeft(e, o)]_vars

\* The steps of a goroutine
LEMMA OwnStep ==
  ASSUME Types, NEW e \in Events, NEW o \in Observers, Advance(e, o) \/ RemoteRetries(e, o)
  PROVE  StepsLeft(e, o)' < StepsLeft(e, o)
<1> USE RetryMaxAssumption
<1>1. tries[e][o] \in 0..RetryMax /\ RetryMax \in Nat
  BY DEF Types
<1>2. CASE Acquire(e, o)
  <2>1. At(e, o, "select") /\ pc'[e][o] = "notify" /\ tries' = tries
    BY <1>2 DEF Acquire, Goes, At, Types
  <2>2. QED
    BY <1>1, <2>1 DEF StepsLeft, At
<1>3. CASE SendResult(e, o)
  <2>1. \/ pc[e][o] = "send" /\ pc'[e][o] = "release"
        \/ pc[e][o] = "cancelled" /\ pc'[e][o] = "exit"
    BY <1>3 DEF SendResult, AfterSend, Goes, At, Types
  <2>2. QED
    BY <2>1 DEF StepsLeft, At
<1>4. CASE Release(e, o) \/ Exit(e, o) \/ GiveUp(e, o)
  <2>1. \/ pc[e][o] = "release" /\ pc'[e][o] = "exit"
        \/ pc[e][o] = "exit" /\ pc'[e][o] = "gone"
        \/ pc[e][o] = "select" /\ pc'[e][o] = "cancelled"
    BY <1>4 DEF Release, Exit, GiveUp, Goes, At, Types
  <2>2. QED
    BY <1>1, <2>1 DEF StepsLeft, At
<1>5. CASE \/ FileWrites(e, o) \/ FileFails(e, o) \/ FileTears(e, o)
           \/ RemoteAccepts(e, o) \/ RemoteFails(e, o)
  <2>1. pc[e][o] = "notify" /\ pc'[e][o] = "send"
    BY <1>5 DEF FileWrites, FileFails, FileTears, RemoteAccepts, RemoteFails, Notified, Goes, At,
       Types
  <2>2. QED
    BY <1>1, <2>1 DEF StepsLeft, At
<1>6. CASE RemoteRetries(e, o)
  <2>1. pc[e][o] = "notify" /\ pc' = pc /\ tries[e][o] < RetryMax
        /\ tries'[e][o] = tries[e][o] + 1
    BY <1>6 DEF RemoteRetries, At, Types
  <2>2. QED
    BY <1>1, <2>1 DEF StepsLeft, At
<1>7. QED
  BY <1>2, <1>3, <1>4, <1>5, <1>6 DEF Advance, Pass

\* The steps of others
LEMMA OthersStep ==
  ASSUME Types, Launched, [Next]_vars, NEW e \in Events, NEW o \in Live(e)
  PROVE  \/ Advance(e, o) \/ RemoteRetries(e, o)
         \/ StepsLeft(e, o)' = StepsLeft(e, o)
<1>1. o \in Observers /\ pc[e][o] # "new"
  BY DEF Live
<1>2. ASSUME pc'[e][o] = pc[e][o], tries'[e][o] = tries[e][o]
      PROVE  StepsLeft(e, o)' = StepsLeft(e, o)
  BY <1>2 DEF StepsLeft, At
<1>3. CASE UNCHANGED vars \/ \E f \in Events : Call(f) \/ Cancel(f) \/ Return(f)
  BY <1>2, <1>3 DEF vars, Call, Cancel, Return
<1>4. ASSUME NEW f \in Events, Launch(f) PROVE StepsLeft(e, o)' = StepsLeft(e, o)
  <2>1. pc[f][next[f]] = "new" /\ tries' = tries
    BY <1>4, ObserversAre DEF Launch, Launched, Types
  <2>2. pc'[e][o] = pc[e][o]
    BY <1>1, <1>4, <2>1 DEF Launch, Goes, Types
  <2>3. QED
    BY <1>2, <2>1, <2>2
<1>5. ASSUME NEW f \in Events, NEW p \in Observers, Advance(f, p) \/ RemoteRetries(f, p),
             <<f, p>> # <<e, o>>
      PROVE  StepsLeft(e, o)' = StepsLeft(e, o)
  <2>1. pc'[e][o] = pc[e][o]
    BY <1>1, <1>5 DEF Types, Advance, Pass, GiveUp, Acquire, SendResult, Release, Exit, FileWrites,
       FileFails, FileTears, RemoteAccepts, RemoteFails, RemoteRetries, Notified, Goes
  <2>2. tries'[e][o] = tries[e][o]
    BY <1>1, <1>5 DEF Types, Advance, Pass, GiveUp, Acquire, SendResult, Release, Exit, FileWrites,
       FileFails, FileTears, RemoteAccepts, RemoteFails, RemoteRetries, Notified
  <2>3. QED
    BY <1>2, <2>1, <2>2
<1>6. QED
  BY <1>3, <1>4, <1>5, Steps

\* A goroutine ends within a bounded number of its steps: with WaitsForObserverHolds, Notify
\* returns unless an observer is never done.
THEOREM RunsDownHolds == Spec => RunsDown
<1>1. ASSUME IndInv, IndInv', [Next]_vars, NEW e \in Events, NEW o \in Live(e)
      PROVE  /\ StepsLeft(e, o)' \in Nat
             /\ StepsLeft(e, o)' <= StepsLeft(e, o)
             /\ Pass(e, o) \/ GiveUp(e, o) \/ Observe(e, o) =>
                  StepsLeft(e, o)' < StepsLeft(e, o)
  <2> USE <1>1 DEF IndInv
  <2>1. o \in Observers
    BY DEF Live
  <2>2. StepsLeft(e, o) \in Nat /\ StepsLeft(e, o)' \in Nat
    <3>1. tries[e][o] \in 0..RetryMax /\ tries'[e][o] \in 0..RetryMax /\ RetryMax \in Nat
      BY <2>1, RetryMaxAssumption DEF Types
    <3>2. StepsLeft(e, o) \in Nat
      BY <3>1 DEF StepsLeft
    <3>3. StepsLeft(e, o)' \in Nat
      BY <3>1 DEF StepsLeft
    <3>4. QED
      BY <3>2, <3>3
  <2>3. Advance(e, o) \/ RemoteRetries(e, o) => StepsLeft(e, o)' < StepsLeft(e, o)
    BY <2>1, OwnStep
  <2>4. Pass(e, o) \/ GiveUp(e, o) \/ Observe(e, o) => Advance(e, o) \/ RemoteRetries(e, o)
    BY DEF Advance, Observe
  <2>5. Advance(e, o) \/ RemoteRetries(e, o) \/ StepsLeft(e, o)' = StepsLeft(e, o)
    BY OthersStep
  <2> HIDE DEF IndInv
  <2>6. QED
    BY <2>2, <2>3, <2>4, <2>5
<1>2. IndInv /\ IndInv' /\ [Next]_vars =>
        [\A e \in Events : \A o \in Live(e) :
           /\ StepsLeft(e, o)' \in Nat
           /\ StepsLeft(e, o)' <= StepsLeft(e, o)
           /\ Pass(e, o) \/ GiveUp(e, o) \/ Observe(e, o) =>
                StepsLeft(e, o)' < StepsLeft(e, o)]_vars
  BY <1>1
<1>3. QED
  BY <1>2, IndInvariant, PTL DEF Spec, RunsDown
=============================================================================
