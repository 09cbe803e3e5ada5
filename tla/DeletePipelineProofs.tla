----------------------- MODULE DeletePipelineProofs -----------------------
(***************************************************************************)
(* Proofs about DeletePipeline, for every number of calls, closers, users  *)
(* and ids, every channel capacity and every batch size.                   *)
(*                                                                         *)
(* The inductive invariant has two parts.  Control is the protocol of the  *)
(* mutex, the Once, the WaitGroup and the channel's closing; Custody says  *)
(* where every task is.  Custody of the worker's last steps needs Control  *)
(* (the worker ends on a closed, empty channel), and Control needs nothing *)
(* of Custody.                                                             *)
(***************************************************************************)
EXTENDS DeletePipeline, FiniteSetTheorems, SequenceTheorems, TLAPS

Senders == {c \in Calls : pc[c] = "sending"}

NoSender == \A c \in Calls : pc[c] # "sending"

\* The body of closeOnce.
Body == {"lock", "mark", "wait", "close", "join"}

Control ==
  \* the mutex
  /\ \A c \in Calls : pc[c] \in {"locked", "checked"} <=> closeMu = c
  /\ \A k \in Closers : cpc[k] = "mark" <=> closeMu = k
  /\ \A c \in Calls : pc[c] = "checked" => ~closed
  \* the Once
  /\ \A k \in Closers : cpc[k] \in Body => once = "running"
  /\ \A k, l \in Closers : cpc[k] \in Body /\ cpc[l] \in Body => k = l
  /\ \A k \in Closers : cpc[k] = "returned" => once = "done"
  /\ once = "new" => ~closed /\ ~chClosed
  /\ once = "done" => closed /\ chClosed /\ wpc = "exited"
  \* the order of Close
  /\ \A k \in Closers : cpc[k] \in {"lock", "mark"} => ~closed
  /\ \A k \in Closers : cpc[k] \in {"wait", "close", "join"} => closed
  /\ \A k \in Closers : cpc[k] \in {"lock", "mark", "wait", "close"} => ~chClosed
  /\ \A k \in Closers : cpc[k] = "close" => NoSender
  /\ \A k \in Closers : cpc[k] = "join" => chClosed
  /\ chClosed => closed /\ NoSender
  \* the end of the worker
  /\ wpc \in {"finish", "exited"} => chClosed /\ delCh = <<>>

\* the WaitGroup
Counting == enqueueWG = Cardinality(Senders)

\* the senders
SenderInv ==
  /\ \A c \in Calls : pc[c] \notin {"sending", "done"} => sent[c] = 0
  /\ \A c \in Calls : pc[c] # "idle" => user[c] \in Users
  /\ \A c \in Calls : sent[c] <= size[c]
  /\ \A c \in Calls : pc[c] = "done" => sent[c] = size[c]

\* what is in the channel, in the buffer and in the repository was sent
SentInv ==
  \A t \in Tasks : t \in Range(delCh) \/ t \in Range(buf) \/ handled[t] # 0
                     => t.pos <= sent[t.call]

\* ... and is in one of these places only
PlaceInv ==
  /\ IsInjective(delCh)
  /\ IsInjective(buf)
  /\ \A t \in Range(delCh) : t \notin Range(buf) /\ handled[t] = 0
  /\ \A t \in Range(buf) : handled[t] = IF t \in Pending THEN 0 ELSE 1
  /\ \A t \in Tasks : handled[t] \in {0, 1}

\* nothing that was sent is lost
NothingLost ==
  \A t \in Tasks : t.pos <= sent[t.call]
                     => t \in Range(delCh) \/ t \in Pending \/ handled[t] = 1

\* the worker between two batches
WorkerInv ==
  /\ wpc = "select" => Len(buf) < BatchSize
  /\ wpc \in {"select", "exited"} => groups = {}
  /\ wpc = "exited" => buf = <<>>

Custody == SenderInv /\ SentInv /\ PlaceInv /\ NothingLost /\ WorkerInv

IndInv == TypeOK /\ Control /\ Counting /\ Custody

----------------------------------------------------------------------------
(* Sequences as collections                                                *)

\* Appending a new element keeps a sequence injective.
LEMMA AppendRange ==
  ASSUME NEW S, NEW s \in Seq(S), NEW x \in S
  PROVE  /\ Append(s, x) \in Seq(S)
         /\ Len(Append(s, x)) = Len(s) + 1
         /\ Range(Append(s, x)) = Range(s) \cup {x}
         /\ IsInjective(s) /\ x \notin Range(s) => IsInjective(Append(s, x))
<1>1. /\ Append(s, x) \in Seq(S)
      /\ Len(Append(s, x)) = Len(s) + 1
      /\ DOMAIN s = 1..Len(s)
      /\ DOMAIN Append(s, x) = 1..Len(s)+1
      /\ Append(s, x)[Len(s)+1] = x
      /\ \A i \in 1..Len(s) : Append(s, x)[i] = s[i]
      /\ Len(s) \in Nat
  OBVIOUS
<1>2. Range(Append(s, x)) = Range(s) \cup {x}
  BY <1>1 DEF Range
<1>3. ASSUME IsInjective(s), x \notin Range(s)
      PROVE  IsInjective(Append(s, x))
  BY <1>1, <1>3 DEF Range, IsInjective
<1>4. QED BY <1>1, <1>2, <1>3

\* Taking the head of an injective sequence removes exactly that element.
LEMMA TailRange ==
  ASSUME NEW S, NEW s \in Seq(S), s # <<>>, IsInjective(s)
  PROVE  /\ Head(s) \in S
         /\ Tail(s) \in Seq(S)
         /\ Len(Tail(s)) = Len(s) - 1
         /\ Head(s) \in Range(s)
         /\ Range(Tail(s)) = Range(s) \ {Head(s)}
         /\ IsInjective(Tail(s))
<1>1. /\ Head(s) \in S
      /\ Tail(s) \in Seq(S)
      /\ Len(Tail(s)) = Len(s) - 1
      /\ Len(s) \in Nat \ {0}
      /\ DOMAIN s = 1..Len(s)
      /\ DOMAIN Tail(s) = 1..Len(s)-1
      /\ Head(s) = s[1]
      /\ \A i \in 1..Len(s)-1 : Tail(s)[i] = s[i+1]
  OBVIOUS
<1>2. Range(Tail(s)) \subseteq Range(s) \ {Head(s)}
  BY <1>1 DEF Range, IsInjective
<1>3. ASSUME NEW y \in Range(s), y # Head(s)
      PROVE  y \in Range(Tail(s))
  <2>1. PICK i \in 1..Len(s) : y = s[i]
    BY <1>1 DEF Range
  <2>2. i - 1 \in 1..Len(s)-1 /\ Tail(s)[i-1] = y
    BY <1>1, <1>3, <2>1
  <2>3. QED BY <1>1, <2>2 DEF Range
<1>4. IsInjective(Tail(s))
  <2>1. SUFFICES ASSUME NEW i \in 1..Len(s)-1, NEW j \in 1..Len(s)-1,
                        Tail(s)[i] = Tail(s)[j]
                 PROVE  i = j
    BY <1>1 DEF IsInjective
  <2>2. i+1 \in 1..Len(s) /\ j+1 \in 1..Len(s) /\ s[i+1] = s[j+1]
    BY <1>1, <2>1
  <2>3. QED BY <1>1, <2>2 DEF IsInjective
<1>5. Head(s) \in Range(s)
  BY <1>1 DEF Range
<1>6. QED BY <1>1, <1>2, <1>3, <1>4, <1>5

\* The empty sequence.
LEMMA EmptyRange ==
  /\ Range(<<>>) = {}
  /\ IsInjective(<<>>)
BY DEF Range, IsInjective

----------------------------------------------------------------------------
(* Counting: the WaitGroup is the number of senders                        *)

LEMMA SendersFinite ==
  IsFiniteSet(Senders) /\ Cardinality(Senders) \in Nat
BY CallsAssumption, FS_Subset, FS_CardinalityType DEF Senders

\* Only the Add and the Done change the set of senders, by one call each.
LEMMA CountingStep ==
  ASSUME TypeOK, Counting, Next
  PROVE  Counting'
<1> USE DEF Counting
<1>1. ASSUME NEW c \in Calls, DeleteAccept(c) PROVE Counting'
  <2>1. Senders' = Senders \cup {c} /\ c \notin Senders
    BY <1>1 DEF DeleteAccept, Senders, TypeOK
  <2>2. QED BY <1>1, <2>1, SendersFinite, FS_AddElement DEF DeleteAccept
<1>2. ASSUME NEW c \in Calls, SendDone(c) PROVE Counting'
  <2>1. Senders' = Senders \ {c} /\ c \in Senders
    BY <1>2 DEF SendDone, Senders, TypeOK
  <2>2. QED BY <1>2, <2>1, SendersFinite, FS_RemoveElement DEF SendDone
<1>3. ASSUME NEW c \in Calls,
             \/ DeleteRefuse(c) \/ DeleteCheck(c) \/ Send(c)
             \/ \E u \in Users, n \in 1..MaxIDs : DeleteLock(c, u, n)
      PROVE  Counting'
  <2>1. Senders' = Senders /\ enqueueWG' = enqueueWG
    BY <1>3 DEF DeleteRefuse, DeleteCheck, Send, DeleteLock, Senders, TypeOK
  <2>2. QED BY <2>1
<1>4. ASSUME UNCHANGED <<callVars, enqueueWG>>
      PROVE  Counting'
  BY <1>4 DEF Senders, callVars
<1>5. Consume \/ Tick \/ Flush => UNCHANGED <<callVars, enqueueWG>>
  BY DEF Consume, Receive, ChannelDrained, Tick, Flush, FlushUser
<1>6. ASSUME NEW k \in Closers, CloseCall(k) \/ CloseStep(k)
      PROVE  UNCHANGED <<callVars, enqueueWG>>
  BY <1>6 DEF CloseCall, CloseStep, OnceFirst, OnceSkip, CloseLock, CloseMark,
              CloseWait, CloseChannel, CloseJoin
<1>7. Terminated => UNCHANGED <<callVars, enqueueWG>>
  BY DEF Terminated, vars
<1>8. QED
  BY <1>1, <1>2, <1>3, <1>4, <1>5, <1>6, <1>7 DEF Next, DeleteStep

----------------------------------------------------------------------------
(* Control: mutex, Once, and the order in which Close proceeds             *)

\* Close passes enqueueWG.Wait only when there is no sender.
LEMMA ZeroMeansNoSender ==
  ASSUME Counting, enqueueWG = 0
  PROVE  NoSender
<1>1. Senders = {}
  BY SendersFinite, FS_EmptySet DEF Counting
<1>2. QED BY <1>1 DEF Senders, NoSender

LEMMA ControlStep ==
  ASSUME TypeOK, Control, Counting, Next
  PROVE  Control'
<1> USE CallsAssumption, NobodyAssumption DEF TypeOK, Control, NoSender, Body
<1>1. ASSUME NEW c \in Calls, NEW u \in Users, NEW n \in 1..MaxIDs,
             DeleteLock(c, u, n)
      PROVE  Control'
  BY <1>1 DEF DeleteLock, workerVars, closeVars
<1>2. ASSUME NEW c \in Calls, DeleteRefuse(c) PROVE Control'
  BY <1>2 DEF DeleteRefuse, workerVars, closeVars
<1>3. ASSUME NEW c \in Calls, DeleteCheck(c) PROVE Control'
  BY <1>3 DEF DeleteCheck, workerVars, closeVars
<1>4. ASSUME NEW c \in Calls, DeleteAccept(c) PROVE Control'
  BY <1>4 DEF DeleteAccept, workerVars, closeVars
<1>5. ASSUME NEW c \in Calls, Send(c) PROVE Control'
  BY <1>5 DEF Send, workerVars, closeVars
<1>6. ASSUME NEW c \in Calls, SendDone(c) PROVE Control'
  BY <1>6 DEF SendDone, workerVars, closeVars
<1>7. ASSUME Receive PROVE Control'
  BY <1>7 DEF Receive, StartFlush, callVars, closeVars
<1>8. ASSUME ChannelDrained PROVE Control'
  BY <1>8 DEF ChannelDrained, StartFlush, callVars, closeVars
<1>9. ASSUME Tick PROVE Control'
  BY <1>9 DEF Tick, StartFlush, callVars, closeVars
<1>10. ASSUME NEW u \in Users, FlushUser(u) PROVE Control'
  BY <1>10 DEF FlushUser, callVars, closeVars
<1>11. ASSUME NEW k \in Closers, CloseCall(k) PROVE Control'
  BY <1>11 DEF CloseCall, callVars, workerVars
<1>12. ASSUME NEW k \in Closers, OnceFirst(k) PROVE Control'
  BY <1>12 DEF OnceFirst, callVars, workerVars
<1>13. ASSUME NEW k \in Closers, OnceSkip(k) PROVE Control'
  BY <1>13 DEF OnceSkip, callVars, workerVars
<1>14. ASSUME NEW k \in Closers, CloseLock(k) PROVE Control'
  BY <1>14 DEF CloseLock, callVars, workerVars
<1>15. ASSUME NEW k \in Closers, CloseMark(k) PROVE Control'
  BY <1>15 DEF CloseMark, callVars, workerVars
<1>16. ASSUME NEW k \in Closers, CloseWait(k) PROVE Control'
  BY <1>16, ZeroMeansNoSender DEF CloseWait, callVars, workerVars
<1>17. ASSUME NEW k \in Closers, CloseChannel(k) PROVE Control'
  BY <1>17 DEF CloseChannel, callVars, workerVars
<1>18. ASSUME NEW k \in Closers, CloseJoin(k) PROVE Control'
  BY <1>18 DEF CloseJoin, callVars, workerVars
<1>19. ASSUME Terminated PROVE Control'
  BY <1>19 DEF Terminated, vars, callVars, workerVars, closeVars
<1>20. QED
  BY <1>1, <1>2, <1>3, <1>4, <1>5, <1>6, <1>7, <1>8, <1>9, <1>10, <1>11, <1>12,
     <1>13, <1>14, <1>15, <1>16, <1>17, <1>18, <1>19
     DEF Next, DeleteStep, Consume, Flush, CloseStep

----------------------------------------------------------------------------
(* Types                                                                   *)

LEMMA TaskOfType ==
  ASSUME NEW c \in Calls, NEW i \in 1..MaxIDs
  PROVE  TaskOf(c, i) \in Tasks
BY DEF TaskOf, Tasks

\* A task in the channel or in the buffer was sent by its call, for a user.
LEMMA InFlight ==
  ASSUME TypeOK, Custody, NEW t \in Range(delCh) \cup Range(buf)
  PROVE  /\ t \in Tasks /\ t.call \in Calls
         /\ t.pos \in Nat /\ t.pos >= 1 /\ t.pos <= sent[t.call]
         /\ UserOf(t) \in Users
<1>1. t \in Tasks
  BY DEF TypeOK, Range
<1>2. t.call \in Calls /\ t.pos \in 1..MaxIDs /\ t.pos <= sent[t.call]
  BY <1>1 DEF Tasks, Custody, SentInv
<1>3. t.pos \in Nat /\ t.pos >= 1
  BY <1>2, MaxIDsAssumption
<1>4. sent[t.call] \in Int /\ sent[t.call] # 0
  BY <1>2 DEF TypeOK
<1>5. pc[t.call] \in {"sending", "done"}
  BY <1>2, <1>4, Zenon DEF Custody, SenderInv
<1>6. user[t.call] \in Users
  BY <1>2, <1>5 DEF Custody, SenderInv
<1>7. QED BY <1>1, <1>2, <1>3, <1>6 DEF UserOf

LEMMA TypeStep ==
  ASSUME IndInv, Next
  PROVE  TypeOK'
<1> USE MaxIDsAssumption, ChanCapAssumption, BatchSizeAssumption
    DEF TypeOK, IndInv
<1>1. ASSUME NEW c \in Calls, NEW u \in Users, NEW n \in 1..MaxIDs,
             DeleteLock(c, u, n)
      PROVE  TypeOK'
  BY <1>1 DEF DeleteLock, workerVars, closeVars
<1>2. ASSUME NEW c \in Calls, DeleteRefuse(c) \/ DeleteCheck(c) \/ DeleteAccept(c)
      PROVE  TypeOK'
  <2>1. CASE DeleteRefuse(c) BY <2>1 DEF DeleteRefuse, workerVars, closeVars
  <2>2. CASE DeleteCheck(c)  BY <2>2 DEF DeleteCheck, workerVars, closeVars
  <2>3. CASE DeleteAccept(c) BY <2>3 DEF DeleteAccept, workerVars, closeVars
  <2>4. QED BY <1>2, <2>1, <2>2, <2>3
<1>3. ASSUME NEW c \in Calls, Send(c) PROVE TypeOK'
  <2>1. sent[c] + 1 \in 1..MaxIDs
    BY <1>3 DEF Send
  <2>2. delCh' \in Seq(Tasks) /\ Len(delCh') <= ChanCap
    BY <1>3, <2>1, TaskOfType, AppendRange DEF Send
  <2>3. QED BY <1>3, <2>1, <2>2 DEF Send, workerVars, closeVars
<1>4. ASSUME NEW c \in Calls, SendDone(c) PROVE TypeOK'
  <2>1. Senders # {}
    BY <1>4 DEF SendDone, Senders
  <2>2. enqueueWG - 1 \in Nat
    BY <2>1, SendersFinite, FS_EmptySet DEF Counting
  <2>3. QED BY <1>4, <2>2 DEF SendDone, workerVars, closeVars
<1>5. ASSUME Receive PROVE TypeOK'
  <2>1. /\ delCh' \in Seq(Tasks) /\ Len(delCh') <= ChanCap
        /\ Head(delCh) \in Range(delCh) /\ Head(delCh) \in Tasks
    BY <1>5, TailRange DEF Receive, Custody, PlaceInv
  <2>2. /\ buf' \in Seq(Tasks) /\ Len(buf') = Len(buf) + 1
        /\ Range(buf') = Range(buf) \cup {Head(delCh)}
    BY <1>5, <2>1, AppendRange DEF Receive
  <2>3. \A t \in Range(buf') : UserOf(t) \in Users
    BY <2>1, <2>2, InFlight
  <2>4. groups' \subseteq Users /\ wpc' \in {"select", "flush"}
    BY <1>5, <2>3 DEF Receive, StartFlush
  <2>5. Len(buf) < BatchSize
    BY <1>5 DEF Receive, Custody, WorkerInv
  <2>6. QED BY <1>5, <2>1, <2>2, <2>4, <2>5 DEF Receive, callVars, closeVars
<1>6. ASSUME ChannelDrained \/ Tick PROVE TypeOK'
  <2>1. groups' \subseteq Users /\ wpc' \in {"flush", "finish", "exited"}
    BY <1>6, InFlight DEF ChannelDrained, Tick, StartFlush, UserOf, callVars
  <2>2. QED BY <1>6, <2>1 DEF ChannelDrained, Tick, callVars, closeVars
<1>7. ASSUME NEW u \in Users, FlushUser(u) PROVE TypeOK'
  <2>1. handled' \in [Tasks -> Nat]
    BY <1>7 DEF FlushUser
  <2>2. buf' = buf \/ buf' = <<>>
    BY <1>7 DEF FlushUser, NewBuffer
  <2>3. buf' \in Seq(Tasks) /\ Len(buf') <= BatchSize
    <3>1. CASE buf' = buf
      BY <3>1
    <3>2. CASE buf' = <<>>
      BY <3>2
    <3>3. QED BY <2>2, <3>1, <3>2
  <2>4. groups' \subseteq Users /\ wpc' \in {"select", "flush", "finish", "exited"}
    BY <1>7 DEF FlushUser
  <2>5. QED BY <1>7, <2>1, <2>3, <2>4 DEF FlushUser, callVars, closeVars
<1>8. ASSUME NEW k \in Closers, CloseCall(k) \/ CloseStep(k) PROVE TypeOK'
  BY <1>8 DEF CloseCall, CloseStep, OnceFirst, OnceSkip, CloseLock, CloseMark,
              CloseWait, CloseChannel, CloseJoin, callVars, workerVars
<1>9. ASSUME Terminated PROVE TypeOK'
  BY <1>9 DEF Terminated, vars, callVars, workerVars, closeVars
<1>10. QED
  BY <1>1, <1>2, <1>3, <1>4, <1>5, <1>6, <1>7, <1>8, <1>9
     DEF Next, DeleteStep, Consume, Flush

----------------------------------------------------------------------------
(* Custody: where every task is                                            *)

\* A step that moves no task and starts or ends no part of the pipeline.
LEMMA CustodyFrame ==
  ASSUME Custody, UNCHANGED <<delCh, user, size, sent, workerVars>>,
         SenderInv'
  PROVE  Custody'
BY DEF Custody, SentInv, PlaceInv, NothingLost, WorkerInv, Pending, UserOf,
       workerVars

\* The steps of a DeleteUserURLs call up to the start of its sender.
LEMMA CustodyCall ==
  ASSUME IndInv, NEW c \in Calls,
         \/ DeleteRefuse(c) \/ DeleteCheck(c) \/ DeleteAccept(c) \/ SendDone(c)
  PROVE  Custody'
<1>1. UNCHANGED <<delCh, user, size, sent, workerVars>>
  BY DEF DeleteRefuse, DeleteCheck, DeleteAccept, SendDone
<1>2. SenderInv'
  <2> USE <1>1 DEF IndInv, TypeOK, Custody, SenderInv
  <2>1. CASE DeleteRefuse(c) BY <2>1 DEF DeleteRefuse
  <2>2. CASE DeleteCheck(c)  BY <2>2 DEF DeleteCheck
  <2>3. CASE DeleteAccept(c) BY <2>3 DEF DeleteAccept
  <2>4. CASE SendDone(c)     BY <2>4 DEF SendDone
  <2>5. QED BY <2>1, <2>2, <2>3, <2>4
<1>3. QED BY <1>1, <1>2, CustodyFrame DEF IndInv

\* A new call names its user, which no task in the pipeline can have yet.
LEMMA CustodyLock ==
  ASSUME IndInv, NEW c \in Calls, NEW u \in Users, NEW n \in 1..MaxIDs,
         DeleteLock(c, u, n)
  PROVE  Custody'
<1> USE DEF IndInv, Custody
<1>1. UNCHANGED <<delCh, sent, wpc, buf, groups, handled>>
  BY DEF DeleteLock, workerVars
<1>2. sent[c] = 0
  BY DEF DeleteLock, SenderInv
<1>3. \A t \in Range(buf) : UserOf(t)' = UserOf(t)
  <2>1. SUFFICES ASSUME NEW t \in Range(buf) PROVE t.call # c
    BY DEF DeleteLock, UserOf, TypeOK
  <2>2. QED BY <1>2, InFlight
<1>4. Pending' = Pending
  BY <1>1, <1>3 DEF Pending
<1>5. SenderInv'
  BY <1>1, <1>2, MaxIDsAssumption DEF DeleteLock, SenderInv, TypeOK
<1>6. SentInv' /\ PlaceInv' /\ NothingLost' /\ WorkerInv'
  BY <1>1, <1>4 DEF SentInv, PlaceInv, NothingLost, WorkerInv
<1>7. QED BY <1>5, <1>6

\* A sender moves its next task into the channel.
LEMMA CustodySend ==
  ASSUME IndInv, NEW c \in Calls, Send(c)
  PROVE  Custody'
<1> DEFINE x == TaskOf(c, sent[c] + 1)
<1> USE DEF IndInv, Custody
<1>1. /\ x \in Tasks /\ x.call = c /\ x.pos = sent[c] + 1
      /\ sent[c] \in Nat /\ size[c] \in Nat /\ sent[c] < size[c]
  BY MaxIDsAssumption DEF Send, TypeOK, TaskOf, Tasks
<1>2. x \notin Range(delCh) /\ x \notin Range(buf) /\ handled[x] = 0
  BY <1>1, MaxIDsAssumption DEF SentInv
<1>3. /\ Range(delCh') = Range(delCh) \cup {x}
      /\ IsInjective(delCh')
  BY <1>1, <1>2, AppendRange DEF Send, TypeOK, PlaceInv
<1>4. UNCHANGED <<pc, user, size, wpc, buf, groups, handled>> /\ Pending' = Pending
  BY DEF Send, workerVars, Pending, UserOf
<1>5. sent' = [sent EXCEPT ![c] = sent[c] + 1]
  BY DEF Send
<1>6. \A t \in Tasks : /\ t.call \in Calls /\ t.pos \in Nat
                       /\ t.pos <= sent[t.call] => t.pos <= sent'[t.call]
                       /\ t.pos <= sent'[t.call] => t.pos <= sent[t.call] \/ t = x
  <2>1. SUFFICES ASSUME NEW t \in Tasks
                 PROVE  /\ t.call \in Calls /\ t.pos \in Nat
                        /\ t.pos <= sent[t.call] => t.pos <= sent'[t.call]
                        /\ t.pos <= sent'[t.call] => t.pos <= sent[t.call] \/ t = x
    OBVIOUS
  <2>2. t.call \in Calls /\ t.pos \in Nat /\ t = [call |-> t.call, pos |-> t.pos]
    BY MaxIDsAssumption DEF Tasks
  <2>3. CASE t.call # c
    BY <1>5, <2>2, <2>3 DEF TypeOK
  <2>4. CASE t.call = c
    <3>1. sent'[c] = sent[c] + 1
      BY <1>5 DEF TypeOK
    <3>2. t.pos = sent[c] + 1 => t = x
      BY <2>2, <2>4 DEF TaskOf
    <3>3. QED BY <1>1, <2>2, <2>4, <3>1, <3>2
  <2>5. QED BY <2>3, <2>4
<1>7. SenderInv'
  BY <1>1, <1>4, <1>5 DEF Send, SenderInv, TypeOK
<1>8. SentInv'
  BY <1>1, <1>3, <1>4, <1>5, <1>6 DEF SentInv, TypeOK
<1>9. PlaceInv'
  BY <1>2, <1>3, <1>4 DEF PlaceInv
<1>10. NothingLost'
  BY <1>3, <1>4, <1>6 DEF NothingLost
<1>11. WorkerInv'
  BY <1>4 DEF WorkerInv
<1>12. QED BY <1>7, <1>8, <1>9, <1>10, <1>11

\* The start of a flush makes every task of the buffer pending.
LEMMA StartFlushPending ==
  ASSUME NEW b, NEW next \in {"flush", "finish"}, StartFlush(b, next), buf' = b,
         UNCHANGED user
  PROVE  Pending' = Range(b)
BY DEF StartFlush, Pending, UserOf

\* The worker takes a task out of the channel.
LEMMA CustodyReceive ==
  ASSUME IndInv, Receive
  PROVE  Custody'
<1> DEFINE h == Head(delCh)
<1> USE DEF IndInv, Custody
<1>1. wpc = "select" /\ Pending = Range(buf)
  BY DEF Receive, Pending
<1>2. /\ delCh' = Tail(delCh) /\ buf' = Append(buf, h)
      /\ UNCHANGED <<pc, user, size, sent, handled>>
  BY DEF Receive, callVars
<1>3. /\ h \in Tasks /\ h \in Range(delCh)
      /\ Range(delCh') = Range(delCh) \ {h} /\ IsInjective(delCh')
  BY <1>2, TailRange DEF Receive, TypeOK, PlaceInv
<1>4. h \notin Range(buf) /\ handled[h] = 0
  BY <1>3 DEF PlaceInv
<1>5. /\ Range(buf') = Range(buf) \cup {h} /\ IsInjective(buf')
      /\ Len(buf') = Len(buf) + 1
  BY <1>2, <1>3, <1>4, AppendRange DEF TypeOK, PlaceInv
<1>6. Pending' = Range(buf')
  <2>1. CASE Full(buf')
    BY <1>2, <2>1, StartFlushPending DEF Receive
  <2>2. CASE ~Full(buf')
    BY <1>1, <2>2 DEF Receive, Pending
  <2>3. QED BY <2>1, <2>2
<1>7. SenderInv' /\ SentInv'
  BY <1>2, <1>3, <1>5 DEF SenderInv, SentInv
<1>8. PlaceInv'
  BY <1>1, <1>2, <1>3, <1>4, <1>5, <1>6 DEF PlaceInv
<1>9. NothingLost'
  BY <1>1, <1>2, <1>3, <1>5, <1>6 DEF NothingLost
<1>10. WorkerInv'
  BY <1>1, <1>5, BatchSizeAssumption DEF Receive, Full, StartFlush, WorkerInv, TypeOK
<1>11. QED BY <1>7, <1>8, <1>9, <1>10

\* A flush begins because of the ticker or of the closed channel, or the
\* worker ends with an empty buffer.
LEMMA CustodyFlushBegins ==
  ASSUME IndInv, Tick \/ ChannelDrained
  PROVE  Custody'
<1> USE DEF IndInv, Custody
<1>1. UNCHANGED <<delCh, buf, handled, pc, user, size, sent>>
  BY DEF Tick, ChannelDrained, callVars
<1>2. wpc = "select" /\ Pending = Range(buf)
  BY DEF Tick, ChannelDrained, Pending
<1>3. Pending' = Pending
  <2>1. CASE Tick
    BY <1>1, <1>2, <2>1, StartFlushPending DEF Tick
  <2>2. CASE ChannelDrained /\ Due(buf)
    BY <1>1, <1>2, <2>2, StartFlushPending DEF ChannelDrained
  <2>3. CASE ChannelDrained /\ ~Due(buf)
    <3>1. buf = <<>> /\ buf' = <<>>
      BY <1>1, <2>3 DEF Due, TypeOK
    <3>2. QED BY <3>1, EmptyRange DEF Pending
  <2>4. QED BY <2>1, <2>2, <2>3
<1>4. SenderInv' /\ SentInv' /\ PlaceInv' /\ NothingLost'
  BY <1>1, <1>3 DEF SenderInv, SentInv, PlaceInv, NothingLost
<1>5. WorkerInv'
  BY <1>1, <1>2 DEF Tick, ChannelDrained, Due, StartFlush, WorkerInv, TypeOK
<1>6. QED BY <1>4, <1>5

\* One user's tasks go to the repository.
LEMMA CustodyFlushUser ==
  ASSUME IndInv, NEW u \in Users, FlushUser(u)
  PROVE  Custody'
<1> DEFINE group == {t \in Range(buf) : UserOf(t) = u}
<1> USE DEF IndInv, Custody
<1>1. /\ wpc \in {"flush", "finish"} /\ u \in groups
      /\ UNCHANGED <<delCh, pc, user, size, sent>>
      /\ groups' = groups \ {u}
      /\ group \subseteq Pending /\ group \subseteq Tasks
  BY DEF FlushUser, callVars, Pending, TypeOK, Range
<1>2. \A t \in Tasks : handled'[t] = IF t \in group THEN 1 ELSE handled[t]
  <2>1. SUFFICES ASSUME NEW t \in Tasks
                 PROVE  handled'[t] = IF t \in group THEN 1 ELSE handled[t]
    OBVIOUS
  <2>2. handled'[t] = IF t \in group THEN handled[t] + 1 ELSE handled[t]
    BY DEF FlushUser
  <2>3. t \in group => handled[t] = 0
    BY <1>1 DEF PlaceInv
  <2>4. QED BY <2>2, <2>3
<1>3. Pending = {t \in Range(buf) : UserOf(t) \in groups}
  BY <1>1 DEF Pending
<1>4. Pending' = Pending \ group
  <2>1. CASE groups' # {}
    <3>1. buf' = buf /\ wpc' = wpc
      BY <2>1 DEF FlushUser
    <3>2. QED BY <1>1, <1>3, <3>1 DEF Pending, UserOf
  <2>2. CASE groups' = {}
    <3>1. buf' = <<>> /\ groups = {u}
      BY <1>1, <2>2 DEF FlushUser, NewBuffer
    <3>2. QED BY <1>3, <3>1, EmptyRange DEF Pending
  <2>3. QED BY <2>1, <2>2
<1>5. buf' = buf \/ (buf' = <<>> /\ Pending' = {})
  <2>1. buf' = buf \/ buf' = <<>>
    BY DEF FlushUser, NewBuffer
  <2>2. QED BY <2>1, EmptyRange DEF Pending
<1>6. IsInjective(buf') /\ Range(buf') \subseteq Range(buf)
  BY <1>5, EmptyRange DEF PlaceInv
<1>7. \A t \in Range(buf) : t \in Tasks
  BY DEF TypeOK, Range
<1>8. SenderInv' /\ SentInv'
  BY <1>1, <1>2, <1>6 DEF SenderInv, SentInv
<1>9. PlaceInv'
  <2>1. \A t \in Range(delCh) : t \in Tasks
    BY DEF TypeOK, Range
  <2>2. \A t \in Range(delCh') : t \notin Range(buf') /\ handled'[t] = 0
    BY <1>1, <1>2, <1>6, <2>1 DEF PlaceInv
  <2>3. \A t \in Range(buf') : handled'[t] = IF t \in Pending' THEN 0 ELSE 1
    BY <1>1, <1>2, <1>4, <1>6, <1>7 DEF PlaceInv
  <2>4. \A t \in Tasks : handled'[t] \in {0, 1}
    BY <1>2 DEF PlaceInv
  <2>5. QED BY <1>1, <1>6, <2>2, <2>3, <2>4 DEF PlaceInv
<1>10. NothingLost'
  BY <1>1, <1>2, <1>4 DEF NothingLost
<1>11. WorkerInv'
  BY <1>1, BatchSizeAssumption DEF FlushUser, NewBuffer, WorkerInv
<1>12. QED BY <1>8, <1>9, <1>10, <1>11

LEMMA CustodyStep ==
  ASSUME IndInv, Next
  PROVE  Custody'
<1>1. ASSUME NEW k \in Closers, CloseCall(k) \/ CloseStep(k) PROVE Custody'
  <2>1. UNCHANGED <<delCh, callVars, workerVars>>
    BY <1>1 DEF CloseCall, CloseStep, OnceFirst, OnceSkip, CloseLock, CloseMark,
                CloseWait, CloseChannel, CloseJoin
  <2>2. QED BY <2>1, CustodyFrame DEF IndInv, Custody, SenderInv, callVars
<1>2. ASSUME Terminated PROVE Custody'
  <2>1. UNCHANGED <<delCh, callVars, workerVars>>
    BY <1>2 DEF Terminated, vars
  <2>2. QED BY <2>1, CustodyFrame DEF IndInv, Custody, SenderInv, callVars
<1>3. QED
  BY <1>1, <1>2, CustodyLock, CustodyCall, CustodySend, CustodyReceive,
     CustodyFlushBegins, CustodyFlushUser
     DEF Next, DeleteStep, Consume, Flush

----------------------------------------------------------------------------
(* The inductive invariant                                                 *)

LEMMA IndInvInit == Init => IndInv
<1>1. SUFFICES ASSUME Init PROVE IndInv
  OBVIOUS
<1>2. TypeOK
  <2>1. \A q : q = <<>> => q \in Seq(Tasks) /\ Len(q) = 0
    OBVIOUS
  <2>2. delCh \in Seq(Tasks) /\ Len(delCh) <= ChanCap
    BY <1>1, <2>1, ChanCapAssumption DEF Init
  <2>3. buf \in Seq(Tasks) /\ Len(buf) <= BatchSize
    BY <1>1, <2>1, BatchSizeAssumption DEF Init
  <2>4. 0 \in 0..MaxIDs
    BY MaxIDsAssumption
  <2>5. size \in [Calls -> 0..MaxIDs] /\ sent \in [Calls -> 0..MaxIDs]
    BY <1>1, <2>4 DEF Init
  <2>6. handled \in [Tasks -> Nat] /\ user \in [Calls -> Users \cup {Nobody}]
    BY <1>1 DEF Init
  <2>7. /\ closeMu \in Calls \cup Closers \cup {Nobody}
        /\ closed \in BOOLEAN /\ enqueueWG \in Nat /\ chClosed \in BOOLEAN
        /\ groups \subseteq Users
    BY <1>1 DEF Init
  <2>8. QED BY <1>1, <2>2, <2>3, <2>5, <2>6, <2>7, Zenon DEF Init, TypeOK
<1>3. Control
  BY <1>1, NobodyAssumption DEF Init, Control, NoSender, Body
<1>4. Counting
  <2>1. Senders = {}
    BY <1>1 DEF Init, Senders
  <2>2. QED BY <1>1, <2>1, FS_EmptySet DEF Init, Counting
<1>5. Custody
  <2>1. Range(delCh) = {} /\ Range(buf) = {} /\ Pending = {}
    BY <1>1, EmptyRange DEF Init, Pending
  <2>2. SenderInv /\ SentInv /\ WorkerInv
    BY <1>1, <2>1, BatchSizeAssumption DEF Init, SenderInv, SentInv, WorkerInv
  <2>3. PlaceInv
    BY <1>1, <2>1, EmptyRange DEF Init, PlaceInv
  <2>4. NothingLost
    BY <1>1, MaxIDsAssumption DEF Init, NothingLost, Tasks
  <2>5. QED BY <2>2, <2>3, <2>4 DEF Custody
<1>6. QED BY <1>2, <1>3, <1>4, <1>5 DEF IndInv

LEMMA IndInvStep == IndInv /\ [Next]_vars => IndInv'
<1>1. ASSUME IndInv, Next PROVE IndInv'
  BY <1>1, TypeStep, ControlStep, CountingStep, CustodyStep DEF IndInv
<1>2. ASSUME IndInv, UNCHANGED vars PROVE IndInv'
  <2>1. TypeOK' /\ Control' /\ Counting'
    BY <1>2 DEF IndInv, TypeOK, Control, NoSender, Counting, Senders, vars,
                callVars, workerVars, closeVars
  <2>2. Custody'
    BY <1>2, CustodyFrame DEF IndInv, Custody, SenderInv, vars, callVars
  <2>3. QED BY <2>1, <2>2 DEF IndInv
<1>3. QED BY <1>1, <1>2

\* Every reachable state of the pipeline satisfies the inductive invariant.
THEOREM IndInvariant == Spec => []IndInv
BY IndInvInit, IndInvStep, PTL DEF Spec

----------------------------------------------------------------------------
(* What the invariant gives                                                *)

\* Every variable keeps its type; the buffer never holds more than a batch
\* and the channel never more than its capacity.
THEOREM TypeCorrect == Spec => []TypeOK
<1>1. IndInv => TypeOK
  BY DEF IndInv
<1>2. QED BY <1>1, IndInvariant, PTL

\* No sender can meet a closed channel, the channel is closed once, and the
\* WaitGroup counts the live senders (shortener.go, DeleteUserURLs and Close).
THEOREM ChannelDisciplineHolds == Spec => []ChannelDiscipline
<1>1. ASSUME IndInv PROVE ChannelDiscipline
  <2>1. NoSender => enqueueWG = 0
    <3>1. ASSUME NoSender PROVE Senders = {}
      BY <3>1 DEF NoSender, Senders
    <3>2. QED BY <1>1, <3>1, FS_EmptySet DEF IndInv, Counting
  <2>2. QED BY <1>1, <2>1 DEF IndInv, Control, Counting, Senders, ChannelDiscipline
<1>2. QED BY <1>1, IndInvariant, PTL

\* Every accepted task is in exactly one place and is handed to the
\* repository at most once.
THEOREM ConservationHolds == Spec => []Conservation
<1>1. ASSUME IndInv PROVE Conservation
  <2> USE <1>1 DEF IndInv, Custody
  <2>1. \A t \in Tasks : t.call \in Calls /\ t.pos \in Nat /\ t.pos >= 1
    BY MaxIDsAssumption DEF Tasks
  <2>2. \A c \in Calls : sent[c] \in Nat /\ size[c] \in Nat
    BY MaxIDsAssumption DEF TypeOK
  <2>3. \A t \in Tasks : t.pos <= sent[t.call] => t \in Accepted \ Unsent
    <3>1. SUFFICES ASSUME NEW t \in Tasks, t.pos <= sent[t.call]
                   PROVE  t \in Accepted \ Unsent
      OBVIOUS
    <3>2. sent[t.call] # 0 /\ t.pos <= size[t.call] /\ ~(t.pos > sent[t.call])
      BY <2>1, <2>2, <3>1 DEF SenderInv
    <3>3. pc[t.call] \in {"sending", "done"}
      BY <2>1, <3>2, Zenon DEF SenderInv
    <3>4. QED BY <3>2, <3>3 DEF Accepted, Unsent
  <2>4. Unsent \subseteq Accepted /\ \A t \in Unsent : ~(t.pos <= sent[t.call])
    BY <2>1, <2>2 DEF Unsent, Accepted
  <2>5. \A t \in Accepted \ Unsent : t \in Tasks /\ t.pos <= sent[t.call]
    BY <2>1, <2>2 DEF Unsent, Accepted
  <2>6. /\ Range(delCh) \subseteq Tasks /\ Pending \subseteq Tasks
        /\ Pending \subseteq Range(buf)
    BY DEF TypeOK, Range, Pending
  <2>7. \A t \in Range(delCh) \cup Pending \cup Handed :
          t \in Tasks /\ t.pos <= sent[t.call]
    BY <2>6 DEF SentInv, Handed
  <2>8. \A t \in Accepted \ Unsent : t \in Range(delCh) \cup Pending \cup Handed
    BY <2>5 DEF NothingLost, Handed
  <2>9. Range(delCh) \cap (Pending \cup Handed) = {} /\ Pending \cap Handed = {}
    BY <2>6 DEF PlaceInv, Handed
  <2>10. \A t \in Tasks : handled[t] <= 1
    BY DEF PlaceInv
  <2>11. Accepted = Unsent \cup Range(delCh) \cup Pending \cup Handed
    BY <2>3, <2>4, <2>7, <2>8
  <2>12. Unsent \cap (Range(delCh) \cup Pending \cup Handed) = {}
    BY <2>4, <2>7
  <2>13. QED BY <2>9, <2>10, <2>11, <2>12 DEF Conservation, PlaceInv
<1>2. QED BY <1>1, IndInvariant, PTL

\* When the worker has ended, nothing accepted is outstanding.
LEMMA ExitMeansFlushed ==
  ASSUME IndInv, wpc = "exited", NEW t \in Accepted
  PROVE  handled[t] = 1
<1> USE DEF IndInv, Custody
<1>1. /\ t \in Tasks /\ t.call \in Calls /\ t.pos \in Nat /\ t.pos <= size[t.call]
      /\ pc[t.call] \in {"sending", "done"}
  BY MaxIDsAssumption DEF Accepted, Tasks
<1>2. delCh = <<>> /\ NoSender
  BY DEF Control
<1>3. t.pos <= sent[t.call]
  BY <1>1, <1>2 DEF NoSender, SenderInv
<1>4. groups = {} /\ Pending = {} /\ Range(delCh) = {}
  BY <1>2, EmptyRange DEF WorkerInv, Pending
<1>5. QED BY <1>1, <1>3, <1>4 DEF NothingLost

\* Close returns only when every accepted deletion reached the repository:
\* the comment of Close, for any number of calls and any batch size.
THEOREM CloseFlushesAllHolds == Spec => []CloseFlushesAll
<1>1. ASSUME IndInv PROVE CloseFlushesAll
  BY <1>1, ExitMeansFlushed DEF IndInv, Control, CloseFlushesAll
<1>2. QED BY <1>1, IndInvariant, PTL

----------------------------------------------------------------------------
(* Order within a request                                                  *)

Earlier(t1, t2) == t1.call = t2.call /\ t1.pos < t2.pos

\* The channel holds the tasks of a call in order; a task that left the
\* channel leaves none before it behind, in the channel or unhandled.
OrderInv ==
  /\ \A i, j \in DOMAIN delCh : Earlier(delCh[i], delCh[j]) => i < j
  /\ \A t1 \in Range(delCh), t2 \in Tasks :
       Earlier(t1, t2) /\ t2.pos <= sent[t2.call] => t2 \in Range(delCh)
  /\ \A t1, t2 \in Tasks : Earlier(t1, t2) /\ handled[t2] = 1 => handled[t1] = 1

LEMMA OrderSend ==
  ASSUME IndInv, OrderInv, NEW c \in Calls, Send(c)
  PROVE  OrderInv'
<1> DEFINE x == TaskOf(c, sent[c] + 1)
<1> USE DEF IndInv, Custody
<1>1. /\ x \in Tasks /\ x.call = c /\ x.pos = sent[c] + 1 /\ sent[c] \in Nat
      /\ handled' = handled
      /\ sent' = [sent EXCEPT ![c] = sent[c] + 1]
      /\ delCh' = Append(delCh, x)
  <2>1. /\ x \in Tasks /\ x.call = c /\ x.pos = sent[c] + 1 /\ sent[c] \in Nat
    BY MaxIDsAssumption DEF Send, TypeOK, TaskOf, Tasks
  <2>2. QED BY <2>1 DEF Send, workerVars
<1>2. Range(delCh') = Range(delCh) \cup {x}
  BY <1>1, AppendRange DEF TypeOK
<1>3. \A t \in Range(delCh) : /\ t \in Tasks /\ t.call \in Calls
                              /\ t.pos \in Nat /\ t.pos <= sent[t.call]
  BY InFlight
<1>4. \A t \in Tasks : t.call \in Calls /\ t.pos \in Nat
                       /\ t = [call |-> t.call, pos |-> t.pos]
  BY MaxIDsAssumption DEF Tasks
<1>5. \A i, j \in DOMAIN delCh' : Earlier(delCh'[i], delCh'[j]) => i < j
  <2>1. /\ DOMAIN delCh' = 1..Len(delCh)+1 /\ DOMAIN delCh = 1..Len(delCh)
        /\ Len(delCh) \in Nat
        /\ delCh'[Len(delCh)+1] = x
        /\ \A i \in 1..Len(delCh) : delCh'[i] = delCh[i] /\ delCh[i] \in Range(delCh)
    BY <1>1 DEF TypeOK, Range
  <2>2. SUFFICES ASSUME NEW i \in 1..Len(delCh)+1, NEW j \in 1..Len(delCh)+1,
                        Earlier(delCh'[i], delCh'[j])
                 PROVE  i < j
    BY <2>1
  <2>3. CASE i \in 1..Len(delCh) /\ j \in 1..Len(delCh)
    BY <2>1, <2>2, <2>3 DEF OrderInv
  <2>4. CASE i = Len(delCh) + 1 /\ j \in 1..Len(delCh)
    BY <1>1, <1>3, <2>1, <2>2, <2>4 DEF Earlier
  <2>5. CASE i = Len(delCh) + 1 /\ j = Len(delCh) + 1
    BY <1>1, <2>1, <2>2, <2>5 DEF Earlier
  <2>6. CASE i \in 1..Len(delCh) /\ j = Len(delCh) + 1
    BY <2>1, <2>6
  <2>7. QED BY <2>1, <2>3, <2>4, <2>5, <2>6
<1>6. ASSUME NEW t1 \in Range(delCh'), NEW t2 \in Tasks,
             Earlier(t1, t2), t2.pos <= sent'[t2.call]
      PROVE  t2 \in Range(delCh')
  <2>1. t2.pos <= sent[t2.call] \/ t2 = x
    <3>1. CASE t2.call # c
      BY <1>1, <1>4, <1>6, <3>1 DEF TypeOK
    <3>2. CASE t2.call = c
      <4>1. t2.pos <= sent[c] + 1
        BY <1>1, <1>6, <3>2 DEF TypeOK
      <4>2. t2.pos = sent[c] + 1 => t2 = x
        BY <1>4, <3>2 DEF TaskOf
      <4>3. QED BY <1>1, <1>4, <3>2, <4>1, <4>2
    <3>3. QED BY <3>1, <3>2
  <2>2. CASE t2.pos <= sent[t2.call] /\ t1 \in Range(delCh)
    BY <1>2, <1>6, <2>2 DEF OrderInv
  <2>3. t2.pos <= sent[t2.call] => t1 # x
    BY <1>1, <1>4, <1>6 DEF Earlier
  <2>4. QED BY <1>2, <1>6, <2>1, <2>2, <2>3
<1>7. QED BY <1>1, <1>5, <1>6 DEF OrderInv

LEMMA OrderReceive ==
  ASSUME IndInv, OrderInv, Receive
  PROVE  OrderInv'
<1> USE DEF IndInv, Custody
<1>1. delCh' = Tail(delCh) /\ delCh # <<>> /\ UNCHANGED <<sent, handled>>
  BY DEF Receive, callVars
<1>2. /\ Range(delCh') = Range(delCh) \ {Head(delCh)}
      /\ Head(delCh) = delCh[1]
  BY <1>1, TailRange DEF TypeOK, PlaceInv
<1>3. /\ DOMAIN delCh = 1..Len(delCh) /\ Len(delCh) \in Nat \ {0}
      /\ DOMAIN delCh' = 1..Len(delCh)-1
      /\ \A i \in 1..Len(delCh)-1 : delCh'[i] = delCh[i+1]
  BY <1>1 DEF TypeOK
<1>4. \A i, j \in DOMAIN delCh' : Earlier(delCh'[i], delCh'[j]) => i < j
  <2>1. SUFFICES ASSUME NEW i \in 1..Len(delCh)-1, NEW j \in 1..Len(delCh)-1,
                        Earlier(delCh[i+1], delCh[j+1])
                 PROVE  i < j
    BY <1>3
  <2>2. i + 1 \in 1..Len(delCh) /\ j + 1 \in 1..Len(delCh)
    BY <1>3
  <2>3. QED BY <1>3, <2>1, <2>2 DEF OrderInv
<1>5. ASSUME NEW t1 \in Range(delCh'), NEW t2 \in Tasks,
             Earlier(t1, t2), t2.pos <= sent'[t2.call]
      PROVE  t2 \in Range(delCh')
  <2>1. t1 \in Range(delCh) /\ t1 # delCh[1]
    BY <1>2
  <2>2. t2 \in Range(delCh)
    BY <1>1, <1>5, <2>1 DEF OrderInv
  <2>3. PICK i \in 1..Len(delCh) : t1 = delCh[i]
    BY <1>3, <2>1 DEF Range
  <2>4. t2 # delCh[1]
    <3>1. SUFFICES ASSUME t2 = delCh[1] PROVE FALSE
      OBVIOUS
    <3>2. i < 1
      BY <1>3, <1>5, <2>3, <3>1 DEF OrderInv
    <3>3. QED BY <3>2
  <2>5. QED BY <1>2, <2>2, <2>4
<1>6. QED BY <1>1, <1>4, <1>5 DEF OrderInv

\* Tasks of one call are of one user, so they reach the repository together.
LEMMA OrderFlushUser ==
  ASSUME IndInv, OrderInv, NEW u \in Users, FlushUser(u)
  PROVE  OrderInv'
<1> USE DEF IndInv, Custody
<1>1. /\ UNCHANGED <<delCh, sent>> /\ wpc \in {"flush", "finish"} /\ u \in groups
      /\ \A t \in Tasks : handled'[t] = IF t \in Range(buf) /\ UserOf(t) = u
                                        THEN handled[t] + 1 ELSE handled[t]
  BY DEF FlushUser, callVars
<1>2. ASSUME NEW t1 \in Tasks, NEW t2 \in Tasks, Earlier(t1, t2), handled'[t2] = 1
      PROVE  handled'[t1] = 1
  <2>1. CASE handled[t2] = 1
    <3>1. handled[t1] = 1
      BY <1>2, <2>1 DEF OrderInv
    <3>2. ~(t1 \in Range(buf) /\ UserOf(t1) = u)
      BY <1>1, <3>1 DEF PlaceInv, Pending
    <3>3. QED BY <1>1, <3>1, <3>2
  <2>2. CASE handled[t2] # 1
    <3>1. t2 \in Range(buf) /\ UserOf(t2) = u
      BY <1>1, <1>2, <2>2
    <3>2. t2.pos <= sent[t2.call] /\ t2 \notin Range(delCh)
      BY <3>1 DEF SentInv, PlaceInv
    <3>3. t1.call = t2.call /\ t1.pos < t2.pos /\ UserOf(t1) = u
      BY <1>2, <3>1 DEF Earlier, UserOf
    <3>4. t1.pos <= sent[t1.call]
      <4>1. t1.pos \in Nat /\ t2.pos \in Nat /\ sent[t1.call] \in Nat
        BY MaxIDsAssumption DEF Tasks, TypeOK
      <4>2. QED BY <3>2, <3>3, <4>1
    <3>5. t1 \notin Range(delCh)
      BY <1>2, <3>2 DEF OrderInv
    <3>6. CASE t1 \in Pending
      <4>1. t1 \in Range(buf) /\ handled[t1] = 0
        BY <3>6 DEF PlaceInv, Pending
      <4>2. QED BY <1>1, <3>3, <4>1
    <3>7. CASE handled[t1] = 1
      <4>1. ~(t1 \in Range(buf) /\ UserOf(t1) = u)
        BY <1>1, <3>7 DEF PlaceInv, Pending
      <4>2. QED BY <1>1, <3>7, <4>1
    <3>8. QED BY <3>4, <3>5, <3>6, <3>7 DEF NothingLost
  <2>3. QED BY <2>1, <2>2
<1>3. QED BY <1>1, <1>2 DEF OrderInv

LEMMA OrderStep == IndInv /\ OrderInv /\ [Next]_vars => OrderInv'
<1>1. ASSUME OrderInv, UNCHANGED <<delCh, sent, handled>> PROVE OrderInv'
  BY <1>1 DEF OrderInv
<1>2. ASSUME NEW c \in Calls,
             \/ DeleteRefuse(c) \/ DeleteCheck(c) \/ DeleteAccept(c) \/ SendDone(c)
             \/ \E u \in Users, n \in 1..MaxIDs : DeleteLock(c, u, n)
      PROVE  UNCHANGED <<delCh, sent, handled>>
  BY <1>2 DEF DeleteRefuse, DeleteCheck, DeleteAccept, SendDone, DeleteLock,
              workerVars
<1>3. Tick \/ ChannelDrained \/ Terminated \/ UNCHANGED vars
        => UNCHANGED <<delCh, sent, handled>>
  BY DEF Tick, ChannelDrained, Terminated, vars, callVars, workerVars
<1>4. ASSUME NEW k \in Closers, CloseCall(k) \/ CloseStep(k)
      PROVE  UNCHANGED <<delCh, sent, handled>>
  BY <1>4 DEF CloseCall, CloseStep, OnceFirst, OnceSkip, CloseLock, CloseMark,
              CloseWait, CloseChannel, CloseJoin, callVars, workerVars
<1>5. QED
  BY <1>1, <1>2, <1>3, <1>4, OrderSend, OrderReceive, OrderFlushUser
     DEF Next, DeleteStep, Consume, Flush

\* The ids of one request reach the repository in the order of the request.
THEOREM InOrderHolds == Spec => []InOrder
<1>1. Init => OrderInv
  BY EmptyRange DEF Init, OrderInv
<1>2. IndInv /\ OrderInv => InOrder
  <2>1. SUFFICES ASSUME IndInv, OrderInv, NEW t1 \in Accepted, NEW t2 \in Accepted,
                        t1.call = t2.call, t1.pos < t2.pos, handled[t2] > 0
                 PROVE  handled[t1] > 0
    BY DEF InOrder
  <2>2. t1 \in Tasks /\ t2 \in Tasks /\ handled[t2] = 1
    BY <2>1 DEF Accepted, IndInv, Custody, PlaceInv
  <2>3. QED BY <2>1, <2>2 DEF OrderInv, Earlier
<1>3. QED BY <1>1, <1>2, OrderStep, IndInvariant, PTL DEF Spec

----------------------------------------------------------------------------
(* Refinement of AsyncDelete                                               *)

LEMMA AbstractStep ==
  ASSUME IndInv, Next
  PROVE  [Abstract!ANext]_(Abstract!avars)
<1> DEFINE phase == IF once = "done" THEN "returned"
                    ELSE IF closed THEN "shut" ELSE "open"
<1> USE DEF Abstract!ANext, Abstract!avars
<1>1. ASSUME NEW c \in Calls, DeleteAccept(c) PROVE [Abstract!ANext]_(Abstract!avars)
  <2> DEFINE S == {t \in Tasks : t.call = c /\ t.pos <= size[c]}
  <2>1. /\ pc[c] = "checked" /\ ~closed /\ once # "done"
        /\ UNCHANGED <<once, closed, handled, size>>
    BY <1>1 DEF DeleteAccept, IndInv, Control, workerVars, closeVars
  <2>2. pc' = [pc EXCEPT ![c] = "sending"]
    BY <1>1 DEF DeleteAccept
  <2>3. Accepted' = Accepted \cup S /\ S \cap Accepted = {}
    BY <2>1, <2>2 DEF Accepted, IndInv, TypeOK, Tasks
  <2>4. Abstract!Schedule(S)
    BY <2>1, <2>3 DEF Abstract!Schedule
  <2>5. QED BY <2>4
<1>2. ASSUME NEW u \in Users, FlushUser(u) PROVE [Abstract!ANext]_(Abstract!avars)
  <2> DEFINE S == {t \in Range(buf) : UserOf(t) = u}
  <2>1. /\ UNCHANGED <<once, closed, callVars>> /\ Accepted' = Accepted
        /\ u \in groups /\ wpc \in {"flush", "finish"}
    BY <1>2 DEF FlushUser, closeVars, callVars, Accepted
  <2>2. once # "done"
    BY <2>1 DEF IndInv, Control
  <2>3. S \subseteq Tasks /\ \A t \in S : handled[t] = 0
    <3>1. S \subseteq Tasks
      BY DEF IndInv, TypeOK, Range
    <3>2. S \subseteq Pending
      BY <2>1 DEF Pending
    <3>3. QED BY <3>1, <3>2 DEF IndInv, Custody, PlaceInv
  <2>4. S \subseteq Accepted
    <3>1. SUFFICES ASSUME NEW t \in S PROVE t \in Accepted
      OBVIOUS
    <3>2. /\ t \in Tasks /\ t.call \in Calls /\ t.pos \in Nat
          /\ t.pos >= 1 /\ t.pos <= sent[t.call]
      BY InFlight DEF IndInv
    <3>3. /\ sent[t.call] \in Nat /\ size[t.call] \in Nat
          /\ sent[t.call] <= size[t.call] /\ sent[t.call] # 0
      BY <3>2, MaxIDsAssumption DEF IndInv, TypeOK, Custody, SenderInv
    <3>4. pc[t.call] \in {"sending", "done"}
      BY <3>2, <3>3, Zenon DEF IndInv, Custody, SenderInv
    <3>5. QED BY <3>2, <3>3, <3>4 DEF Accepted
  <2>5. handled' = [t \in Tasks |-> IF t \in S THEN 1 ELSE handled[t]]
    BY <1>2, <2>3 DEF FlushUser
  <2>6. Abstract!Apply(S)
    BY <2>1, <2>2, <2>3, <2>4, <2>5 DEF Abstract!Apply, Abstract!Outstanding
  <2>7. QED BY <2>3, <2>6
<1>3. ASSUME NEW k \in Closers, CloseMark(k) PROVE [Abstract!ANext]_(Abstract!avars)
  <2>1. once = "running" /\ ~closed /\ closed' /\ once' = once
        /\ UNCHANGED <<handled, callVars>>
    BY <1>3 DEF CloseMark, IndInv, Control, Body, workerVars
  <2>2. Abstract!Shut
    BY <2>1 DEF Abstract!Shut, Accepted, callVars
  <2>3. QED BY <2>2
<1>4. ASSUME NEW k \in Closers, CloseJoin(k) PROVE [Abstract!ANext]_(Abstract!avars)
  <2>1. /\ once = "running" /\ once' = "done" /\ closed
        /\ UNCHANGED <<closed, handled, callVars, workerVars>>
    BY <1>4 DEF CloseJoin, IndInv, Control, Body, workerVars
  <2>2. Accepted' = Accepted
    BY <2>1 DEF Accepted, callVars
  <2>3. \A t \in Accepted : handled[t] = 1
    BY <1>4, ExitMeansFlushed DEF CloseJoin
  <2>4. Abstract!Return
    BY <2>1, <2>2, <2>3 DEF Abstract!Return, Abstract!Outstanding
  <2>5. QED BY <2>4
<1>5. ASSUME UNCHANGED <<once, closed, callVars, handled>>
      PROVE  [Abstract!ANext]_(Abstract!avars)
  BY <1>5 DEF Accepted, callVars
<1>6. ASSUME NEW c \in Calls,
             \/ DeleteRefuse(c) \/ DeleteCheck(c) \/ Send(c) \/ SendDone(c)
             \/ \E u \in Users, n \in 1..MaxIDs : DeleteLock(c, u, n)
      PROVE  [Abstract!ANext]_(Abstract!avars)
  <2>1. UNCHANGED <<once, closed, handled>>
    BY <1>6 DEF DeleteRefuse, DeleteCheck, Send, SendDone, DeleteLock,
                workerVars, closeVars
  <2>2. Accepted' = Accepted
    BY <1>6 DEF DeleteRefuse, DeleteCheck, Send, SendDone, DeleteLock, Accepted,
                IndInv, TypeOK, Tasks
  <2>3. QED BY <2>1, <2>2
<1>7. ASSUME NEW k \in Closers,
             \/ CloseCall(k) \/ OnceFirst(k) \/ OnceSkip(k) \/ CloseLock(k)
             \/ CloseWait(k) \/ CloseChannel(k)
      PROVE  [Abstract!ANext]_(Abstract!avars)
  <2>1. CASE OnceFirst(k)
    BY <2>1 DEF OnceFirst, Accepted, callVars, workerVars
  <2>2. CASE ~OnceFirst(k)
    BY <1>5, <1>7, <2>2 DEF CloseCall, OnceSkip, CloseLock, CloseWait,
                            CloseChannel, workerVars
  <2>3. QED BY <2>1, <2>2
<1>8. Receive \/ Tick \/ ChannelDrained \/ Terminated
        => UNCHANGED <<once, closed, callVars, handled>>
  BY DEF Receive, Tick, ChannelDrained, Terminated, vars, workerVars, closeVars
<1>9. QED
  BY <1>1, <1>2, <1>3, <1>4, <1>5, <1>6, <1>7, <1>8
     DEF Next, DeleteStep, Consume, Flush, CloseStep

\* The pipeline implements AsyncDelete: scheduling stops when Close begins,
\* each scheduled task is handed over once, and Close returns with none left.
THEOREM Implementation == Spec => ImplementsAsyncDelete
<1>1. Init => Abstract!AInit
  BY DEF Init, Abstract!AInit, Accepted, Tasks
<1>2. IndInv /\ [Next]_vars => [Abstract!ANext]_(Abstract!avars)
  <2>1. ASSUME UNCHANGED vars PROVE UNCHANGED Abstract!avars
    BY <2>1 DEF vars, callVars, workerVars, closeVars, Abstract!avars, Accepted
  <2>2. QED BY <2>1, AbstractStep
<1>3. QED
  BY <1>1, <1>2, IndInvariant, PTL DEF Spec, ImplementsAsyncDelete, Abstract!ASpec

----------------------------------------------------------------------------
(* No deadlock                                                             *)

\* The guards of the steps that somebody else may have to wait for, as their
\* actions state them.
CallMoves(c) ==
  \/ pc[c] \in {"locked", "checked"}
  \/ pc[c] = "sending" /\ (sent[c] < size[c] => Len(delCh) < ChanCap)
WorkerMoves ==
  \/ wpc = "select" /\ (delCh # <<>> \/ chClosed \/ Due(buf))
  \/ wpc \in {"flush", "finish"} /\ groups # {}
CloserMoves(k) ==
  \/ cpc[k] = "called" /\ once # "running"
  \/ cpc[k] = "lock" /\ closeMu = Nobody
  \/ cpc[k] \in {"mark", "close"}
  \/ cpc[k] = "wait" /\ enqueueWG = 0
  \/ cpc[k] = "join" /\ wpc = "exited"

Moves ==
  \/ \E c \in Calls : CallMoves(c)
  \/ WorkerMoves
  \/ \E k \in Closers : CloserMoves(k)

\* A call of DeleteUserURLs, its sender or a call of Close is under way, or a task
\* was accepted and not handed over.
UnderWay ==
  \/ \E c \in Calls : pc[c] \in {"locked", "checked", "sending"}
  \/ \E k \in Closers : cpc[k] \notin {"idle", "returned"}
  \/ \E t \in Accepted : handled[t] # 1

\* While anything is under way, somebody can go on.
NeverStuck == UnderWay => Moves

\* A flush has a group left, and closeOnce is only held by a closer in its body.
FlushInv == wpc \in {"flush", "finish"} => groups # {}
OnceInv == once = "running" => \E k \in Closers : cpc[k] \in Body

LEMMA DueMeansGroups ==
  ASSUME TypeOK, Due(buf)
  PROVE  {UserOf(t) : t \in Range(buf)} # {}
<1>1. Len(buf) \in Nat /\ Len(buf) > 0
  BY DEF TypeOK, Due
<1>2. buf[1] \in Range(buf)
  BY <1>1 DEF TypeOK, Range
<1>3. QED
  BY <1>2

LEMMA FlushStep ==
  ASSUME IndInv, FlushInv, [Next]_vars
  PROVE  FlushInv'
<1> USE DEF FlushInv
<1>1. CASE Receive
  <2>1. /\ Head(delCh) \in Tasks
        /\ buf' = Append(buf, Head(delCh)) /\ Len(buf') = Len(buf) + 1
        /\ Range(buf') = Range(buf) \cup {Head(delCh)}
    BY <1>1, TailRange, AppendRange DEF Receive, IndInv, TypeOK, Custody, PlaceInv
  <2>2. {UserOf(t)' : t \in Range(buf')} # {}
    BY <2>1
  <2>3. QED
    BY <1>1, <2>2 DEF Receive, StartFlush
<1>2. CASE ChannelDrained \/ Tick
  BY <1>2, DueMeansGroups DEF ChannelDrained, Tick, StartFlush, UserOf, callVars, IndInv
<1>3. ASSUME NEW u \in Users, FlushUser(u) PROVE FlushInv'
  BY <1>3 DEF FlushUser
<1>4. ASSUME NEW c \in Calls,
             DeleteStep(c) \/ \E u \in Users, n \in 1..MaxIDs : DeleteLock(c, u, n)
      PROVE  FlushInv'
  BY <1>4 DEF DeleteStep, DeleteRefuse, DeleteCheck, DeleteAccept, Send, SendDone, DeleteLock,
     workerVars
<1>5. ASSUME NEW k \in Closers, CloseCall(k) \/ CloseStep(k) PROVE FlushInv'
  BY <1>5 DEF CloseCall, CloseStep, OnceFirst, OnceSkip, CloseLock, CloseMark, CloseWait,
     CloseChannel, CloseJoin, workerVars
<1>6. CASE UNCHANGED vars
  BY <1>6 DEF vars, workerVars
<1>7. QED
  BY <1>1, <1>2, <1>3, <1>4, <1>5, <1>6 DEF Next, Consume, Flush, Terminated

LEMMA OnceStep ==
  ASSUME IndInv, OnceInv, [Next]_vars
  PROVE  OnceInv'
<1> USE DEF OnceInv, Body
<1>1. ASSUME NEW k \in Closers, CloseCall(k) \/ CloseStep(k) PROVE OnceInv'
  BY <1>1 DEF CloseCall, CloseStep, OnceFirst, OnceSkip, CloseLock, CloseMark, CloseWait,
     CloseChannel, CloseJoin, IndInv, TypeOK
<1>2. ASSUME UNCHANGED closeVars PROVE OnceInv'
  BY <1>2 DEF closeVars
<1>3. ASSUME NEW c \in Calls,
             DeleteStep(c) \/ \E u \in Users, n \in 1..MaxIDs : DeleteLock(c, u, n)
      PROVE  UNCHANGED closeVars
  BY <1>3 DEF DeleteStep, DeleteRefuse, DeleteCheck, DeleteAccept, Send, SendDone, DeleteLock
<1>4. ASSUME Consume \/ Tick \/ Flush \/ UNCHANGED vars PROVE UNCHANGED closeVars
  BY <1>4 DEF Consume, Receive, ChannelDrained, Tick, Flush, FlushUser, vars
<1>5. QED
  BY <1>1, <1>2, <1>3, <1>4 DEF Next, Terminated

\* As long as the worker has not exited, something moves or nothing is outstanding:
\* the senders wait for the worker only, and the worker for nobody.
LEMMA WorkerOrSenderMoves ==
  ASSUME IndInv, FlushInv, wpc # "exited",
         \/ \E c \in Calls : pc[c] = "sending"
         \/ \E t \in Accepted : handled[t] # 1
         \/ chClosed
  PROVE  Moves
<1> USE DEF IndInv
<1> SUFFICES ASSUME ~WorkerMoves, \A c \in Calls : ~CallMoves(c) PROVE FALSE
  BY DEF Moves
<1>1. wpc = "select" /\ delCh = <<>> /\ ~chClosed /\ ~Due(buf)
  BY DEF TypeOK, FlushInv, WorkerMoves
<1>2. NoSender
  <2>1. Len(delCh) < ChanCap
    BY <1>1, ChanCapAssumption
  <2>2. QED
    BY <2>1 DEF CallMoves, NoSender
<1>3. PICK t \in Accepted : handled[t] # 1
  BY <1>1, <1>2 DEF NoSender
<1>4. /\ t \in Tasks /\ t.call \in Calls /\ t.pos \in Nat /\ t.pos <= size[t.call]
      /\ pc[t.call] = "done"
  BY <1>2, MaxIDsAssumption DEF Accepted, Tasks, NoSender
<1>5. t.pos <= sent[t.call]
  BY <1>4 DEF Custody, SenderInv
<1>6. buf = <<>>
  BY <1>1 DEF TypeOK, Due
<1>7. Range(delCh) = {} /\ Pending = {}
  BY <1>1, <1>6, EmptyRange DEF Pending
<1>8. QED
  BY <1>3, <1>4, <1>5, <1>7 DEF Custody, NothingLost

\* Nobody waits for ever for the mutex: its holder can go on.
LEMMA HolderMoves ==
  ASSUME IndInv, closeMu # Nobody
  PROVE  Moves
<1>1. CASE \E c \in Calls : closeMu = c
  BY <1>1 DEF IndInv, Control, Moves, CallMoves
<1>2. CASE \E k \in Closers : closeMu = k
  BY <1>2 DEF IndInv, Control, Moves, CloserMoves
<1>3. QED
  BY <1>1, <1>2 DEF IndInv, TypeOK

\* A closer in the body waits for the mutex, the senders or the worker.
LEMMA BodyMoves ==
  ASSUME IndInv, FlushInv, NEW k \in Closers, cpc[k] \in Body
  PROVE  Moves
<1> USE DEF IndInv
<1>1. CASE cpc[k] \in {"mark", "close"}
  BY <1>1 DEF Moves, CloserMoves
<1>2. CASE cpc[k] = "lock"
  BY <1>2, HolderMoves DEF Moves, CloserMoves
<1>3. CASE cpc[k] = "wait"
  <2>1. CASE enqueueWG = 0
    BY <1>3, <2>1 DEF Moves, CloserMoves
  <2>2. CASE enqueueWG # 0
    <3>1. \E c \in Calls : pc[c] = "sending"
      <4>1. Senders # {}
        BY <2>2, FS_EmptySet DEF Counting
      <4>2. QED
        BY <4>1 DEF Senders
    <3>2. wpc # "exited"
      BY <3>1 DEF Control, NoSender
    <3>3. QED
      BY <3>1, <3>2, WorkerOrSenderMoves
  <2>3. QED
    BY <2>1, <2>2
<1>4. CASE cpc[k] = "join"
  <2>1. chClosed
    BY <1>4 DEF Control
  <2>2. CASE wpc = "exited"
    BY <1>4, <2>2 DEF Moves, CloserMoves
  <2>3. QED
    BY <2>1, <2>2, WorkerOrSenderMoves
<1>5. QED
  BY <1>1, <1>2, <1>3, <1>4 DEF Body

\* No deadlock: while a request is being scheduled, a sender sends, a deletion is
\* outstanding or Close has not returned, one of them or the worker can move.  In
\* particular Close never waits for a sender that waits for a worker that waits.
THEOREM NeverStuckHolds == Spec => []NeverStuck
<1>1. Init => FlushInv /\ OnceInv
  BY DEF Init, FlushInv, OnceInv
<1>2. IndInv /\ FlushInv /\ OnceInv /\ [Next]_vars => FlushInv' /\ OnceInv'
  BY FlushStep, OnceStep
<1>3. IndInv /\ FlushInv /\ OnceInv => NeverStuck
  <2> SUFFICES ASSUME IndInv, FlushInv, OnceInv, UnderWay PROVE Moves
    BY DEF NeverStuck
  <2>1. CASE \E c \in Calls : pc[c] \in {"locked", "checked"}
    BY <2>1 DEF Moves, CallMoves
  <2>2. CASE \E k \in Closers : cpc[k] \in Body
    BY <2>2, BodyMoves
  <2>3. CASE \E k \in Closers : cpc[k] = "called"
    <3>1. CASE once = "running"
      BY <3>1, BodyMoves DEF OnceInv
    <3>2. QED
      BY <2>3, <3>1 DEF Moves, CloserMoves
  <2>4. CASE (\E c \in Calls : pc[c] = "sending") \/ \E t \in Accepted : handled[t] # 1
    <3>1. wpc # "exited"
      BY <2>4, ExitMeansFlushed DEF IndInv, Control, NoSender
    <3>2. QED
      BY <2>4, <3>1, WorkerOrSenderMoves
  <2>5. QED
    BY <2>1, <2>2, <2>3, <2>4 DEF UnderWay, Body, IndInv, TypeOK
<1>4. QED
  BY IndInvariant, <1>1, <1>2, <1>3, PTL DEF Spec
=============================================================================
