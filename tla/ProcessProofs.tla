---------------------------- MODULE ProcessProofs ----------------------------
(***************************************************************************)
(* Proofs about Process, for any environments, flags and files.            *)
(***************************************************************************)
EXTENDS Process, TLAPS

Starting == {"load", "pool", "migrate", "choose", "observe", "subnet", "listen"}
Ending == {"close service", "close repo", "close audit", "close pool", "return"}
Sent == {"nil", "ErrAccept", "ErrServerClosed", "ErrServerStopped"}
Both == {"servers", "stopper"}

\* TypeOK, in parts
MainTypes ==
  /\ at \in Starting \cup {"wait"} \cup Ending
  /\ open \subseteq {"pool", "repo", "audit", "service"}
  /\ repo \in {"none", "postgres", "file", "memory"}
  /\ exit \in {"no", "ok", "failed", "killed"}
RootType == root \in {"none", "open", "broken", "closed"}
ServerTypes ==
  /\ mux \in {"serving", "draining", "sent"}
  /\ grpc \in {"new", "serving", "left", "sent", "refused"}
  /\ http \in {"new", "serving", "left", "sent", "refused"}
ChannelType == errCh \in Seq(Sent)
GroupTypes ==
  /\ members \subseteq Both
  /\ groupErr \in Errors \cup {"listen", "timeout"}
StopTypes ==
  /\ stopper \in {"waiting", "graceful", "closing", "shutdown", "polling", "done"}
  /\ lnerr \in Errors /\ timedOut \in BOOLEAN
ClientTypes ==
  /\ signalled \in BOOLEAN /\ failed \in BOOLEAN /\ silent \in BOOLEAN
  /\ busy \in [Protocols -> {"none", "reading", "using"}]

Types == /\ MainTypes /\ RootType /\ ServerTypes /\ ChannelType /\ GroupTypes
         /\ StopTypes /\ ClientTypes

\* Without a listener nothing has begun; main goes on from g.Wait when all have returned.
Stages ==
  /\ root = "none" => /\ at # "wait" /\ mux = "serving" /\ grpc = "new" /\ http = "new"
                      /\ stopper = "waiting" /\ busy = [p \in Protocols |-> "none"]
                      /\ (at \in Starting <=> groupErr = "nil")
  /\ at \in Starting => root = "none"
  /\ at \in Ending /\ root # "none" => members = Both
  /\ exit \in {"ok", "failed"} => at \in Starting \cup {"return"}

\* What has been opened and not yet closed
Opened ==
  /\ at \notin {"load", "pool", "return"} /\ cfg["DATABASE_DSN"] # "" => "pool" \in open
  /\ at \in {"observe", "subnet", "listen", "wait", "close service", "close repo"} => "repo" \in open
  /\ at \in {"subnet", "listen", "wait", "close service"} => "service" \in open
  /\ at \in {"subnet", "listen", "wait", "close service", "close repo", "close audit"}
       /\ cfg["AUDIT_FILE"] # "" => "audit" \in open
Closed ==
  /\ root # "none" /\ at \in Ending \ {"close service"} => "service" \notin open
  /\ root # "none" /\ at \in {"close audit", "close pool", "return"} => "repo" \notin open
  /\ at \in {"close pool", "return"} => "audit" \notin open
  /\ at = "return" => "pool" \notin open

\* What the channel has, and who has returned
One(b) == IF b THEN 1 ELSE 0
Returned ==
  /\ Len(errCh) = One(mux = "sent") + One(grpc \in {"sent", "refused"})
                    + One(http \in {"sent", "refused"})
  /\ "servers" \in members => Len(errCh) = 3
  /\ "stopper" \in members <=> stopper = "done"

\* What GracefulStop and Shutdown have waited for
Waited ==
  /\ stopper \in {"shutdown", "polling", "done"} => busy["rpc"] = "none"
  /\ stopper = "done" /\ ~timedOut => busy["http"] = "none"

\* Why the group has an error, and why it was cancelled
Blamed ==
  /\ root # "none" /\ groupErr # "nil" =>
       timedOut \/ lnerr # "nil" \/ (errCh # <<>> /\ errCh[1] \in {"ErrAccept", "ErrServerStopped"})
  /\ lnerr # "nil" => stopper \in {"polling", "done"}
  /\ stopper # "waiting" => Cancelled

\* What the exit status says
Status ==
  /\ exit = "ok" => at = "return" /\ groupErr = "nil"
  /\ exit = "failed" /\ at = "return" => groupErr # "nil"

IndInv == Types /\ Stages /\ Opened /\ Closed /\ Returned /\ Waited /\ Blamed /\ Status

----------------------------------------------------------------------------
LEMMA InitInv == Init => IndInv
<1> SUFFICES ASSUME Init PROVE IndInv
  OBVIOUS
<1>1. Types
  <2>1. MainTypes /\ RootType
    BY DEF Init, MainTypes, RootType, Starting
  <2>2. ServerTypes /\ ChannelType
    BY DEF Init, ServerTypes, ChannelType
  <2>3. GroupTypes
    BY DEF Init, GroupTypes, Errors
  <2>4. StopTypes /\ ClientTypes
    BY DEF Init, StopTypes, ClientTypes, Errors
  <2>5. QED
    BY <2>1, <2>2, <2>3, <2>4 DEF Types
<1>2. Stages
  BY DEF Init, Stages, Starting, Ending
<1>3. Opened /\ Closed
  BY DEF Init, Opened, Closed
<1>4. Returned /\ Waited
  BY DEF Init, Returned, One, Waited, Protocols
<1>5. Blamed /\ Status
  BY DEF Init, Blamed, Cancelled, Status
<1>6. QED
  BY <1>1, <1>2, <1>3, <1>4, <1>5 DEF IndInv

----------------------------------------------------------------------------
(* The start and the end of main                                           *)

\* main moves on before it has a listener, opening what it needs.
LEMMA BeginStep ==
  ASSUME IndInv, Begin
  PROVE  IndInv'
<1> USE DEF Main, Fatal, Running, serverVars, stopVars, clientVars, startVars, groupVars
<1>1. /\ at \in Starting /\ exit = "no" /\ root = "none" /\ groupErr = "nil"
      /\ UNCHANGED <<serverVars, members, stopVars, signalled, failed, clientVars>>
  BY DEF Begin, Load, OpenPool, Migrate, ChooseRepository, Observe, CheckSubnet, Listen,
     IndInv, Stages, Starting
<1>2. Types'
  <2>1. MainTypes'
    BY <1>1 DEF Begin, Load, OpenPool, Migrate, ChooseRepository, Observe, CheckSubnet, Listen,
       Opens, Repository, IndInv, Types, MainTypes, Starting, Ending
  <2>2. RootType' /\ GroupTypes'
    BY <1>1 DEF Begin, Load, OpenPool, Migrate, ChooseRepository, Observe, CheckSubnet, Listen,
       IndInv, Types, RootType, GroupTypes
  <2>3. ServerTypes' /\ ChannelType' /\ StopTypes' /\ ClientTypes'
    BY <1>1 DEF IndInv, Types, ServerTypes, ChannelType, StopTypes, ClientTypes
  <2>4. QED
    BY <2>1, <2>2, <2>3 DEF Types
<1>3. Stages'
  BY <1>1 DEF Begin, Load, OpenPool, Migrate, ChooseRepository, Observe, CheckSubnet, Listen,
     IndInv, Stages, Starting, Ending
<1>4. Opened'
  BY <1>1 DEF Begin, Load, OpenPool, Migrate, ChooseRepository, Observe, CheckSubnet, Listen,
     IndInv, Opened, Opens, Starting
<1>5. Closed'
  BY <1>1 DEF Begin, Load, OpenPool, Migrate, ChooseRepository, Observe, CheckSubnet, Listen,
     IndInv, Closed, Starting, Ending
<1>6. Returned' /\ Waited'
  BY <1>1 DEF IndInv, Returned, Waited
<1>7. Blamed'
  BY <1>1 DEF Begin, Load, OpenPool, Migrate, ChooseRepository, Observe, CheckSubnet, Listen,
     IndInv, Blamed, Cancelled, Stages
<1>8. Status'
  BY <1>1 DEF Begin, Load, OpenPool, Migrate, ChooseRepository, Observe, CheckSubnet, Listen,
     IndInv, Status, Starting
<1>9. QED
  BY <1>2, <1>3, <1>4, <1>5, <1>6, <1>7, <1>8 DEF IndInv

LEMMA FinishStep ==
  ASSUME IndInv, Finish
  PROVE  IndInv'
<1> USE DEF Main, Running, Closing, Closes, serverVars, stopVars, clientVars, startVars, groupVars
<1>1. /\ at \in Ending \cup {"wait"} /\ exit = "no"
      /\ UNCHANGED <<startVars, root, groupErr>>
      /\ UNCHANGED <<serverVars, members, stopVars, signalled, failed, clientVars>>
  BY DEF Finish, Wait, CloseService, CloseRepository, CloseAudit, ClosePool, Return, Ending
<1>2. /\ at' \in Ending /\ exit' \in {"no", "ok", "failed"} /\ open' \subseteq open
  BY <1>1 DEF Finish, Wait, CloseService, CloseRepository, CloseAudit, ClosePool, Return, Ending
<1>3. Types'
  <2>1. MainTypes'
    BY <1>1, <1>2 DEF Finish, Return, IndInv, Types, MainTypes
  <2>2. RootType' /\ GroupTypes'
    BY <1>1 DEF IndInv, Types, RootType, GroupTypes
  <2>3. ServerTypes' /\ ChannelType' /\ StopTypes' /\ ClientTypes'
    BY <1>1 DEF IndInv, Types, ServerTypes, ChannelType, StopTypes, ClientTypes
  <2>4. QED
    BY <2>1, <2>2, <2>3 DEF Types
<1>4. Stages'
  BY <1>1 DEF Finish, Wait, CloseService, CloseRepository, CloseAudit, ClosePool, Return,
     IndInv, Stages, Starting, Ending, Both
<1>5. Opened'
  BY <1>1 DEF Finish, Wait, CloseService, CloseRepository, CloseAudit, ClosePool, Return,
     IndInv, Opened
<1>6. Closed'
  BY <1>1 DEF Finish, Wait, CloseService, CloseRepository, CloseAudit, ClosePool, Return,
     IndInv, Closed, Ending
<1>7. Returned' /\ Waited' /\ Blamed'
  BY <1>1 DEF IndInv, Returned, Waited, Blamed, Cancelled
<1>8. Status'
  BY <1>1 DEF Finish, Wait, CloseService, CloseRepository, CloseAudit, ClosePool, Return,
     IndInv, Status
<1>9. QED
  BY <1>3, <1>4, <1>5, <1>6, <1>7, <1>8 DEF IndInv

----------------------------------------------------------------------------
(* The servers                                                             *)

Servers == Mux \/ GRPC \/ HTTP \/ Receive \/ AcceptFails

\* A server's Serve returns: what it sends, and what the channel then has.
LEMMA Sending ==
  ASSUME ChannelType, NEW err \in Sent, errCh' = Append(errCh, err)
  PROVE  /\ ChannelType' /\ Len(errCh) \in Nat
         /\ Len(errCh') = Len(errCh) + 1 /\ errCh' # <<>>
         /\ errCh # <<>> => errCh'[1] = errCh[1]
<1>1. errCh \in Seq(Sent) /\ Len(errCh) \in Nat
  BY DEF ChannelType
<1>2. errCh' \in Seq(Sent) /\ Len(errCh') = Len(errCh) + 1
  BY <1>1
<1>3. errCh # <<>> => errCh'[1] = errCh[1]
  BY <1>1
<1>4. QED
  BY <1>1, <1>2, <1>3 DEF ChannelType

\* A step of a server sends nothing, or what its Serve returned.
Silently ==
  /\ errCh' = errCh /\ members' = members /\ groupErr' = groupErr
  /\ mux' = "sent" <=> mux = "sent"
  /\ grpc' \in {"sent", "refused"} <=> grpc \in {"sent", "refused"}
  /\ http' \in {"sent", "refused"} <=> http \in {"sent", "refused"}
Sends(err) ==
  /\ err \in Sent /\ errCh' = Append(errCh, err) /\ members' = members /\ groupErr' = groupErr
  /\ \/ mux # "sent" /\ mux' = "sent" /\ UNCHANGED <<grpc, http>>
     \/ grpc \notin {"sent", "refused"} /\ grpc' \in {"sent", "refused"} /\ UNCHANGED <<mux, http>>
     \/ http \notin {"sent", "refused"} /\ http' \in {"sent", "refused"} /\ UNCHANGED <<mux, grpc>>

LEMMA ServerMoves ==
  ASSUME Servers
  PROVE  Silently \/ ServersReturn \/ \E err \in Sent : Sends(err)
<1> USE DEF ServerStep, groupVars
<1>1. Mux \/ AcceptFails \/ ReceiveFirst => Silently \/ Sends("ErrAccept")
  BY DEF Mux, MuxAccept, MuxReturns, AcceptFails, ReceiveFirst, Silently, Sends, serverVars, Sent
<1>2. GRPC => Silently \/ Sends("ErrServerStopped") \/ Sends("nil") \/ Sends("ErrServerClosed")
  BY DEF GRPC, GRPCServe, GRPCAccept, GRPCReturns, Silently, Sends, Sent
<1>3. HTTP => Silently \/ Sends("ErrServerClosed")
  BY DEF HTTP, HTTPServe, HTTPAccept, HTTPReturns, Silently, Sends, Sent
<1>4. QED
  BY <1>1, <1>2, <1>3 DEF Servers, Receive, Sent

LEMMA ServersStep ==
  ASSUME IndInv, Servers
  PROVE  IndInv'
<1> USE DEF ServerStep, Serving, Running, mainVars, startVars, stopVars, clientVars, groupVars
<1>1. at = "wait" /\ exit = "no" /\ UNCHANGED <<mainVars, stopVars, signalled, clientVars>>
  BY DEF Servers, Mux, GRPC, HTTP, Receive, MuxAccept, MuxReturns, GRPCServe, GRPCAccept, GRPCReturns,
     HTTPServe, HTTPAccept, HTTPReturns, AcceptFails, ReceiveFirst, ServersReturn
<1>2. root # "none" /\ root' \in {root, "closed", "broken"}
  BY <1>1 DEF IndInv, Stages, Servers, Mux, GRPC, HTTP, Receive, MuxAccept, MuxReturns, GRPCServe,
     GRPCAccept, GRPCReturns, HTTPServe, HTTPAccept, HTTPReturns, AcceptFails, ReceiveFirst,
     ServersReturn
<1>3. Stages'
  BY <1>1, <1>2 DEF IndInv, Stages, Starting, Ending
<1>4. Opened' /\ Closed' /\ Waited' /\ Status'
  BY <1>1 DEF IndInv, Opened, Closed, Waited, Status, Ending
<1>5. MainTypes' /\ RootType' /\ StopTypes'
  BY <1>1, <1>2 DEF IndInv, Types, MainTypes, RootType, StopTypes
<1>6. ServerTypes'
  BY DEF IndInv, Types, ServerTypes, Servers, Mux, GRPC, HTTP, Receive, MuxAccept, MuxReturns,
     GRPCServe, GRPCAccept, GRPCReturns, HTTPServe, HTTPAccept, HTTPReturns, AcceptFails,
     ReceiveFirst, ServersReturn, serverVars
<1>7. failed' \in BOOLEAN
  BY DEF IndInv, Types, ClientTypes, Servers, Mux, GRPC, HTTP, Receive, MuxAccept, MuxReturns,
     GRPCServe, GRPCAccept, GRPCReturns, HTTPServe, HTTPAccept, HTTPReturns, AcceptFails,
     ReceiveFirst, ServersReturn, serverVars
<1>8. ClientTypes'
  BY <1>1, <1>7 DEF IndInv, Types, ClientTypes
<1>9. Types /\ Returned /\ Blamed
  BY DEF IndInv
<1>10. CASE Silently
  <2>1. ChannelType' /\ GroupTypes'
    BY <1>9, <1>10 DEF Types, ChannelType, GroupTypes, Silently
  <2>2. Returned'
    BY <1>1, <1>9, <1>10 DEF Returned, One, Silently
  <2>3. Blamed'
    BY <1>1, <1>2, <1>9, <1>10 DEF Blamed, Cancelled, Silently
  <2>4. QED
    BY <1>3, <1>4, <1>5, <1>6, <1>8, <2>1, <2>2, <2>3 DEF IndInv, Types
<1>11. ASSUME NEW err \in Sent, Sends(err) PROVE IndInv'
  <2>1. /\ ChannelType' /\ Len(errCh) \in Nat
        /\ Len(errCh') = Len(errCh) + 1 /\ errCh' # <<>>
        /\ errCh # <<>> => errCh'[1] = errCh[1]
    BY <1>9, <1>11, Sending DEF Types, Sends
  <2>2. GroupTypes'
    BY <1>9, <1>11 DEF Types, GroupTypes, Sends
  <2>3. Len(errCh') = One(mux' = "sent") + One(grpc' \in {"sent", "refused"})
                        + One(http' \in {"sent", "refused"})
    BY <1>9, <1>11, <2>1 DEF Returned, One, Sends
  <2>4. "servers" \notin members
    BY <1>9, <1>11 DEF Returned, One, Sends
  <2>5. Returned'
    BY <1>1, <1>9, <1>11, <2>3, <2>4 DEF Returned, Sends, One
  <2>6. Blamed'
    BY <1>1, <1>2, <1>9, <1>11, <2>1 DEF Blamed, Cancelled, Sends
  <2>7. QED
    BY <1>3, <1>4, <1>5, <1>6, <1>8, <2>1, <2>2, <2>5, <2>6 DEF IndInv, Types
<1>12. CASE ServersReturn
  <2>1. errCh # <<>> /\ errCh[1] \in Sent
    BY <1>9, <1>12 DEF ServersReturn, AllReceived, Types, ChannelType
  <2>2. /\ groupErr' \in {groupErr, Filtered(errCh[1])} /\ (groupErr # "nil" => groupErr' = groupErr)
        /\ members' = members \cup {"servers"} /\ Len(errCh) = 3 /\ UNCHANGED <<root, serverVars>>
    BY <1>12 DEF ServersReturn, KeepFirst, AllReceived
  <2>3. Filtered(errCh[1]) \in Errors
        /\ (Filtered(errCh[1]) # "nil" => errCh[1] \in {"ErrAccept", "ErrServerStopped"})
    BY <2>1 DEF Filtered, Sent, Errors
  <2>4. ChannelType' /\ GroupTypes'
    BY <1>9, <2>2, <2>3 DEF Types, ChannelType, GroupTypes, serverVars, Both
  <2>5. Returned'
    BY <1>1, <1>9, <2>2 DEF Returned, serverVars
  <2>6. Blamed'
    BY <1>1, <1>9, <2>1, <2>2, <2>3 DEF Blamed, Cancelled, serverVars
  <2>7. QED
    BY <1>3, <1>4, <1>5, <1>6, <1>8, <2>4, <2>5, <2>6 DEF IndInv, Types
<1>13. QED
  BY <1>10, <1>11, <1>12, ServerMoves

----------------------------------------------------------------------------
(* The stopper                                                             *)

\* A step of the stopper before it returns; and its return, with an error or none.
Goes(to) ==
  /\ stopper' = to /\ UNCHANGED <<groupVars, timedOut>>
  /\ \/ stopper = "waiting" /\ to = "graceful" /\ Cancelled /\ lnerr' = lnerr
     \/ stopper = "graceful" /\ to = "closing" /\ lnerr' = lnerr
     \/ stopper = "closing" /\ to = "shutdown" /\ lnerr' = lnerr /\ busy["rpc"] = "none"
     \/ stopper = "shutdown" /\ to = "polling" /\ lnerr' \in {lnerr, "nil", "ErrClosed"}
GoesHome(err) ==
  /\ stopper = "polling" /\ stopper' = "done" /\ lnerr' = lnerr
  /\ members' = members \cup {"stopper"} /\ KeepFirst(err)
  /\ \/ err = lnerr /\ busy["http"] = "none" /\ timedOut' = timedOut
     \/ err = "timeout" /\ timedOut' = TRUE

LEMMA StopperMoves ==
  ASSUME Stopper
  PROVE  /\ at = "wait" /\ exit = "no"
         /\ UNCHANGED <<mainVars, serverVars, signalled, failed, clientVars>>
         /\ root' \in {root, "closed"}
         /\ \/ Goes("graceful") \/ Goes("closing") \/ Goes("shutdown") \/ Goes("polling")
            \/ GoesHome(lnerr) \/ GoesHome("timeout")
<1> USE DEF Stop, Serving, Running
<1>1. StopSignals => /\ Stop("waiting", "graceful") /\ root' \in {root, "closed"} /\ Goes("graceful")
  BY DEF StopSignals, Goes
<1>2. GracefulCloses => Stop("graceful", "closing") /\ root' \in {root, "closed"} /\ Goes("closing")
  BY DEF GracefulCloses, Goes
<1>3. GracefulStop => Stop("closing", "shutdown") /\ root' \in {root, "closed"} /\ Goes("shutdown")
  BY DEF GracefulStop, Goes
<1>4. ShutdownCloses => Stop("shutdown", "polling") /\ root' \in {root, "closed"} /\ Goes("polling")
  BY DEF ShutdownCloses, Goes
<1>5. Shutdown => Stop("polling", "done") /\ root' \in {root, "closed"} /\ GoesHome(lnerr)
  BY DEF Shutdown, StopperReturns, Idle, GoesHome
<1>6. ShutdownTimesOut => Stop("polling", "done") /\ root' \in {root, "closed"} /\ GoesHome("timeout")
  BY DEF ShutdownTimesOut, StopperReturns, GoesHome
<1>7. QED
  BY <1>1, <1>2, <1>3, <1>4, <1>5, <1>6 DEF Stopper

LEMMA StopperStep ==
  ASSUME IndInv, Stopper
  PROVE  IndInv'
<1> USE DEF mainVars, startVars, serverVars, clientVars, groupVars
<1>1. /\ at = "wait" /\ exit = "no" /\ root' \in {root, "closed"}
      /\ UNCHANGED <<mainVars, serverVars, signalled, failed, clientVars>>
  BY StopperMoves
<1>2. Types /\ Stages /\ Returned /\ Waited /\ Blamed /\ root # "none"
  BY <1>1 DEF IndInv, Stages
<1>3. Stages'
  BY <1>1, <1>2 DEF Stages, Starting, Ending
<1>4. Opened' /\ Closed' /\ Status'
  BY <1>1 DEF IndInv, Opened, Closed, Status, Ending
<1>5. MainTypes' /\ RootType' /\ ServerTypes' /\ ChannelType' /\ ClientTypes'
  BY <1>1, <1>2 DEF Types, MainTypes, RootType, ServerTypes, ChannelType, ClientTypes
<1>6. ASSUME NEW to \in {"graceful", "closing", "shutdown", "polling"}, Goes(to) PROVE IndInv'
  <2>1. GroupTypes' /\ StopTypes'
    BY <1>2, <1>6 DEF Types, GroupTypes, StopTypes, Goes, Errors
  <2>2. Returned'
    BY <1>1, <1>2, <1>6 DEF Returned, Goes
  <2>3. Waited'
    BY <1>1, <1>2, <1>6 DEF Waited, Goes
  <2>4. Blamed'
    BY <1>1, <1>2, <1>6 DEF Blamed, Cancelled, Goes
  <2>5. QED
    BY <1>3, <1>4, <1>5, <2>1, <2>2, <2>3, <2>4 DEF IndInv, Types
<1>7. ASSUME NEW err, GoesHome(err) PROVE IndInv'
  <2>1. GroupTypes' /\ StopTypes'
    BY <1>2, <1>7 DEF Types, GroupTypes, StopTypes, GoesHome, KeepFirst, Both
  <2>2. Returned'
    BY <1>1, <1>2, <1>7 DEF Returned, GoesHome
  <2>3. Waited'
    BY <1>1, <1>2, <1>7 DEF Waited, GoesHome
  <2>4. Blamed'
    BY <1>1, <1>2, <1>7 DEF Blamed, Cancelled, GoesHome, KeepFirst
  <2>5. QED
    BY <1>3, <1>4, <1>5, <2>1, <2>2, <2>3, <2>4 DEF IndInv, Types
<1>8. QED
  BY <1>6, <1>7, StopperMoves

----------------------------------------------------------------------------
(* Outside the program                                                     *)

Clients == Connect \/ Speak \/ \E p \in Protocols : Arrive(p) \/ Use(p) \/ End(p) \/ Refuse(p)

LEMMA ClientsStep ==
  ASSUME IndInv, Signal \/ Clients
  PROVE  IndInv'
<1> USE DEF Outside, Running, ClientStep, startVars, serverVars, groupVars, stopVars, clientVars
<1>1. /\ UNCHANGED <<startVars, at, open, root, serverVars, groupVars, stopVars, failed>>
      /\ exit = "no" /\ exit' \in {"no", "killed"} /\ (signalled => signalled')
      /\ signalled' = signalled \/ signalled' = TRUE
      /\ silent' = silent \/ silent' = TRUE \/ silent' = FALSE
  <2>1. CASE Signal
    BY <2>1 DEF Signal
  <2>2. CASE Connect \/ Speak
    BY <2>2 DEF Connect, Speak
  <2>3. ASSUME NEW p \in Protocols, Arrive(p) \/ Use(p) \/ End(p) \/ Refuse(p)
        PROVE  UNCHANGED <<startVars, at, open, root, serverVars, groupVars, stopVars, failed,
                           exit, signalled, silent>> /\ exit = "no"
    BY <2>3 DEF Arrive, Use, End, Refuse, Request
  <2>4. QED
    BY <2>1, <2>2, <2>3 DEF Clients
<1>2. Types /\ Stages /\ Returned /\ Waited /\ Blamed
  BY DEF IndInv
<1>3. \/ busy' = busy
      \/ \E p \in Protocols : \E to \in {"none", "reading", "using"} :
           /\ busy' = [busy EXCEPT ![p] = to]
           /\ busy[p] = "none" => Takes(p)
  BY DEF Signal, Clients, Connect, Speak, Arrive, Use, End, Refuse, Request
<1>4. ClientTypes'
  BY <1>1, <1>2, <1>3 DEF Types, ClientTypes, Protocols
<1>5. root = "none" => busy' = busy
  <2>1. ASSUME NEW p \in Protocols, root = "none" PROVE busy[p] = "none" /\ ~Takes(p)
    BY <1>2, <2>1 DEF Stages, Takes
  <2>2. QED
    BY <1>3, <2>1
<1>6. Stages'
  BY <1>1, <1>2, <1>5 DEF Stages
<1>7. Waited'
  <2>1. CASE busy' = busy
    BY <1>1, <1>2, <2>1 DEF Waited
  <2>2. ASSUME NEW p \in Protocols, NEW to \in {"none", "reading", "using"},
               busy' = [busy EXCEPT ![p] = to], busy[p] = "none" => Takes(p)
        PROVE  Waited'
    BY <1>1, <1>2, <2>2 DEF Waited, Takes, Types, ClientTypes, Protocols
  <2>3. QED
    BY <1>3, <2>1, <2>2
<1>8. MainTypes' /\ RootType' /\ ServerTypes' /\ ChannelType' /\ GroupTypes' /\ StopTypes'
  BY <1>1, <1>2 DEF Types, MainTypes, RootType, ServerTypes, ChannelType, GroupTypes, StopTypes
<1>9. Opened' /\ Closed' /\ Returned' /\ Blamed' /\ Status'
  <2>1. Opened' /\ Closed'
    BY <1>1 DEF IndInv, Opened, Closed
  <2>2. Returned' /\ Status'
    BY <1>1, <1>2 DEF IndInv, Returned, Status
  <2>3. Blamed'
    BY <1>1, <1>2 DEF Blamed, Cancelled
  <2>4. QED
    BY <2>1, <2>2, <2>3
<1>10. QED
  BY <1>4, <1>6, <1>7, <1>8, <1>9 DEF IndInv, Types

----------------------------------------------------------------------------
(* The theorems                                                            *)

\* The invariant from which the others follow: how far main, the servers and the
\* stopper may be from each other, and what is open meanwhile.
THEOREM IndInvariant == Spec => []IndInv
<1>1. Init => IndInv
  BY InitInv
<1>2. IndInv /\ [Next]_vars => IndInv'
  <2> SUFFICES ASSUME IndInv, [Next]_vars PROVE IndInv'
    OBVIOUS
  <2>1. CASE UNCHANGED vars
    <3> USE <2>1 DEF vars, mainVars, startVars, serverVars, groupVars, stopVars, clientVars
    <3>1. Types'
      BY DEF IndInv, Types, MainTypes, RootType, ServerTypes, ChannelType, GroupTypes, StopTypes,
         ClientTypes
    <3>2. Stages' /\ Opened' /\ Closed'
      BY DEF IndInv, Stages, Opened, Closed
    <3>3. Returned' /\ Waited'
      BY DEF IndInv, Returned, Waited
    <3>4. Blamed' /\ Status'
      BY DEF IndInv, Blamed, Cancelled, Status
    <3>5. QED
      BY <3>1, <3>2, <3>3, <3>4 DEF IndInv
  <2>2. CASE Begin \/ Finish
    BY <2>2, BeginStep, FinishStep
  <2>3. CASE Servers \/ Stopper
    BY <2>3, ServersStep, StopperStep
  <2>4. CASE Signal \/ Clients
    BY <2>4, ClientsStep
  <2>5. QED
    BY <2>1, <2>2, <2>3, <2>4 DEF Next, Servers, Clients, Ended
<1>3. QED
  BY <1>1, <1>2, PTL DEF Spec

\* The state of the process stays in its types.
THEOREM TypeCorrect == Spec => []TypeOK
<1>1. IndInv => TypeOK
  <2> SUFFICES ASSUME IndInv PROVE TypeOK
    OBVIOUS
  <2>1. MainTypes /\ RootType /\ ServerTypes /\ ChannelType /\ GroupTypes /\ StopTypes /\ ClientTypes
    BY DEF IndInv, Types
  <2>2. at \in {"load", "pool", "migrate", "choose", "observe", "subnet", "listen", "wait",
                "close service", "close repo", "close audit", "close pool", "return"}
    BY <2>1 DEF MainTypes, Starting, Ending
  <2>3. errCh \in Seq(Errors) /\ Len(errCh) <= 3
    <3>1. errCh \in Seq(Errors)
      BY <2>1 DEF ChannelType, Sent, Errors
    <3>2. Len(errCh) <= 3
      BY DEF IndInv, Returned, One
    <3>3. QED
      BY <3>1, <3>2
  <2>4. QED
    BY <2>1, <2>2, <2>3 DEF TypeOK, MainTypes, RootType, ServerTypes, GroupTypes, StopTypes,
       ClientTypes, Both
<1>2. QED
  BY <1>1, IndInvariant, PTL

\* Nothing that a request may need is closed while it is in flight, unless Shutdown
\* gave up or the process was killed.
THEOREM NoneCutOffHolds == Spec => []NoneCutOff
<1>1. IndInv => NoneCutOff
  <2> SUFFICES ASSUME IndInv, NEW p \in Protocols, busy[p] # "none", ~timedOut, exit # "killed"
      PROVE  /\ Running
             /\ {"service", "repo"} \subseteq open
             /\ cfg["DATABASE_DSN"] # "" => "pool" \in open
             /\ cfg["AUDIT_FILE"] # "" => "audit" \in open
    BY DEF NoneCutOff
  <2>1. root # "none"
    BY DEF IndInv, Stages
  <2>2. members # Both
    BY DEF IndInv, Returned, Waited, Both, Protocols
  <2>3. at = "wait"
    BY <2>1, <2>2 DEF IndInv, Types, MainTypes, Stages
  <2>4. Running
    BY <2>3 DEF IndInv, Types, MainTypes, Stages, Starting, Running
  <2>5. QED
    BY <2>3, <2>4 DEF IndInv, Opened
<1>2. QED
  BY <1>1, IndInvariant, PTL

\* A process that has served and ends by itself leaves no goroutine behind, and nothing open.
THEOREM NothingLeftHolds == Spec => []NothingLeft
<1>1. IndInv => NothingLeft
  <2> SUFFICES ASSUME IndInv, exit \in {"ok", "failed"}, root # "none"
      PROVE  /\ mux = "sent" /\ grpc \in {"sent", "refused"} /\ http \in {"sent", "refused"}
             /\ stopper = "done"
             /\ open = {}
    BY DEF NothingLeft
  <2>1. at = "return" /\ members = Both
    BY DEF IndInv, Stages, Ending
  <2>2. stopper = "done" /\ Len(errCh) = 3
    BY <2>1 DEF IndInv, Returned, Both
  <2>3. mux = "sent" /\ grpc \in {"sent", "refused"} /\ http \in {"sent", "refused"}
    BY <2>2 DEF IndInv, Returned, One
  <2>4. open = {}
    BY <2>1 DEF IndInv, Closed, Types, MainTypes, Ending
  <2>5. QED
    BY <2>2, <2>3, <2>4
<1>2. QED
  BY <1>1, IndInvariant, PTL

\* Status 0 means that a signal was received; another status, after the start, that
\* Shutdown gave up or that two of the servers closed the listener.
THEOREM ExitStatusHolds == Spec => []ExitStatus
<1>1. IndInv => ExitStatus
  <2> SUFFICES ASSUME IndInv PROVE ExitStatus
    OBVIOUS
  <2>1. ASSUME exit = "ok" PROVE signalled
    <3>1. at = "return" /\ groupErr = "nil"
      BY <2>1 DEF IndInv, Status
    <3>2. root # "none"
      BY <3>1 DEF IndInv, Stages, Starting
    <3>3. stopper = "done"
      BY <3>1, <3>2 DEF IndInv, Stages, Ending, Returned, Both
    <3>4. QED
      BY <3>1, <3>3 DEF IndInv, Blamed, Cancelled
  <2>2. ASSUME exit = "failed", root # "none" PROVE timedOut \/ ClosedTwice
    <3>1. at = "return"
      BY <2>2 DEF IndInv, Stages
    <3>2. QED
      BY <2>2, <3>1 DEF IndInv, Status, Blamed, ClosedTwice
  <2>3. QED
    BY <2>1, <2>2 DEF ExitStatus
<1>2. QED
  BY <1>1, IndInvariant, PTL

\* Links are kept in memory only if the strongest source that has a say asks for it.
THEOREM VolatileHolds == Spec => VolatileOnlyIfAsked
<1>1. [Next]_vars => [cfg' # cfg /\ Repository' = "memory" => MemoryAskedFor]_vars
  <2> SUFFICES ASSUME [Next]_vars, cfg' # cfg, Repository' = "memory" PROVE MemoryAskedFor
    OBVIOUS
  <2>1. cfg' = Resolved(given.env, given.flags, ConfigFile)
    BY DEF Next, vars, mainVars, startVars, Begin, Load, OpenPool, Migrate, ChooseRepository, Observe,
       CheckSubnet, Listen, Fatal, Finish, Wait, CloseService, CloseRepository, CloseAudit, ClosePool,
       Return, Closing, Mux, GRPC, HTTP, Receive, MuxAccept, MuxReturns, GRPCServe, GRPCAccept,
       GRPCReturns, HTTPServe, HTTPAccept, HTTPReturns, AcceptFails, ReceiveFirst, ServersReturn,
       ServerStep, Stopper, StopSignals, GracefulCloses, GracefulStop, ShutdownCloses, Shutdown,
       ShutdownTimesOut, StopperReturns, Stop, Signal, Connect, Speak, Arrive, Use, End, Refuse,
       Request, ClientStep, Outside, Ended
  <2>2. cfg'["FILE_STORAGE_PATH"] = ""
    BY DEF Repository
  <2> DEFINE a == given.env["FILE_STORAGE_PATH"]
             b == given.flags["FILE_STORAGE_PATH"]
             c == ConfigFile["FILE_STORAGE_PATH"]
  <2>3. "" = Or(a, Or(b, Or(c, "urls.json")))
    BY <2>1, <2>2 DEF Resolved, resolve, Settings, Defaults
  <2>4. PathSaid[1] = a /\ PathSaid[2] = b /\ PathSaid[3] = c
    BY DEF PathSaid
  <2> HIDE DEF a, b, c
  <2>5. \/ a = ""
        \/ a = Unset /\ b = ""
        \/ a = Unset /\ b = Unset /\ c = ""
    BY <2>3 DEF Or
  <2>6. SUFFICES \E k \in 1..3 : PathSaid[k] = "" /\ \A j \in 1..3 : j < k => PathSaid[j] = Unset
    BY DEF MemoryAskedFor
  <2> DEFINE said == PathSaid
  <2>7. said[1] = a /\ said[2] = b /\ said[3] = c
    BY <2>4
  <2> HIDE DEF said
  <2>9. \A j \in 1..3 : /\ ~(j < 1) /\ (j < 2 => j = 1) /\ (j < 3 => j = 1 \/ j = 2)
    OBVIOUS
  <2>10. \E k \in 1..3 : said[k] = "" /\ \A j \in 1..3 : j < k => said[j] = Unset
    <3>1. CASE a = ""
      <4>1. said[1] = "" /\ \A j \in 1..3 : j < 1 => said[j] = Unset
        BY <2>7, <2>9, <3>1
      <4>2. 1 \in 1..3
        OBVIOUS
      <4> WITNESS 1 \in 1..3
      <4>3. QED
        BY <4>1
    <3>2. CASE a = Unset /\ b = ""
      <4>1. said[2] = "" /\ \A j \in 1..3 : j < 2 => said[j] = Unset
        BY <2>7, <2>9, <3>2
      <4>2. 2 \in 1..3
        OBVIOUS
      <4> WITNESS 2 \in 1..3
      <4>3. QED
        BY <4>1
    <3>3. CASE a = Unset /\ b = Unset /\ c = ""
      <4>1. said[3] = "" /\ \A j \in 1..3 : j < 3 => said[j] = Unset
        BY <2>7, <2>9, <3>3
      <4>2. 3 \in 1..3
        OBVIOUS
      <4> WITNESS 3 \in 1..3
      <4>3. QED
        BY <4>1
    <3>4. QED
      BY <2>5, <3>1, <3>2, <3>3
  <2>11. QED
    BY <2>10 DEF said
<1>2. QED
  BY <1>1, PTL DEF Spec, VolatileOnlyIfAsked
----------------------------------------------------------------------------
(* No deadlock                                                             *)

\* The guards of the actions that fairness is assumed of, while the process runs
BeginFree == at \in Starting
FinishFree ==
  \/ at = "wait" /\ members = Both
  \/ at \in Ending \ {"close pool"}
  \/ at = "close pool" /\ ("pool" \in open => \A p \in Protocols : busy[p] # "using")
MuxFree ==
  \/ mux = "serving" /\ root \in {"broken", "closed"}
  \/ mux = "draining" /\ ~silent
GRPCFree ==
  \/ grpc = "new"
  \/ grpc = "serving" /\ Told
  \/ grpc = "left" /\ stopper # "closing"
HTTPFree == http \in {"new", "left"} \/ (http = "serving" /\ Told)
ReceiveFree ==
  \/ errCh # <<>> /\ root # "closed"
  \/ AllReceived /\ "servers" \notin members
StopperFree ==
  \/ stopper = "waiting" /\ Cancelled
  \/ stopper \in {"graceful", "shutdown"}
  \/ stopper = "closing" /\ grpc # "serving" /\ busy["rpc"] = "none"
  \/ stopper = "polling" /\ http \notin {"serving", "left"}
ServingFree == MuxFree \/ GRPCFree \/ HTTPFree \/ ReceiveFree \/ StopperFree
RequestFree == busy["rpc"] = "reading" \/ \E p \in Protocols : busy[p] = "using"

\* cmux waits for the first bytes of a connection.
Silence == at = "wait" /\ mux = "draining" /\ silent

\* From the start to the exit somebody can go on, but for servers that serve, until they
\* are told to stop, and for a silent connection.
NeverStuck ==
  Running /\ (Serving => Cancelled) =>
    BeginFree \/ FinishFree \/ (Serving /\ ServingFree) \/ RequestFree \/ Silence

\* The listener is closed by whoever has left it, and by the stopper of a server that
\* has it: what makes the Accept of every server fail.
Unlistened ==
  /\ grpc \in {"left", "sent", "refused"} => root = "closed"
  /\ http \in {"sent", "refused"} => root = "closed"
  /\ Quitting /\ grpc = "serving" => root = "closed"
  /\ ShuttingDown /\ http = "serving" => root = "closed"

LEMMA UnlistenedStep ==
  ASSUME IndInv, Unlistened, [Next]_vars
  PROVE  Unlistened'
<1> USE DEF Unlistened, Quitting, ShuttingDown
<1>1. CASE UNCHANGED <<root, grpc, http, stopper>>
  BY <1>1
<1>2. CASE Begin
  <2>1. root = "none" /\ UNCHANGED <<grpc, http, stopper>>
    BY <1>2 DEF Begin, Load, OpenPool, Migrate, ChooseRepository, Observe, CheckSubnet, Listen,
       Main, Fatal, serverVars, stopVars, IndInv, Stages, Starting
  <2>2. grpc = "new" /\ http = "new"
    BY <2>1 DEF IndInv, Stages
  <2>3. QED
    BY <2>1, <2>2
<1>3. CASE Finish
  <2>1. UNCHANGED <<root, grpc, http, stopper>>
    BY <1>3 DEF Finish, Wait, CloseService, CloseRepository, CloseAudit, ClosePool, Return,
       Closing, Main, serverVars, stopVars
  <2>2. QED
    BY <1>1, <2>1
<1>4. CASE Mux \/ GRPC \/ HTTP \/ Receive \/ AcceptFails
  BY <1>4 DEF Mux, GRPC, HTTP, Receive, MuxAccept, MuxReturns, GRPCServe, GRPCAccept, GRPCReturns,
     HTTPServe, HTTPAccept, HTTPReturns, AcceptFails, ReceiveFirst, ServersReturn, ServerStep,
     serverVars, stopVars, Quitting
<1>5. CASE Stopper
  BY <1>5 DEF Stopper, StopSignals, GracefulCloses, GracefulStop, ShutdownCloses, Shutdown,
     ShutdownTimesOut, StopperReturns, Stop, serverVars, IndInv, Types, StopTypes, ServerTypes
<1>6. CASE \/ Signal \/ Connect \/ Speak \/ Ended \/ UNCHANGED vars
           \/ \E p \in Protocols : Arrive(p) \/ Use(p) \/ End(p) \/ Refuse(p)
  <2>1. UNCHANGED <<root, grpc, http, stopper>>
    BY <1>6 DEF Signal, Connect, Speak, Ended, Arrive, Use, End, Refuse, Request, ClientStep,
       Outside, vars, serverVars, stopVars
  <2>2. QED
    BY <1>1, <2>1
<1>7. QED
  BY <1>2, <1>3, <1>4, <1>5, <1>6 DEF Next

\* A server that has the listener when it is closed leaves it.
LEMMA ClosedMeansLeft ==
  ASSUME root = "closed" \/ mux # "serving", grpc = "serving" \/ http = "serving"
  PROVE  MuxFree \/ GRPCFree \/ HTTPFree
BY DEF MuxFree, GRPCFree, HTTPFree, Told

\* The stopper waits for the calls over gRPC, and for the servers to leave the listener.
LEMMA StopperOrServersFree ==
  ASSUME IndInv, Unlistened, Cancelled, stopper # "done"
  PROVE  ServingFree \/ RequestFree
<1> USE DEF ServingFree, StopperFree
<1>1. CASE stopper = "closing"
  <2>1. CASE grpc = "serving"
    BY <1>1, <2>1, ClosedMeansLeft DEF Unlistened, Quitting
  <2>2. CASE busy["rpc"] # "none"
    BY <2>2 DEF RequestFree, IndInv, Types, ClientTypes, Protocols
  <2>3. QED
    BY <1>1, <2>1, <2>2
<1>2. CASE stopper = "polling"
  <2>1. CASE http = "serving"
    BY <1>2, <2>1, ClosedMeansLeft DEF Unlistened, ShuttingDown
  <2>2. CASE http = "left"
    BY <2>2 DEF HTTPFree
  <2>3. QED
    BY <1>2, <2>1, <2>2
<1>3. QED
  BY <1>1, <1>2 DEF IndInv, Types, StopTypes

\* When the stopper has returned, all servers return, or some connection is silent.
LEMMA ServersComeBack ==
  ASSUME IndInv, Unlistened, at = "wait", stopper = "done", "servers" \notin members
  PROVE  ServingFree \/ Silence
<1> SUFFICES ASSUME ~MuxFree, ~GRPCFree, ~HTTPFree, ~Silence
             PROVE  ReceiveFree
  BY DEF ServingFree
<1>1. grpc # "serving"
  BY ClosedMeansLeft DEF Unlistened, Quitting
<1>2. grpc \in {"sent", "refused"}
  BY <1>1 DEF GRPCFree, IndInv, Types, ServerTypes
<1>3. http \in {"sent", "refused"}
  BY ClosedMeansLeft DEF Unlistened, ShuttingDown, HTTPFree, IndInv, Types, ServerTypes
<1>4. mux = "sent"
  BY <1>2 DEF Unlistened, MuxFree, Silence, IndInv, Types, ServerTypes
<1>5. Len(errCh) = 3
  BY <1>2, <1>3, <1>4 DEF IndInv, Returned, One
<1>6. QED
  BY <1>5 DEF ReceiveFree, AllReceived

\* No deadlock: once a signal has come or a server has failed that run is told of, and
\* also before and after the servers run, main, a server or the stopper can go on, or a
\* request is under way that they wait for, or some connection has yet to say what it is.
THEOREM NeverStuckHolds == Spec => []NeverStuck
<1>1. Init => Unlistened
  BY DEF Init, Unlistened, Quitting, ShuttingDown
<1>2. IndInv /\ Unlistened /\ [Next]_vars => Unlistened'
  BY UnlistenedStep
<1>3. IndInv /\ Unlistened => NeverStuck
  <2> SUFFICES ASSUME IndInv, Unlistened, Running, Serving => Cancelled
               PROVE  \/ BeginFree \/ FinishFree \/ (Serving /\ ServingFree)
                      \/ RequestFree \/ Silence
    BY DEF NeverStuck
  <2>1. CASE at \in Starting
    BY <2>1 DEF BeginFree
  <2>2. CASE at \in Ending
    BY <2>2 DEF FinishFree, RequestFree
  <2>3. CASE at = "wait"
    <3>1. Serving /\ Cancelled
      BY <2>3 DEF Serving
    <3>2. CASE stopper # "done"
      BY <3>1, <3>2, StopperOrServersFree
    <3>3. CASE stopper = "done" /\ "servers" \notin members
      BY <2>3, <3>1, <3>3, ServersComeBack
    <3>4. CASE stopper = "done" /\ "servers" \in members
      <4>1. members = Both
        BY <3>4 DEF IndInv, Returned, Types, GroupTypes, Both
      <4>2. QED
        BY <2>3, <4>1 DEF FinishFree
    <3>5. QED
      BY <3>2, <3>3, <3>4
  <2>4. QED
    BY <2>1, <2>2, <2>3 DEF IndInv, Types, MainTypes
<1>4. QED
  BY IndInvariant, <1>1, <1>2, <1>3, PTL DEF Spec
=============================================================================
