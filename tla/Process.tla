------------------------------- MODULE Process -------------------------------
(***************************************************************************)
(* A run of cmd/shortener, from its configuration to its exit: run in      *)
(* main.go and serveMultiplexed in grpc.go.  Three servers share a         *)
(* listener: cmux (mux) accepts connections and hands them to the gRPC and *)
(* to the HTTP server; a stopper waits for a signal, or for the servers to *)
(* fail; main waits for all of them and closes what it has opened.         *)
(*                                                                         *)
(* The servers' own code is library code.  They are modelled as far as     *)
(* run depends on them: when Serve, GracefulStop and Shutdown return, with *)
(* which error, and when they close the listener.  Requests are            *)
(* one for each protocol: it reads, uses the repository and ends.          *)
(* The definitions introduced as slips are mutations, not part of the      *)
(* specification.                                                          *)
(***************************************************************************)
EXTENDS Config, Naturals, Sequences

CONSTANTS
  Envs, FlagSets,   \* what the environment and the flags may give
  FileSets          \* what the configuration files may hold: path -> settings or Bad
CONSTANT Bad        \* a file that cannot be read, a url or a subnet that is none

ASSUME InputsAssumption ==
  /\ \A m \in Envs \cup FlagSets : DOMAIN m = Settings \cup {"CONFIG"}
  /\ \A env \in Envs, flags \in FlagSets, files \in FileSets :
       resolveConfigPath(env, flags) \in {""} \cup DOMAIN files
ASSUME BadAssumption == Bad # Unset /\ Bad \notin [Settings -> {Unset}]

VARIABLES
  given,            \* environment, flags and files, until they are read
  cfg,              \* the configuration
  at,               \* what main is about to do
  open,             \* what is open: "pool", "repo", "audit", "service"
  repo,             \* "none", "postgres", "file" or "memory"
  exit,             \* "no", "ok" (status 0), "failed" (status 1), or "killed"
  root,             \* the listener: "none", "open", "broken" or "closed"
  mux, grpc, http,  \* how far each Serve is
  errCh,            \* what they have returned, in this order
  members,          \* goroutines of the errgroup that have returned
  groupErr,         \* the first error of one of them
  stopper,          \* how far the stopper is
  lnerr,            \* what Shutdown got from closing the listener
  timedOut,         \* Shutdown gave up
  signalled,        \* a signal was received
  failed,           \* history: Accept has failed
  silent,           \* some connection has not sent its first bytes
  busy              \* the request of each protocol: "none", "reading" or "using"

startVars == <<given, cfg, repo>>
mainVars == <<startVars, at, open, exit>>
serverVars == <<mux, grpc, http, errCh>>
groupVars == <<members, groupErr>>
stopVars == <<stopper, lnerr, timedOut>>
clientVars == <<silent, busy>>
vars == <<mainVars, root, serverVars, groupVars, stopVars, signalled, failed, clientVars>>

Protocols == {"http", "rpc"}
Errors == {"nil", "ErrAccept", "ErrClosed", "ErrServerClosed", "ErrServerStopped"}

TypeOK ==
  /\ at \in {"load", "pool", "migrate", "choose", "observe", "subnet", "listen", "wait",
             "close service", "close repo", "close audit", "close pool", "return"}
  /\ open \subseteq {"pool", "repo", "audit", "service"}
  /\ repo \in {"none", "postgres", "file", "memory"}
  /\ exit \in {"no", "ok", "failed", "killed"}
  /\ root \in {"none", "open", "broken", "closed"}
  /\ mux \in {"serving", "draining", "sent"}
  /\ grpc \in {"new", "serving", "left", "sent", "refused"}
  /\ http \in {"new", "serving", "left", "sent", "refused"}
  /\ errCh \in Seq(Errors) /\ Len(errCh) <= 3
  /\ members \subseteq {"servers", "stopper"}
  /\ groupErr \in Errors \cup {"listen", "timeout"}
  /\ stopper \in {"waiting", "graceful", "closing", "shutdown", "polling", "done"}
  /\ lnerr \in Errors /\ timedOut \in BOOLEAN
  /\ signalled \in BOOLEAN /\ failed \in BOOLEAN /\ silent \in BOOLEAN
  /\ busy \in [Protocols -> {"none", "reading", "using"}]

Running == exit = "no"
Serving == at = "wait" /\ Running

Init ==
  /\ given \in [env : Envs, flags : FlagSets, files : FileSets]
  /\ cfg = Nothing /\ at = "load" /\ open = {} /\ repo = "none" /\ exit = "no"
  /\ root = "none"
  /\ mux = "serving" /\ grpc = "new" /\ http = "new" /\ errCh = <<>>
  /\ members = {} /\ groupErr = "nil"
  /\ stopper = "waiting" /\ lnerr = "nil" /\ timedOut = FALSE
  /\ signalled = FALSE /\ failed = FALSE
  /\ silent = FALSE /\ busy = [p \in Protocols |-> "none"]

----------------------------------------------------------------------------
(* run, up to its listener                                                 *)

\* The step of main at this point leads to the next; nothing else moves.
Main(from, to) ==
  /\ Running /\ at = from /\ at' = to
  /\ UNCHANGED <<serverVars, members, stopVars, signalled, failed, clientVars>>

\* logger.Fatal ends the process where it is.
Fatal(where) ==
  /\ Running /\ at = where /\ exit' = "failed"
  /\ UNCHANGED <<startVars, at, open, root, serverVars, groupVars, stopVars, signalled, failed,
                 clientVars>>

Opens(S) == open' = open \cup S
Closes(S) == open' = open \ S

AllRead == [env |-> Nothing, flags |-> Nothing, files |-> <<>>]

ConfigFile == loadFileConfig(resolveConfigPath(given.env, given.flags), given.files)

Load ==
  \/ /\ at = "load" /\ ConfigFile # Bad
     /\ cfg' = Resolved(given.env, given.flags, ConfigFile)
     /\ Main("load", IF cfg'["DATABASE_DSN"] # "" THEN "pool" ELSE "choose")
     /\ given' = AllRead /\ UNCHANGED <<open, repo, exit, root, groupErr>>
  \/ at = "load" /\ ConfigFile = Bad /\ Fatal("load")

OpenPool ==
  \/ Opens({"pool"}) /\ Main("pool", "migrate")
     /\ UNCHANGED <<startVars, exit, root, groupErr>>
  \/ Fatal("pool")

\* runMigrations
Migrate == \/ Main("migrate", "choose") /\ UNCHANGED <<startVars, open, exit, root, groupErr>>
           \/ Fatal("migrate")

Repository ==
  CASE cfg["DATABASE_DSN"] # "" -> "postgres" [] cfg["FILE_STORAGE_PATH"] # "" -> "file"
    [] OTHER -> "memory"

\* NewFileRepository may fail.
ChooseRepository ==
  \/ repo' = Repository /\ Opens({"repo"}) /\ Main("choose", "observe")
     /\ UNCHANGED <<given, cfg, exit, root, groupErr>>
  \/ Repository = "file" /\ Fatal("choose")

\* newAuditNotifier, and the service with its worker.  The file may not open, and the
\* url of the remote observer may be none.
Observe ==
  \/ cfg["AUDIT_URL"] # Bad
     /\ Opens({"service"} \cup (IF cfg["AUDIT_FILE"] # "" THEN {"audit"} ELSE {}))
     /\ Main("observe", "subnet") /\ UNCHANGED <<startVars, exit, root, groupErr>>
  \/ (cfg["AUDIT_FILE"] # "" \/ cfg["AUDIT_URL"] = Bad) /\ Fatal("observe")

\* NewTrustedSubnetChecker
CheckSubnet ==
  \/ cfg["TRUSTED_SUBNET"] # Bad /\ Main("subnet", "listen")
     /\ UNCHANGED <<startVars, open, exit, root, groupErr>>
  \/ cfg["TRUSTED_SUBNET"] = Bad /\ Fatal("subnet")

\* newListener; without one run returns at once, and only its deferred calls are made.
Listen ==
  \/ root' = "open" /\ Main("listen", "wait")
     /\ UNCHANGED <<startVars, open, exit, groupErr>>
  \/ groupErr' = "listen" /\ Main("listen", "close audit")
     /\ UNCHANGED <<startVars, open, exit, root>>

Begin == Load \/ OpenPool \/ Migrate \/ ChooseRepository \/ Observe \/ CheckSubnet \/ Listen

----------------------------------------------------------------------------
(* serveMultiplexed                                                        *)

ServerStep == Serving /\ UNCHANGED <<mainVars, stopVars, signalled, clientVars>>

\* cmux: Accept fails for good, and the servers' listeners are told.
MuxAccept ==
  /\ ServerStep /\ mux = "serving" /\ root \in {"broken", "closed"}
  /\ mux' = "draining"
  /\ UNCHANGED <<root, grpc, http, errCh, groupVars, failed>>

\* mux.Serve has waited for the first bytes of every connection.
MuxReturns ==
  /\ ServerStep /\ mux = "draining" /\ ~silent
  /\ mux' = "sent" /\ errCh' = Append(errCh, "ErrAccept")
  /\ UNCHANGED <<root, grpc, http, groupVars, failed>>

Told == mux # "serving"          \* Accept of the servers' listeners fails
Quitting == stopper # "waiting" /\ stopper # "graceful"

\* grpcSrv.Serve begins, too late if GracefulStop was called.
GRPCServe ==
  /\ ServerStep /\ grpc = "new"
  /\ IF Quitting THEN grpc' = "refused" /\ root' = "closed"
                      /\ errCh' = Append(errCh, "ErrServerStopped")
                 ELSE grpc' = "serving" /\ UNCHANGED <<root, errCh>>
  /\ UNCHANGED <<mux, http, groupVars, failed>>

\* Accept fails and the listener is closed.
GRPCAccept ==
  /\ ServerStep /\ grpc = "serving" /\ Told
  /\ grpc' = "left" /\ root' = "closed"
  /\ UNCHANGED <<mux, http, errCh, groupVars, failed>>

\* Serve returns nil, when GracefulStop is done, or the error.
GRPCReturns ==
  /\ ServerStep /\ grpc = "left" /\ (Quitting => stopper # "closing")
  /\ grpc' = "sent"
  /\ \/ Quitting /\ errCh' = Append(errCh, "nil")
     \/ errCh' = Append(errCh, "ErrServerClosed")
  /\ UNCHANGED <<root, mux, http, groupVars, failed>>

ShuttingDown == stopper \in {"polling", "done"}

HTTPServe ==
  /\ ServerStep /\ http = "new"
  /\ IF ShuttingDown THEN http' = "refused" /\ root' = "closed"
                          /\ errCh' = Append(errCh, "ErrServerClosed")
                     ELSE http' = "serving" /\ UNCHANGED <<root, errCh>>
  /\ UNCHANGED <<mux, grpc, groupVars, failed>>

\* Accept fails; Shutdown does not yet know.
HTTPAccept ==
  /\ ServerStep /\ http = "serving" /\ Told
  /\ http' = "left"
  /\ UNCHANGED <<root, mux, grpc, errCh, groupVars, failed>>

HTTPReturns ==
  /\ ServerStep /\ http = "left"
  /\ http' = "sent" /\ root' = "closed" /\ errCh' = Append(errCh, "ErrServerClosed")
  /\ UNCHANGED <<mux, grpc, groupVars, failed>>

\* The listener breaks by itself.
AcceptFails ==
  /\ ServerStep /\ mux = "serving" /\ root = "open"
  /\ root' = "broken" /\ failed' = TRUE
  /\ UNCHANGED <<serverVars, groupVars>>

\* The first error is received, and the listener closed.
ReceiveFirst ==
  /\ ServerStep /\ errCh # <<>> /\ root # "closed"
  /\ root' = "closed"
  /\ UNCHANGED <<serverVars, groupVars, failed>>

\* Slips: one goroutine is left behind; the filter is gone.
TwoReceived == Len(errCh) >= 2
Unfiltered(err) == err

AllReceived == Len(errCh) = 3

\* What the servers report when they are stopped is no error.
Filtered(err) == IF err = "ErrServerClosed" THEN "nil" ELSE err

\* errgroup keeps the first.
KeepFirst(err) == groupErr' = IF groupErr = "nil" THEN err ELSE groupErr

ServersReturn ==
  /\ ServerStep /\ AllReceived /\ "servers" \notin members
  /\ members' = members \cup {"servers"}
  /\ KeepFirst(Filtered(errCh[1]))
  /\ UNCHANGED <<root, serverVars, failed>>

----------------------------------------------------------------------------
(* The stopper                                                             *)

Cancelled == signalled \/ groupErr # "nil"

Stop(from, to) ==
  /\ Serving /\ stopper = from /\ stopper' = to
  /\ UNCHANGED <<mainVars, serverVars, signalled, failed, clientVars>>

\* groupCtx.Done: from now on signals have their default effect.
StopSignals == Cancelled /\ Stop("waiting", "graceful") /\ UNCHANGED <<root, groupVars, lnerr, timedOut>>

\* GracefulStop closes the listener, if the gRPC server has it.
GracefulCloses ==
  /\ Stop("graceful", "closing")
  /\ root' = IF grpc \in {"new", "refused"} THEN root ELSE "closed"
  /\ UNCHANGED <<groupVars, lnerr, timedOut>>

\* It has waited for Accept to fail, and for the calls.
GracefulStop ==
  /\ grpc # "serving" /\ busy["rpc"] = "none"
  /\ Stop("closing", "shutdown")
  /\ UNCHANGED <<root, groupVars, lnerr, timedOut>>

\* Shutdown closes the listener, if the HTTP server has it, for the second time.
ShutdownCloses ==
  /\ Stop("shutdown", "polling")
  /\ IF http \in {"serving", "left"}
       THEN lnerr' = (IF root = "closed" THEN "ErrClosed" ELSE "nil") /\ root' = "closed"
       ELSE UNCHANGED <<lnerr, root>>
  /\ UNCHANGED <<groupVars, timedOut>>

StopperReturns(err) ==
  /\ Stop("polling", "done") /\ http \notin {"serving", "left"}
  /\ members' = members \cup {"stopper"}
  /\ KeepFirst(err)
  /\ root' = IF err = "nil" THEN "closed" ELSE root
  /\ UNCHANGED lnerr

\* Slip: Shutdown does not wait for the requests.
Impatient == TRUE

\* Slip: the context of Shutdown does not end.
NoTimeout == FALSE

\* There is no request, and idle connections are closed.
Idle == busy["http"] = "none"
Timeout == busy["http"] # "none"

Shutdown == Idle /\ StopperReturns(lnerr) /\ UNCHANGED timedOut
ShutdownTimesOut == Timeout /\ StopperReturns("timeout") /\ timedOut' = TRUE

----------------------------------------------------------------------------
(* run, from g.Wait to the exit                                            *)

Closing(from, to, S) ==
  /\ Closes(S) /\ Main(from, to)
  /\ UNCHANGED <<startVars, exit, root, groupErr>>

Wait == members = {"servers", "stopper"} /\ Closing("wait", "close service", {})
CloseService == Closing("close service", "close repo", {"service"})

\* closeRepository, for those that have a Close
CloseRepository == Closing("close repo", "close audit", {"repo"})

CloseAudit == Closing("close audit", "close pool", {"audit"})

\* pool.Close waits for the connections that requests hold.
ClosePool ==
  /\ "pool" \in open => \A p \in Protocols : busy[p] # "using"
  /\ Closing("close pool", "return", {"pool"})

Return ==
  /\ Main("return", "return")
  /\ exit' = IF groupErr = "nil" THEN "ok" ELSE "failed"
  /\ UNCHANGED <<startVars, open, root, groupErr>>

Finish == Wait \/ CloseService \/ CloseRepository \/ CloseAudit \/ ClosePool \/ Return

----------------------------------------------------------------------------
(* Outside the program                                                     *)

Outside == Running /\ UNCHANGED <<startVars, at, open, root, serverVars, groupVars, stopVars, failed>>

\* While signal.NotifyContext is in force a signal is received; before and after, it
\* kills the process.
Signal ==
  /\ Outside /\ UNCHANGED clientVars
  /\ IF at = "wait" /\ stopper = "waiting"
       THEN signalled' = TRUE /\ UNCHANGED exit
       ELSE exit' = "killed" /\ UNCHANGED signalled

ClientStep == Outside /\ UNCHANGED <<exit, signalled>>

\* A connection is accepted and keeps silent; it speaks, or is gone.
Connect == ClientStep /\ at = "wait" /\ root = "open" /\ mux = "serving" /\ silent' = TRUE /\ UNCHANGED busy
Speak == ClientStep /\ silent /\ silent' = FALSE /\ UNCHANGED busy

\* Requests come over connections that are open, until GracefulStop, when Accept has
\* failed, asks the clients for no more, and Shutdown closes those that are idle.
Takes(p) ==
  IF p = "rpc" THEN /\ grpc \notin {"new", "refused"}
                    /\ stopper \in {"waiting", "graceful"} \/ (stopper = "closing" /\ grpc = "serving")
               ELSE http \notin {"new", "refused"} /\ stopper # "done"

Request(p, from, to) ==
  /\ ClientStep /\ busy[p] = from /\ busy' = [busy EXCEPT ![p] = to]
  /\ UNCHANGED silent

Arrive(p) == Takes(p) /\ Request(p, "none", "reading")
Use(p) == Request(p, "reading", "using")
End(p) == Request(p, "using", "none")
Refuse(p) == Request(p, "reading", "none")

----------------------------------------------------------------------------
(* The specification                                                       *)

Mux == MuxAccept \/ MuxReturns
GRPC == GRPCServe \/ GRPCAccept \/ GRPCReturns
HTTP == HTTPServe \/ HTTPAccept \/ HTTPReturns
Receive == ReceiveFirst \/ ServersReturn
Stopper == StopSignals \/ GracefulCloses \/ GracefulStop \/ ShutdownCloses \/ Shutdown
             \/ ShutdownTimesOut
Ended == ~Running /\ UNCHANGED vars

Next ==
  \/ Begin \/ Finish
  \/ Mux \/ GRPC \/ HTTP \/ Receive \/ AcceptFails
  \/ Stopper
  \/ Signal \/ Connect \/ Speak
  \/ \E p \in Protocols : Arrive(p) \/ Use(p) \/ End(p) \/ Refuse(p)
  \/ Ended

Spec == Init /\ [][Next]_vars

\* Goroutines run, the timer of Shutdown fires, and calls of the repository end.
\* Calls over gRPC are assumed to arrive in full, for nothing bounds them; requests
\* over HTTP and silent connections need not.
FairSpec ==
  /\ Spec
  /\ WF_vars(Begin) /\ WF_vars(Finish) /\ WF_vars(Stopper)
  /\ WF_vars(Mux) /\ WF_vars(GRPC) /\ WF_vars(HTTP) /\ WF_vars(Receive)
  /\ WF_vars(Use("rpc") \/ Refuse("rpc"))
  /\ \A p \in Protocols : WF_vars(End(p))
----------------------------------------------------------------------------
(* Properties                                                              *)

\* As long as some request is in flight, everything that it may need is open, and
\* the process does not end, unless Shutdown gave up or the process was killed.
NoneCutOff ==
  (\E p \in Protocols : busy[p] # "none") /\ ~timedOut /\ exit # "killed" =>
    /\ Running
    /\ {"service", "repo"} \subseteq open
    /\ cfg["DATABASE_DSN"] # "" => "pool" \in open
    /\ cfg["AUDIT_FILE"] # "" => "audit" \in open

\* A process that has served and then ends by itself has left nothing behind: the
\* three servers and the stopper have returned, and all that it opened is closed.
NothingLeft ==
  exit \in {"ok", "failed"} /\ root # "none" =>
    /\ mux = "sent" /\ grpc \in {"sent", "refused"} /\ http \in {"sent", "refused"}
    /\ stopper = "done"
    /\ open = {}

\* Shutdown, or mux before the other servers, or a gRPC server that had not yet begun,
\* found the listener closed by GracefulStop.
ClosedTwice == lnerr # "nil" \/ errCh[1] \in {"ErrAccept", "ErrServerStopped"}

\* Status 0 is never the end of a process whose servers failed and that nobody
\* stopped; and one that was stopped by a signal reports a failure only if Shutdown
\* gave up, or in one of the races over the closed listener.
ExitStatus ==
  /\ exit = "ok" => signalled
  /\ exit = "failed" /\ root # "none" => timedOut \/ ClosedTwice

\* What the environment, the flags and the file say of the path
PathSaid == [k \in 1..3 |-> <<given.env, given.flags, ConfigFile>>[k]["FILE_STORAGE_PATH"]]

MemoryAskedFor ==
  \E k \in 1..3 : PathSaid[k] = "" /\ \A j \in 1..3 : j < k => PathSaid[j] = Unset

\* Links are kept in memory, and lost with the process, only if the strongest source
\* that has a say asks for it with an empty path: environment, flags, file.
VolatileOnlyIfAsked ==
  [][cfg' # cfg /\ Repository' = "memory" => MemoryAskedFor]_vars

\* After a signal, or the failure of a server that run is told of, the process ends,
\* even if requests over HTTP do not, unless some connection never says what it is.
StopsInTheEnd == Serving /\ Cancelled ~> ~Running \/ silent
=============================================================================
