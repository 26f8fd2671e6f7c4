----------------------------- MODULE ServiceLife -----------------------------
(***************************************************************************)
(* A service process from start to exit: ServiceStart, then the servers of *)
(* internal/platform/runtime/server.go under main.                         *)
(*                                                                         *)
(* RunHTTPAndGRPCServers (catalog-service, order-service) runs two server  *)
(* goroutines, RunHTTPServer (partner-service) one; each sends its result  *)
(* to the channel errs.  main waits for a result or for SIGTERM, stops the *)
(* servers within SHUTDOWN_TIMEOUT and returns, or ends in log.Fatal.      *)
(* The relay, dispatcher and consumer goroutines are not awaited: for them *)
(* the exit is the crash their own modules allow at every step.            *)
(*                                                                         *)
(* Calls are those of the service's API: gRPC, or HTTP for partner-service. *)
(* Beside gRPC the HTTP server only answers /healthz, at once.             *)
(***************************************************************************)
EXTENDS ServiceStart

VARIABLES
    kind,     \* "both" or "http": which of the two functions main calls
    srv       \* the servers of each serving process

lifeVars == <<startVars, kind, srv>>

Results == {"nil", "error"}

Servers ==
    [http     : {"new", "serving", "ended"},    \* the goroutine of the HTTP server
     grpc     : {"new", "serving", "ended"},    \* the goroutine of the gRPC server
     errs     : Seq(Results),                   \* the channel
     main     : {"select", "stopping", "closing", "drain"},
     onSignal : BOOLEAN,                        \* select took ctx.Done()
     read     : 0..1,                           \* results firstServerExit has read
     busy     : BOOLEAN,                        \* a call is being handled
     spent    : BOOLEAN,                        \* the shutdown budget is used up
     broke    : BOOLEAN,                        \* history: a server failed
     refused  : BOOLEAN]                        \* history: Serve came after GracefulStop

Fresh == [http |-> "new", grpc |-> IF kind = "both" THEN "new" ELSE "ended", errs |-> <<>>,
          main |-> "select", onSignal |-> FALSE, read |-> 0, busy |-> FALSE, spent |-> FALSE,
          broke |-> FALSE, refused |-> FALSE]

LifeInit ==
    /\ Init
    /\ kind \in {"both", "http"}
    /\ srv = [r \in Replicas |-> Fresh]

-----------------------------------------------------------------------------

Serving(r) == proc[r].pc = "serving"

Becomes(r, state) == srv' = [srv EXCEPT ![r] = state]

\* An HTTP listener is closed when Shutdown begins.
HTTPOpen(r) == srv[r].main \in {"select", "stopping"}

Leave(r, why) ==
    /\ Exit(r, why)
    /\ Becomes(r, Fresh)
    /\ UNCHANGED <<up, Database, boot, lock, faults>>

Stay == UNCHANGED startVars

-----------------------------------------------------------------------------
(* The server goroutines *)

\* Broken variant: a closed HTTP server sends nothing.
Bug_ClosedIsSilent(s) == [s EXCEPT !.http = "ended"]

\* ListenAndServe returns http.ErrServerClosed.
HTTPClosed(s) == [s EXCEPT !.http = "ended", !.errs = Append(s.errs, "nil")]

HTTPStarts(r) ==
    /\ srv[r].http = "new"
    /\ Becomes(r, IF HTTPOpen(r) THEN [srv[r] EXCEPT !.http = "serving"] ELSE HTTPClosed(srv[r]))
    /\ Stay

HTTPEnds(r) ==
    /\ srv[r].http = "serving"
    /\ ~HTTPOpen(r)
    /\ Becomes(r, HTTPClosed(srv[r]))
    /\ Stay

\* The port is taken, or accepting fails for good.
HTTPFails(r) ==
    /\ srv[r].http # "ended"
    /\ HTTPOpen(r)
    /\ Becomes(r, [srv[r] EXCEPT !.http = "ended", !.broke = TRUE,
                                 !.errs = Append(srv[r].errs, "error")])
    /\ Stay

\* Serve; after GracefulStop or Stop it returns grpc.ErrServerStopped.
GRPCStarts(r) ==
    /\ srv[r].grpc = "new"
    /\ \/ /\ srv[r].main \in {"select", "stopping"}
          /\ Becomes(r, [srv[r] EXCEPT !.grpc = "serving"])
       \/ /\ srv[r].main # "select"
          /\ Becomes(r, [srv[r] EXCEPT !.grpc = "ended", !.refused = TRUE,
                                       !.errs = Append(srv[r].errs, "error")])
    /\ Stay

GRPCFails(r) ==
    /\ srv[r].grpc = "serving"
    /\ srv[r].main = "select"
    /\ Becomes(r, [srv[r] EXCEPT !.grpc = "ended", !.broke = TRUE,
                                 !.errs = Append(srv[r].errs, "error")])
    /\ Stay

\* A request arrives at the open API server; its handler returns.
CallBegins(r) ==
    /\ srv[r].main = "select"
    /\ "serving" = IF kind = "both" THEN srv[r].grpc ELSE srv[r].http
    /\ ~srv[r].busy
    /\ Becomes(r, [srv[r] EXCEPT !.busy = TRUE])
    /\ Stay

CallEnds(r) ==
    /\ srv[r].busy
    /\ Becomes(r, [srv[r] EXCEPT !.busy = FALSE])
    /\ Stay

-----------------------------------------------------------------------------
(* RunHTTPAndGRPCServers, RunHTTPServer, shutdownServers, firstServerExit *)

\* A server ended by itself.  RunHTTPServer returns its error at once.
SelectExit(r) ==
    /\ srv[r].main = "select"
    /\ srv[r].errs # <<>>
    /\ IF kind = "both"
       THEN Becomes(r, [srv[r] EXCEPT !.main = "stopping", !.errs = Tail(srv[r].errs)]) /\ Stay
       ELSE Leave(r, "failed")

SelectSignal(r) ==
    /\ srv[r].main = "select"
    /\ proc[r].sig
    /\ Becomes(r, [srv[r] EXCEPT !.onSignal = TRUE,
                                 !.main = IF kind = "both" THEN "stopping" ELSE "closing"])
    /\ Stay

BudgetSpent(r) ==
    /\ srv[r].main = "stopping" \/ (srv[r].main = "closing" /\ kind = "http")
    /\ ~srv[r].spent
    /\ Becomes(r, [srv[r] EXCEPT !.spent = TRUE])
    /\ Stay

\* Broken variant: Stop instead of GracefulStop.
Bug_NoGrace(r) == srv[r].main = "stopping"

\* GracefulStop returns when no call is left; else the timer calls Stop.
GRPCStopped(r) == srv[r].main = "stopping" /\ (srv[r].busy => srv[r].spent)

StopGRPC(r) ==
    /\ GRPCStopped(r)
    /\ Becomes(r, IF srv[r].grpc = "serving"
                  THEN [srv[r] EXCEPT !.main = "closing", !.grpc = "ended",
                                      !.errs = Append(srv[r].errs, "nil")]
                  ELSE [srv[r] EXCEPT !.main = "closing"])
    /\ Stay

\* httpServer.Shutdown.
CloseHTTP(r) ==
    /\ srv[r].main = "closing"
    /\ kind = "http" => ~srv[r].busy
    /\ IF srv[r].onSignal
       THEN Becomes(r, [srv[r] EXCEPT !.main = "drain"]) /\ Stay
       ELSE Leave(r, "failed")

\* Its context ends first; RunHTTPServer returns that error.
CloseHTTPLate(r) ==
    /\ srv[r].main = "closing"
    /\ kind = "http" /\ srv[r].busy /\ srv[r].spent
    /\ Leave(r, "failed")

\* The first error decides; without one both results are read.
Drain(r) ==
    /\ srv[r].main = "drain"
    /\ srv[r].errs # <<>>
    /\ IF Head(srv[r].errs) = "error" THEN Leave(r, "failed")
       ELSE IF kind = "http" \/ srv[r].read = 1 THEN Leave(r, "stopped")
       ELSE Becomes(r, [srv[r] EXCEPT !.read = 1, !.errs = Tail(srv[r].errs)]) /\ Stay

MainStep(r) ==
    \/ HTTPStarts(r) \/ HTTPEnds(r) \/ GRPCStarts(r) \/ SelectExit(r) \/ SelectSignal(r)
    \/ BudgetSpent(r) \/ StopGRPC(r) \/ CloseHTTP(r) \/ CloseHTTPLate(r) \/ Drain(r)

ServerStep(r) ==
    /\ Serving(r)
    /\ \/ MainStep(r) \/ HTTPFails(r) \/ GRPCFails(r)
       \/ CallBegins(r) \/ CallEnds(r)
    /\ UNCHANGED kind

\* A step before the servers run, or an event of the environment.
Before(step) ==
    /\ step
    /\ srv' = [r \in Replicas |-> IF proc'[r].pc = "serving" THEN srv[r] ELSE Fresh]
    /\ UNCHANGED kind

LifeNext ==
    \/ Before(StartEnv)
    \/ \E r \in Replicas : Before(StartStep(r)) \/ ServerStep(r)

LifeSpec == LifeInit /\ [][LifeNext]_lifeVars

\* A live process goes on.  Nothing is said of its handlers: they may never return.
Fairness ==
    \A r \in Replicas :
        /\ WF_lifeVars(Before(StartStep(r)))
        /\ WF_lifeVars(Serving(r) /\ MainStep(r) /\ UNCHANGED kind)

FairSpec == LifeSpec /\ Fairness

-----------------------------------------------------------------------------
(* Properties *)

Ends(r) == Serving(r) /\ proc'[r].pc = "exited"

\* A process that stops when told to, and reports success, has let the calls it
\* was handling finish, unless the shutdown budget was used up; it reports a
\* failure only for a server that failed, an HTTP call that outlived the budget
\* of partner-service, or a gRPC server the signal overtook (server.go:130).
StopIsClean ==
    [][\A r \in Replicas : Ends(r) =>
         /\ proc'[r].why = "stopped" =>
               /\ srv[r].onSignal /\ ~srv[r].broke
               /\ srv[r].busy => srv[r].spent
         /\ proc'[r].why = "failed" =>
               srv[r].broke \/ srv[r].refused \/ (kind = "http" /\ srv[r].spent)]_lifeVars

\* Start-up ends: in a serving process or in an error, also if PostgreSQL never
\* comes (README "DB-сервисы ожидают готовность PostgreSQL до 30 секунд").
EveryStartEnds ==
    \A r \in Replicas : proc[r].pc = "ping" ~> proc[r].pc \in {"serving", "exited"}

\* A stop ends, whatever the handlers do: no result is waited for that nobody
\* sends, no shutdown waits for a call without a bound (README SHUTDOWN_TIMEOUT).
EveryStopEnds ==
    \A r \in Replicas : (Serving(r) /\ proc[r].sig) ~> proc[r].pc = "exited"
=============================================================================
