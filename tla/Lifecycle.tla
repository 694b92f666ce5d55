------------------------------ MODULE Lifecycle ------------------------------
(****************************************************************************)
(* The process from start to exit: run (cmd/https-echo-server/main.go),     *)
(* Server.Start and Server.Run (internal/server/server.go), the signals     *)
(* they react to and the connections of the two listeners.                  *)
(*                                                                          *)
(* net/http is external: Serve, Shutdown (its listener close, its polling   *)
(* loop and its deadline) and the states of a connection are modelled as    *)
(* Run relies on them.  Shutdown tracks no hijacked connection, and both    *)
(* WebSocket and h2c connections are hijacked.                              *)
(****************************************************************************)
EXTENDS Integers, Sequences

CONSTANTS
    Enabled,   \* the listeners configuration enables
    Conns      \* client connections, each used once

\* The order in which Start binds and Run shuts down.
Servers == <<"http", "https">>

Names == {"http", "https"}

ASSUME EnabledAssumption == Enabled \subseteq Names /\ Enabled # {}

VARIABLES
    main,        \* program point of the main goroutine
    cur,         \* the server Run's shutdown loop is at, 3 when it is over
    ln,          \* the listener of each server
    inShutdown,  \* http.Server.inShutdown
    conn,        \* the connections: server and net/http state
    errCh,       \* how many listener errors wait in Run's channel
    ctxDone,     \* the context of NotifyContext is cancelled
    timer,       \* shutdownCtx: "off", "armed" or "expired"
    forced,      \* shutdownErr # nil
    exit         \* "none", an exit code or "killed"

vars == <<main, cur, ln, inShutdown, conn, errCh, ctxDone, timer, forced, exit>>

-----------------------------------------------------------------------------
Alive == exit = "none"

Init ==
    /\ main = "new" /\ cur = 1
    /\ ln = [s \in Names |-> "off"]
    /\ inShutdown = [s \in Names |-> FALSE]
    /\ conn = [c \in Conns |-> [srv |-> "http", st |-> "none"]]
    /\ errCh = 0 /\ ctxDone = FALSE
    /\ timer = "off" /\ forced = FALSE
    /\ exit = "none"

\* Load, logging.New and server.New succeed.
NewServer ==
    /\ Alive /\ main = "new"
    /\ main' = "bind"
    /\ UNCHANGED <<cur, ln, inShutdown, conn, errCh, ctxDone, timer, forced, exit>>

\* --help or --version (0), a bad configuration (2), or server.New fails (1).
EarlyExit ==
    /\ Alive /\ main = "new"
    /\ main' = "over" /\ exit' \in {"0", "1", "2"}
    /\ UNCHANGED <<cur, ln, inShutdown, conn, errCh, ctxDone, timer, forced>>

\* The next listener Start binds.
Unbound(s) ==
    /\ s \in Enabled /\ ln[s] = "off"
    /\ s = "https" /\ "http" \in Enabled => ln["http"] # "off"

Bind(s) ==
    /\ Alive /\ main = "bind" /\ Unbound(s)
    /\ ln' = [ln EXCEPT ![s] = "bound"]
    /\ UNCHANGED <<main, cur, inShutdown, conn, errCh, ctxDone, timer, forced, exit>>

BindFails(s) ==
    /\ Alive /\ main = "bind" /\ Unbound(s)
    /\ main' = "over" /\ exit' = "1"
    /\ UNCHANGED <<cur, ln, inShutdown, conn, errCh, ctxDone, timer, forced>>

\* signal.NotifyContext, then Run spawns the serving goroutines.
Notify ==
    /\ Alive /\ main = "bind" /\ \A s \in Enabled : ln[s] = "bound"
    /\ main' = "select"
    /\ UNCHANGED <<cur, ln, inShutdown, conn, errCh, ctxDone, timer, forced, exit>>

Running == main \in {"select", "shutdown", "poll", "wait"}

\* SIGINT or SIGTERM: kills the process until NotifyContext has been called.
Signal ==
    /\ Alive
    /\ IF Running
       THEN ctxDone' = TRUE /\ UNCHANGED <<main, exit>>
       ELSE main' = "over" /\ exit' = "killed" /\ UNCHANGED ctxDone
    /\ UNCHANGED <<cur, ln, inShutdown, conn, errCh, timer, forced>>

\* A serving goroutine gets to run: Serve refuses once Shutdown was called.
Serve(s) ==
    /\ Alive /\ Running /\ ln[s] = "bound"
    /\ ln' = [ln EXCEPT ![s] = IF inShutdown[s] THEN "closed" ELSE "serving"]
    /\ UNCHANGED <<main, cur, inShutdown, conn, errCh, ctxDone, timer, forced, exit>>

\* Mutant: the goroutine serves again after the error.
MutServeFailsRetries(s) ==
    /\ Alive /\ ln[s] = "serving" /\ ~inShutdown[s]
    /\ errCh' = errCh + 1
    /\ UNCHANGED <<main, cur, ln, inShutdown, conn, ctxDone, timer, forced, exit>>

\* Serve returns another error than ErrServerClosed.
ServeFails(s) ==
    /\ Alive /\ ln[s] = "serving" /\ ~inShutdown[s]
    /\ ln' = [ln EXCEPT ![s] = "failed"]
    /\ errCh' = errCh + 1
    /\ UNCHANGED <<main, cur, inShutdown, conn, ctxDone, timer, forced, exit>>

\* Run's select takes the error; Run and run return.
SelectErr ==
    /\ Alive /\ main = "select" /\ errCh > 0
    /\ errCh' = errCh - 1
    /\ main' = "over" /\ exit' = "1"
    /\ UNCHANGED <<cur, ln, inShutdown, conn, ctxDone, timer, forced>>

\* Mutant: shutdownCtx has no timeout.
MutSelectDoneNoTimeout ==
    /\ Alive /\ main = "select" /\ ctxDone
    /\ main' = "shutdown"
    /\ UNCHANGED <<cur, ln, inShutdown, conn, errCh, ctxDone, timer, forced, exit>>

\* Run's select takes the signal.
SelectDone ==
    /\ Alive /\ main = "select" /\ ctxDone
    /\ main' = "shutdown" /\ timer' = "armed"
    /\ UNCHANGED <<cur, ln, inShutdown, conn, errCh, ctxDone, forced, exit>>

Expire ==
    /\ Alive /\ timer = "armed"
    /\ timer' = "expired"
    /\ UNCHANGED <<main, cur, ln, inShutdown, conn, errCh, ctxDone, forced, exit>>

Closed(s) == [ln EXCEPT ![s] = IF @ = "serving" THEN "closed" ELSE @]

\* srv.Shutdown up to its polling loop: the tracked listener is closed.
Shutdown ==
    /\ Alive /\ main = "shutdown" /\ cur \in 1..2
    /\ inShutdown' = [inShutdown EXCEPT ![Servers[cur]] = TRUE]
    /\ ln' = Closed(Servers[cur])
    /\ main' = "poll"
    /\ UNCHANGED <<cur, conn, errCh, ctxDone, timer, forced, exit>>

Of(s) == {c \in Conns : conn[c].srv = s}

\* closeIdleConns: idle connections, and new ones that sent nothing for 5 s, are
\* closed; the server has drained when no other is left.
Poll ==
    /\ Alive /\ main = "poll"
    /\ \E aged \in SUBSET {c \in Of(Servers[cur]) : conn[c].st = "new"} :
          LET closing == aged \union {c \in Of(Servers[cur]) : conn[c].st = "idle"}
              left == {c \in Of(Servers[cur]) : conn[c].st \in {"new", "active"}} \ aged
          IN  /\ conn' = [c \in Conns |-> IF c \in closing
                                          THEN [conn[c] EXCEPT !.st = "closed"]
                                          ELSE conn[c]]
              /\ IF left = {}
                 THEN cur' = cur + 1 /\ main' = "shutdown"
                 ELSE main' = "wait" /\ UNCHANGED cur
    /\ UNCHANGED <<ln, inShutdown, errCh, ctxDone, timer, forced, exit>>

\* Its poll timer fires.
PollAgain ==
    /\ Alive /\ main = "wait"
    /\ main' = "poll"
    /\ UNCHANGED <<cur, ln, inShutdown, conn, errCh, ctxDone, timer, forced, exit>>

\* Mutant: Shutdown does not wait for its deadline.
MutGiveUpEarly ==
    /\ Alive /\ main = "wait"
    /\ forced' = TRUE
    /\ cur' = cur + 1 /\ main' = "shutdown"
    /\ UNCHANGED <<ln, inShutdown, conn, errCh, ctxDone, timer, exit>>

\* shutdownCtx is over: Shutdown returns its error, the loop goes on.
GiveUp ==
    /\ Alive /\ main = "wait" /\ timer = "expired"
    /\ forced' = TRUE
    /\ cur' = cur + 1 /\ main' = "shutdown"
    /\ UNCHANGED <<ln, inShutdown, conn, errCh, ctxDone, timer, exit>>

\* Mutant: the errors of Shutdown are lost.
MutExitAlwaysZero ==
    /\ Alive /\ main = "shutdown" /\ cur = 3
    /\ main' = "over" /\ exit' = "0"
    /\ UNCHANGED <<cur, ln, inShutdown, conn, errCh, ctxDone, timer, forced>>

\* Run returns and with it run.
Exit ==
    /\ Alive /\ main = "shutdown" /\ cur = 3
    /\ main' = "over" /\ exit' = IF forced THEN "1" ELSE "0"
    /\ UNCHANGED <<cur, ln, inShutdown, conn, errCh, ctxDone, timer, forced>>

-----------------------------------------------------------------------------
(* Connections (external).                                                  *)

SetConn(c, st) ==
    /\ conn' = [conn EXCEPT ![c].st = st]
    /\ UNCHANGED <<main, cur, ln, inShutdown, errCh, ctxDone, timer, forced, exit>>

Accept(c, s) ==
    /\ Alive /\ ln[s] = "serving" /\ conn[c].st = "none"
    /\ conn' = [conn EXCEPT ![c] = [srv |-> s, st |-> "new"]]
    /\ UNCHANGED <<main, cur, ln, inShutdown, errCh, ctxDone, timer, forced, exit>>

\* A request arrives; its handler runs.
Request(c) == Alive /\ conn[c].st \in {"new", "idle"} /\ SetConn(c, "active")

\* The handler returns; a server in shutdown keeps no connection alive.
Respond(c) ==
    /\ Alive /\ conn[c].st = "active"
    /\ SetConn(c, IF inShutdown[conn[c].srv] THEN "closed" ELSE "idle")

\* A WebSocket upgrade, or h2c with prior knowledge, takes the connection over.
\* What happens on it afterwards, the requests of an h2c client included, is
\* unknown to the server and not followed here.
Hijack(c) == Alive /\ conn[c].st = "active" /\ SetConn(c, "hijacked")

ClientCloses(c) ==
    /\ Alive /\ conn[c].st \in {"new", "idle", "hijacked"}
    /\ SetConn(c, "closed")

-----------------------------------------------------------------------------
MainStep ==
    \/ NewServer \/ EarlyExit \/ (\E s \in Names : Bind(s) \/ BindFails(s)) \/ Notify
    \/ SelectErr \/ SelectDone \/ Shutdown \/ Poll \/ PollAgain \/ GiveUp \/ Exit

ConnStep(c) ==
    \/ (\E s \in Names : Accept(c, s)) \/ Request(c) \/ Respond(c) \/ Hijack(c)
    \/ ClientCloses(c)

Next ==
    \/ MainStep \/ Signal \/ Expire
    \/ (\E s \in Names : Serve(s) \/ ServeFails(s))
    \/ \E c \in Conns : ConnStep(c)

Spec == Init /\ [][Next]_vars

\* The main goroutine runs and the drain timer fires; when both timers of the
\* polling loop have fired its select cannot prefer one for ever.  Handlers and
\* clients owe nothing.
FairSpec == Spec /\ WF_vars(MainStep) /\ SF_vars(GiveUp) /\ WF_vars(Expire)

-----------------------------------------------------------------------------
(* Properties.                                                              *)

\* Every variable has its type; in particular Run's error channel never holds
\* more than its capacity (server.go:174), so that no serving goroutine blocks.
TypeOK ==
    /\ main \in {"new", "bind", "select", "shutdown", "poll", "wait", "over"}
    /\ cur \in 1..3 /\ (main \in {"poll", "wait"} => cur \in 1..2)
    /\ ln \in [Names -> {"off", "bound", "serving", "failed", "closed"}]
    /\ inShutdown \in [Names -> BOOLEAN]
    /\ conn \in [Conns -> [srv : Names,
                           st : {"none", "new", "active", "idle", "hijacked", "closed"}]]
    /\ errCh \in 0..2
    /\ ctxDone \in BOOLEAN /\ forced \in BOOLEAN
    /\ timer \in {"off", "armed", "expired"}
    /\ exit \in {"none", "0", "1", "2", "killed"}

Tracked(c) == conn[c].st \in {"new", "active", "idle"}

\* "It returns nil on a clean shutdown" (server.go:165-166): when the process
\* exits with 0 no connection either server tracks is left, neither one accepted
\* by the TLS listener while the plaintext server drained nor one that became
\* active between two polls.
CleanExitIsDrained == exit = "0" => \A c \in Conns : ~Tracked(c)

\* A request that is being handled, on a connection net/http tracks, when the
\* process ends was given the whole of SHUTDOWN_TIMEOUT, whichever server it came
\* through and however many of the two drains were slow, and the exit code says
\* so; only a listener that failed ends it sooner (server.go:192-211).  Nothing
\* is promised to requests on hijacked connections (h2c, WebSocket).
NoRequestCutEarly ==
    ~Alive /\ (\E c \in Conns : conn[c].st = "active") =>
        exit = "1" /\ (timer = "expired" \/ \E s \in Names : ln[s] = "failed")

\* A signal that finds Run started ends the process, whatever handlers and
\* clients do (server.go:192-214); so does a listener that fails.
SignalEnds == /\ ctxDone ~> exit \in {"0", "1"}
              /\ errCh > 0 ~> exit \in {"0", "1"}

Failed(s) == IF ln[s] = "failed" THEN 1 ELSE 0

Past(s) == cur = 3 \/ (s = "http" /\ cur = 2)

\* The inductive invariant behind CleanExitIsDrained and NoRequestCutEarly.  A
\* listener error in the channel belongs to a listener that failed; a server in
\* shutdown does not accept; a server the loop is past holds no tracked
\* connection unless its Shutdown gave up, which takes an expired deadline.
IndInv ==
    /\ TypeOK
    /\ errCh <= Failed("http") + Failed("https")
    /\ main \in {"new", "bind"} =>
          /\ \A s \in Names : ln[s] \in {"off", "bound"}
          /\ \A c \in Conns : conn[c].st = "none"
    /\ Alive => main # "over"
    /\ main \in {"new", "bind", "select"} => timer = "off" /\ ~forced
    /\ \A s \in Names : inShutdown[s] => ln[s] # "serving"
    /\ \A s \in Names : Past(s) => inShutdown[s]
    /\ main \in {"poll", "wait"} => inShutdown[Servers[cur]]
    /\ ~forced => \A c \in Conns : Past(conn[c].srv) => ~Tracked(c)
    /\ forced => timer = "expired"
    /\ CleanExitIsDrained
    /\ NoRequestCutEarly

\* "Graceful shutdown: on SIGINT/SIGTERM, stop accepting, drain" (docs/
\* specification.md:91): no connection is accepted while one server drains.
StopsAccepting ==
    [][\A c \in Conns : main \in {"poll", "wait"} /\ conn[c].st = "none"
                            => conn'[c].st = "none"]_vars
=============================================================================
