---- MODULE ServerRuntime ----
(***************************************************************************)
(* FileServer.Serve and the signal context around it: the goroutine that   *)
(* serves, the goroutine that waits for a signal, the main goroutine that  *)
(* selects between them and shuts the server down, and the connections     *)
(* net/http keeps for their clients.                                       *)
(***************************************************************************)
EXTENDS Naturals, Sequences

CONSTANTS
    Conns,     \* connections that clients may open
    MaxSignals \* bound on the signals the process gets

ASSUME SignalsAssumption == MaxSignals \in Nat

VARIABLES
    main,         \* where the main goroutine is
    outcome,      \* what Serve returned
    watcher,      \* is the signal goroutine still waiting?
    pending,      \* signals in signalChannel, which holds one
    signals,      \* signals so far
    cancelled,    \* is the context of Serve done?
    listener,     \* where the serving goroutine is
    serveErr,     \* what ListenAndServe returned in it
    serverErrors, \* the channel that carries it, which holds one
    closing,      \* was Shutdown called?
    conns         \* the state of each connection

vars == <<main, outcome, watcher, pending, signals, cancelled, listener, serveErr,
          serverErrors, closing, conns>>
signalVars   == <<watcher, pending, signals, cancelled>>
listenerVars == <<listener, serveErr, serverErrors>>
mainVars     == <<main, outcome, closing>>

TypeOK ==
    /\ main \in {"setup", "configure", "select", "drain", "poll", "returned", "killed"}
    /\ outcome \in {"none", "ok", "error"}
    /\ watcher \in BOOLEAN
    /\ pending \in 0..1
    /\ signals \in 0..MaxSignals
    /\ cancelled \in BOOLEAN
    /\ listener \in {"none", "starting", "accepting", "returned", "ended"}
    /\ serveErr \in {"none", "closed", "failed"}
    /\ serverErrors \in {<< >>, <<"closed">>, <<"failed">>}
    /\ closing \in BOOLEAN
    /\ conns \in [Conns -> {"none", "new", "stale", "active", "idle", "hijacked", "closed"}]

Init ==
    /\ main = "setup"
    /\ outcome = "none"
    /\ watcher = FALSE
    /\ pending = 0
    /\ signals = 0
    /\ cancelled = FALSE
    /\ listener = "none"
    /\ serveErr = "none"
    /\ serverErrors = << >>
    /\ closing = FALSE
    /\ conns = [c \in Conns |-> "none"]

-----------------------------------------------------------------------------
(* Signals: createSignalContext *)

CreateSignalContext ==
    /\ main = "setup"
    /\ main' = "configure"
    /\ watcher' = TRUE
    /\ UNCHANGED <<outcome, pending, signals, cancelled, listenerVars, closing, conns>>

\* Mutant: the channel queues every signal.
SignalArrivesQueued ==
    /\ signals < MaxSignals
    /\ main # "killed"
    /\ signals' = signals + 1
    /\ \/ main \in {"setup", "returned"} /\ main' = "killed" /\ UNCHANGED pending
       \/ main \notin {"setup", "returned"} /\ pending' = pending + 1 /\ UNCHANGED main
    /\ UNCHANGED <<outcome, watcher, cancelled, listenerVars, closing, conns>>

\* Before Notify and after Stop a signal ends the process; in between it goes to the
\* channel, or is dropped when the channel is full.
SignalArrives ==
    /\ signals < MaxSignals
    /\ main # "killed"
    /\ signals' = signals + 1
    /\ \/ main \in {"setup", "returned"} /\ main' = "killed" /\ UNCHANGED pending
       \/ main \notin {"setup", "returned"} /\ pending' = 1 /\ UNCHANGED main
    /\ UNCHANGED <<outcome, watcher, cancelled, listenerVars, closing, conns>>

\* Mutant: the signal is read, the context stays open.
WatchSignalWithoutCancel ==
    /\ watcher /\ pending = 1
    /\ watcher' = FALSE
    /\ pending' = 0
    /\ UNCHANGED <<signals, cancelled, mainVars, listenerVars, conns>>

WatchSignal ==
    /\ watcher /\ pending = 1
    /\ watcher' = FALSE
    /\ pending' = 0
    /\ cancelled' = TRUE
    /\ UNCHANGED <<signals, mainVars, listenerVars, conns>>

-----------------------------------------------------------------------------
(* The main goroutine: Serve *)

\* The deferred cancel runs with every return: the signal goroutine ends too.
Return(result) ==
    /\ main' = "returned"
    /\ outcome' = result
    /\ watcher' = FALSE
    /\ cancelled' = TRUE
    /\ UNCHANGED <<pending, signals>>

ConfigureTLS ==
    /\ main = "configure"
    /\ \/ Return("error") /\ UNCHANGED listenerVars
       \/ /\ main' = "select"
          /\ listener' = "starting"
          /\ UNCHANGED <<outcome, signalVars, serveErr, serverErrors>>
    /\ UNCHANGED <<closing, conns>>

\* select, ctx.Done(): Shutdown marks the server and closes its listener.
SelectDone ==
    /\ main = "select"
    /\ cancelled
    /\ main' = "drain"
    /\ closing' = TRUE
    /\ UNCHANGED <<outcome, signalVars, listenerVars, conns>>

\* Mutant: the end of the server is never an error.
SelectErrorIgnored ==
    /\ main = "select"
    /\ serverErrors # << >>
    /\ serverErrors' = << >>
    /\ Return("ok")
    /\ UNCHANGED <<listener, serveErr, closing, conns>>

\* select, serverErrors: an error ends Serve, unless it says the server was closed.
SelectError ==
    /\ main = "select"
    /\ serverErrors # << >>
    /\ serverErrors' = << >>
    /\ Return(IF Head(serverErrors) = "closed" THEN "ok" ELSE "error")
    /\ UNCHANGED <<listener, serveErr, closing, conns>>

\* Shutdown waits until no listener is tracked, ...
AwaitListener ==
    /\ main = "drain"
    /\ listener # "accepting"
    /\ main' = "poll"
    /\ UNCHANGED <<outcome, closing, signalVars, listenerVars, conns>>

Quiet == {"none", "closed", "hijacked"}
CloseIdle == [c \in Conns |-> IF conns[c] \in {"idle", "stale"} THEN "closed" ELSE conns[c]]

\* Mutant: Close instead of Shutdown.
PollConnectionsOnce ==
    /\ main = "poll"
    /\ conns' = CloseIdle
    /\ Return("ok")
    /\ UNCHANGED <<listenerVars, closing>>

\* ... then closes idle connections until there is no other; hijacked ones are not its own.
PollConnections ==
    /\ main = "poll"
    /\ conns' = CloseIdle
    /\ IF \A c \in Conns : CloseIdle[c] \in Quiet
       THEN Return("ok")
       ELSE UNCHANGED <<main, outcome, signalVars>>
    /\ UNCHANGED <<listenerVars, closing>>

\* The grace period is over: the requests left are given up.
GraceExpires ==
    /\ main = "poll"
    /\ Return("error")
    /\ UNCHANGED <<listenerVars, closing, conns>>

-----------------------------------------------------------------------------
(* The serving goroutine *)

\* ListenAndServe: refused once Shutdown was called; the address may be in use.
Listen ==
    /\ listener = "starting"
    /\ \/ closing /\ listener' = "returned" /\ serveErr' = "closed"
       \/ ~closing /\ listener' = "accepting" /\ UNCHANGED serveErr
       \/ ~closing /\ listener' = "returned" /\ serveErr' = "failed"
    /\ UNCHANGED <<serverErrors, mainVars, signalVars, conns>>

\* Serve returns when its listener is closed, or fails.
StopAccepting ==
    /\ listener = "accepting"
    /\ listener' = "returned"
    /\ serveErr' = IF closing THEN "closed" ELSE "failed"
    /\ UNCHANGED <<serverErrors, mainVars, signalVars, conns>>

\* Mutant: only the end of the server is reported.
ReportErrorWhenClosed ==
    /\ listener = "returned"
    /\ listener' = "ended"
    /\ serverErrors' = IF serveErr = "closed" THEN <<serveErr>> ELSE << >>
    /\ UNCHANGED <<serveErr, mainVars, signalVars, conns>>

ReportError ==
    /\ listener = "returned"
    /\ listener' = "ended"
    /\ serverErrors' = Append(serverErrors, serveErr)
    /\ UNCHANGED <<serveErr, mainVars, signalVars, conns>>

-----------------------------------------------------------------------------
(* Connections, as net/http tracks them *)

Move(c, from, to) ==
    /\ main # "killed"
    /\ conns[c] \in from
    /\ \E state \in to : conns' = [conns EXCEPT ![c] = state]
    /\ UNCHANGED <<mainVars, signalVars, listenerVars>>

Accept(c)   == listener = "accepting" /\ Move(c, {"none"}, {"new"})
\* a connection that did not send a request for five seconds counts as idle
GoStale(c)  == Move(c, {"new"}, {"stale"})
Request(c)  == Move(c, {"new", "stale", "idle"}, {"active"})
\* no connection is kept alive once Shutdown was called
Respond(c)  == Move(c, {"active"}, IF closing THEN {"closed"} ELSE {"idle", "closed"})
HijackConn(c) == Move(c, {"active"}, {"hijacked"})
Leave(c)    == Move(c, {"new", "stale", "idle", "hijacked"}, {"closed"})

Connection(c) == \/ Accept(c) \/ GoStale(c) \/ Request(c) \/ Respond(c) \/ HijackConn(c)
                 \/ Leave(c)

-----------------------------------------------------------------------------
Main == \/ CreateSignalContext \/ ConfigureTLS \/ SelectDone \/ SelectError
        \/ AwaitListener \/ PollConnections
Listener == Listen \/ StopAccepting \/ ReportError

Next == \/ Main \/ SignalArrives \/ WatchSignal \/ GraceExpires \/ Listener
        \/ \E c \in Conns : Connection(c)

Spec == Init /\ [][Next]_vars

-----------------------------------------------------------------------------
(* Properties *)

Stopped == main \in {"returned", "killed"}

\* Serve returns without error after a signal only when no request it began to read is
\* unfinished.  A request that waits unread on an idle connection is not among these, nor an
\* upgrade, whose connection Shutdown has lost sight of.
NoRequestCut ==
    main = "returned" /\ outcome = "ok" => \A c \in Conns : conns[c] # "active"

\* Serve returns without error only when it was asked to stop: a listener that failed is
\* reported, unless a signal came first.
NilMeansAsked == outcome = "ok" => closing

\* A server that cannot listen, or stops accepting, ends the command.
StopsOnFailure == (serveErr = "failed") ~> Stopped
====
