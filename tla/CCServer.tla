----------------------------- MODULE CCServer ------------------------------
(***************************************************************************)
(* The lifecycle of the gaea-cc admin server (src/cc/server.go): Run, its  *)
(* serve goroutine, and Close, which the program calls from another        *)
(* goroutine to stop it.  The channels exitC and errC are unbuffered: a    *)
(* send completes only together with a receive.  The HTTP handlers are     *)
(* request-to-response functions over the external config store and are   *)
(* left out.  log.Fatal, the xlog logger's, writes a line and returns.     *)
(***************************************************************************)
EXTENDS Naturals

CONSTANTS
    MaxCloseCalls,  \* how many times the program may call Close
    MaxConns        \* bound on the admin client connections open at once

VARIABLES
    run,       \* Run: "new" (NewServer returned), "select", "returned"
    serve,     \* the serve goroutine: "none", "serving", "sending" (on errC), "done"
    listener,  \* "open" from NewServer's net.Listen, "closed" by Run's defer
    closers,   \* Close calls blocked on exitC <- struct{}{}
    closed,    \* Close calls that have returned
    conns      \* accepted connections, each served by its own goroutine

vars == <<run, serve, listener, closers, closed, conns>>

Init ==
    /\ run = "new"
    /\ serve = "none"
    /\ listener = "open"
    /\ closers = 0
    /\ closed = 0
    /\ conns = 0

\* Run: start the serve goroutine (http.Server over the listener), then
\* block in the select.
RunStart ==
    /\ run = "new"
    /\ run' = "select" /\ serve' = "serving"
    /\ UNCHANGED <<listener, closers, closed, conns>>

\* hs.Serve(l) accepts a connection and serves it in a goroutine of its own.
Accept ==
    /\ serve = "serving" /\ listener = "open" /\ conns < MaxConns
    /\ conns' = conns + 1
    /\ UNCHANGED <<run, serve, listener, closers, closed>>

\* A client hangs up; its connection goroutine ends.  Nothing else ends it:
\* the http.Server is never shut down.
Hangup ==
    /\ conns > 0
    /\ conns' = conns - 1
    /\ UNCHANGED <<run, serve, listener, closers, closed>>

\* hs.Serve(l) returns an accept error while the listener is open.
ServeFails ==
    /\ serve = "serving" /\ listener = "open"
    /\ serve' = "sending"
    /\ UNCHANGED <<run, listener, closers, closed, conns>>

\* hs.Serve(l) returns because the listener was closed.
ServeSeesClose ==
    /\ serve = "serving" /\ listener = "closed"
    /\ serve' = "sending"
    /\ UNCHANGED <<run, listener, closers, closed, conns>>

\* Close: s.exitC <- struct{}{}, blocking until someone receives.
CloseCall ==
    /\ closers + closed < MaxCloseCalls
    /\ closers' = closers + 1
    /\ UNCHANGED <<run, serve, listener, closed, conns>>

\* The select takes exitC: "server exit.", return, listener.Close().
RunRecvExit ==
    /\ run = "select" /\ closers > 0
    /\ run' = "returned" /\ listener' = "closed"
    /\ closers' = closers - 1 /\ closed' = closed + 1
    /\ UNCHANGED <<serve, conns>>

\* The select takes errC: log.Fatal, return, listener.Close().
RunRecvErr ==
    /\ run = "select" /\ serve = "sending"
    /\ run' = "returned" /\ serve' = "done" /\ listener' = "closed"
    /\ UNCHANGED <<closers, closed, conns>>

Next ==
    \/ RunStart \/ Accept \/ Hangup \/ ServeFails \/ ServeSeesClose
    \/ CloseCall \/ RunRecvExit \/ RunRecvErr

\* The Go scheduler runs every runnable goroutine: Run, once called, and the
\* serve goroutine make progress (Serve returns once its listener is
\* closed), and a channel operation whose partner is ready completes.  When
\* the program calls Close, when clients connect or hang up and whether
\* accept fails are not up to the server.
Fairness ==
    /\ WF_vars(RunStart) /\ WF_vars(ServeSeesClose)
    /\ WF_vars(RunRecvExit) /\ WF_vars(RunRecvErr)

Spec == Init /\ [][Next]_vars /\ Fairness

-----------------------------------------------------------------------------
\* Run does not outlive what it waits for: once Close is blocked on exitC
\* or the serve goroutine on errC, Run eventually returns and closes the
\* listener.
RunStops == (closers > 0 \/ serve = "sending") ~> (run = "returned" /\ listener = "closed")

\* A call of Close returns: the program's shutdown does not hang on exitC.
CloseReturns == \A n \in 1 .. MaxCloseCalls : (closers + closed >= n) ~> (closed >= n)

\* No goroutine is left behind: once Run has returned, the serve goroutine
\* eventually finishes too.
ServeGoroutineEnds == (run = "returned") ~> (serve = "done")

=============================================================================
