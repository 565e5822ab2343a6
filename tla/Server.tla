------------------------------- MODULE Server -------------------------------
(***************************************************************************)
(* The server: the listening coroutine (asyncListen, asyncListenTls) runs  *)
(* on the thread pool, stop() on an application thread or in a handler.    *)
(* Both use the one acceptor object; each call on it is one step, so every *)
(* interleaving of a stop() with a listen() in progress is a behaviour of  *)
(* this module.                                                            *)
(*                                                                         *)
(* co_spawn on the executor one already runs on starts the new coroutine   *)
(* at once, inside the caller, up to its first wait.  A plain connection   *)
(* never waits: its handler is called by the listening coroutine, which    *)
(* goes on when the handler returns.  A TLS connection is set up inside    *)
(* the listening coroutine as far as the first wait of its handshake, and  *)
(* is a coroutine of its own from there on.                                *)
(***************************************************************************)
EXTENDS Integers, FiniteSets

CONSTANTS
  Clients,     \* connections clients may open
  NoClient,    \* no connection
  MaxListens,  \* bound: calls of listen() or listenTls()
  MaxStops,    \* bound: calls of stop()
  MaxRounds    \* bound: rounds of a TLS handshake

ASSUME BoundsAssumption == MaxListens \in Nat /\ MaxStops \in Nat /\ MaxRounds \in Nat
ASSUME ClientsAssumption == IsFiniteSet(Clients) /\ NoClient \notin Clients

VARIABLES
  stopRequested,  \* ServerBase::_stop_requested
  acceptor,       \* the acceptor: "closed", "open" or "listening"
  listener,       \* the listening coroutine: mode: listen or listenTls; pc: its
                  \* next step, "idle" without a frame; client: the connection
                  \* it is busy with; result: what the last call returned;
                  \* called: "fresh" on a closed acceptor before any stop(),
                  \* else "again";
                  \* late: connections it took with the stop flag set
  stopper,        \* where the thread in stop() is
  conn,           \* [Clients -> where the connection is]
  timer,          \* [Clients -> hs_timer: off, armed, its handler queued, spent]
  rounds,         \* bound: rounds of the handshake of each client
  alive,          \* the Server object has not been destroyed
  listens,        \* bound: calls of listen so far
  stops           \* bound: calls of stop so far

handshakes == <<timer, rounds>>
vars == <<stopRequested, acceptor, listener, stopper, conn, handshakes, alive, listens, stops>>

Modes == {"plain", "tls"}
SetupSteps == {"open", "option", "bind", "listen", "context"}
LoopSteps == {"check", "initiate", "waiting", "aborted", "broken"}
HeldSteps == {"accepted", "tls", "handshake", "serving"}   \* busy with a connection

-----------------------------------------------------------------------------
(* The listening coroutine.                                                *)

StartListen(mode) ==
  /\ alive
  /\ listener.pc = "idle"
  /\ listens < MaxListens
  /\ listens' = listens + 1
  /\ listener' = [mode |-> mode, pc |-> "open", client |-> NoClient,
                  result |-> "none", late |-> 0,
                  called |-> IF acceptor = "closed" /\ ~stopRequested THEN "fresh"
                             ELSE "again"]
  /\ UNCHANGED <<stopRequested, acceptor, stopper, conn, handshakes, alive, stops>>

ListenReturns(result) ==
  listener' = [listener EXCEPT !.pc = "idle", !.client = NoClient, !.result = result]

Goto(pc) == listener' = [listener EXCEPT !.pc = pc]

\* open, set_option, bind, listen: opening fails on an acceptor that is already
\* open, the others on one that is closed, and each of them may fail in the
\* operating system (a port in use).  The acceptor is left as it is.
Open ==
  /\ listener.pc = "open"
  /\ acceptor = "closed"
  /\ acceptor' = "open"
  /\ Goto("option")
  /\ UNCHANGED <<stopRequested, stopper, conn, handshakes, alive, listens, stops>>

SetOption ==
  /\ listener.pc = "option"
  /\ acceptor # "closed"
  /\ Goto("bind")
  /\ UNCHANGED <<stopRequested, acceptor, stopper, conn, handshakes, alive, listens, stops>>

Bind ==
  /\ listener.pc = "bind"
  /\ acceptor # "closed"
  /\ Goto("listen")
  /\ UNCHANGED <<stopRequested, acceptor, stopper, conn, handshakes, alive, listens, stops>>

Listen ==
  /\ listener.pc = "listen"
  /\ acceptor # "closed"
  /\ acceptor' = "listening"
  /\ Goto(IF listener.mode = "tls" THEN "context" ELSE "check")
  /\ UNCHANGED <<stopRequested, stopper, conn, handshakes, alive, listens, stops>>

SetupFails ==
  /\ listener.pc \in {"open", "option", "bind", "listen"}
  /\ ListenReturns("create_failed")
  /\ UNCHANGED <<stopRequested, acceptor, stopper, conn, handshakes, alive, listens, stops>>

\* createTlsContextWrapper, after the acceptor was set up
CreateContext ==
  /\ listener.pc = "context"
  /\ \/ Goto("check")
     \/ ListenReturns("tls_failed")
  /\ UNCHANGED <<stopRequested, acceptor, stopper, conn, handshakes, alive, listens, stops>>

\* Mutant: the flag is not looked at.
CheckStoppedNot ==
  /\ listener.pc = "check"
  /\ Goto("initiate")
  /\ UNCHANGED <<stopRequested, acceptor, stopper, conn, handshakes, alive, listens, stops>>

\* while (!isStopped())
CheckStopped ==
  /\ listener.pc = "check"
  /\ IF stopRequested THEN ListenReturns("ok") ELSE Goto("initiate")
  /\ UNCHANGED <<stopRequested, acceptor, stopper, conn, handshakes, alive, listens, stops>>

\* async_accept; on a closed acceptor it completes with bad_descriptor.
Initiate ==
  /\ listener.pc = "initiate"
  /\ Goto(IF acceptor = "listening" THEN "waiting" ELSE "aborted")
  /\ UNCHANGED <<stopRequested, acceptor, stopper, conn, handshakes, alive, listens, stops>>

\* The kernel hands over a connection, or reports an error of its own.
KernelAccept(c) ==
  /\ listener.pc = "waiting"
  /\ conn[c] = "backlog"
  /\ conn' = [conn EXCEPT ![c] = "taken"]
  /\ listener' = [listener EXCEPT !.pc = "accepted", !.client = c,
                                  !.late = @ + IF stopRequested THEN 1 ELSE 0]
  /\ UNCHANGED <<stopRequested, acceptor, stopper, handshakes, alive, listens, stops>>

KernelAcceptError ==
  /\ listener.pc = "waiting"
  /\ Goto("broken")
  /\ UNCHANGED <<stopRequested, acceptor, stopper, conn, handshakes, alive, listens, stops>>

\* The accept completes: operation_aborted and bad_descriptor end the loop with
\* success, other errors with an error.
AcceptEnds ==
  /\ \/ listener.pc = "aborted" /\ ListenReturns("ok")
     \/ listener.pc = "broken" /\ ListenReturns("accept_failed")
  /\ UNCHANGED <<stopRequested, acceptor, stopper, conn, handshakes, alive, listens, stops>>

\* applyPreConnectTcpOptions fails for one of the options: the connection is
\* dropped and the whole loop ends.
TcpOptionFails ==
  /\ conn' = [conn EXCEPT ![listener.client] = "dropped"]
  /\ ListenReturns("option_error")

\* acceptPlainSocket, and the coroutine it spawns in turn: the client handler is
\* called, and this coroutine is held until it returns.
AcceptPlainSocket ==
  /\ conn' = [conn EXCEPT ![listener.client] = "handling"]
  /\ Goto("serving")

\* Mutant: the connection is kept open, with nobody to use it, when an option
\* fails.
AcceptedLeaks ==
  /\ listener.pc = "accepted"
  /\ \/ listener.mode = "plain" /\ AcceptPlainSocket
     \/ listener.mode = "tls" /\ Goto("tls") /\ UNCHANGED conn
     \/ UNCHANGED conn /\ ListenReturns("option_error")
  /\ UNCHANGED <<stopRequested, acceptor, stopper, handshakes, alive, listens, stops>>

\* A connection was accepted: its options are set and its coroutine is started
\* inside this one.
Accepted ==
  /\ listener.pc = "accepted"
  /\ \/ listener.mode = "plain" /\ AcceptPlainSocket
     \/ listener.mode = "tls" /\ Goto("tls") /\ UNCHANGED conn
     \/ TcpOptionFails
  /\ UNCHANGED <<stopRequested, acceptor, stopper, handshakes, alive, listens, stops>>

\* The listening coroutine goes on to its next connection.
Release == listener' = [listener EXCEPT !.pc = "check", !.client = NoClient]

\* applyPreConnectTlsOptions fails for one of the options.
TlsOptionFails ==
  /\ conn' = [conn EXCEPT ![listener.client] = "dropped"]
  /\ Release
  /\ UNCHANGED timer


\* acceptTlsSocket: the stream is made with the context and the options of the
\* listening coroutine, and hs_timer runs from here on.
AcceptTlsSocket ==
  /\ listener.pc = "tls"
  /\ \/ TlsOptionFails
     \/ /\ conn' = [conn EXCEPT ![listener.client] = "armed"]
        /\ timer' = [timer EXCEPT ![listener.client] = "armed"]
        /\ Goto("handshake")
  /\ UNCHANGED <<stopRequested, acceptor, stopper, rounds, alive, listens, stops>>

\* async_handshake waits for the client, and the listening coroutine goes on.
BeginHandshake ==
  /\ listener.pc = "handshake"
  /\ conn' = [conn EXCEPT ![listener.client] = "pending"]
  /\ Release
  /\ UNCHANGED <<stopRequested, acceptor, stopper, handshakes, alive, listens, stops>>

-----------------------------------------------------------------------------
(* stop(): ServerBase::stop stores the flag and cancels, ignoring errors;  *)
(* Server::stop then cancels and closes with the throwing overloads.       *)

\* Pending accepts complete with operation_aborted.
AbortAccept ==
  listener' = IF listener.pc = "waiting" THEN [listener EXCEPT !.pc = "aborted"]
                                         ELSE listener

StopStore ==
  /\ alive
  /\ stopper \in {"idle", "returned", "threw"}
  /\ stops < MaxStops
  /\ stops' = stops + 1
  /\ stopRequested' = TRUE
  /\ stopper' = "base_cancel"
  /\ UNCHANGED <<acceptor, listener, conn, handshakes, alive, listens>>

StopBaseCancel ==
  /\ stopper = "base_cancel"
  /\ IF acceptor # "closed" THEN AbortAccept ELSE UNCHANGED listener
  /\ stopper' = "cancel"
  /\ UNCHANGED <<stopRequested, acceptor, conn, handshakes, alive, listens, stops>>

StopCancel ==
  /\ stopper = "cancel"
  /\ IF acceptor # "closed"
     THEN AbortAccept /\ stopper' = "close"
     ELSE stopper' = "threw" /\ UNCHANGED listener
  /\ UNCHANGED <<stopRequested, acceptor, conn, handshakes, alive, listens, stops>>

\* Closing resets the connections in the backlog, and aborts a pending accept.
CloseAcceptor ==
  /\ acceptor' = "closed"
  /\ conn' = [c \in Clients |-> IF conn[c] = "backlog" THEN "refused" ELSE conn[c]]

\* Mutant: closing leaves an accept started since the cancel pending.
StopCloseNoAbort ==
  /\ stopper = "close"
  /\ CloseAcceptor
  /\ stopper' = "returned"
  /\ UNCHANGED <<stopRequested, listener, handshakes, alive, listens, stops>>

\* Mutant: stop() does not close the acceptor, like ServerBase::stop.
StopNoClose ==
  /\ stopper = "close"
  /\ AbortAccept
  /\ stopper' = "returned"
  /\ UNCHANGED <<stopRequested, acceptor, conn, handshakes, alive, listens, stops>>

StopClose ==
  /\ stopper = "close"
  /\ CloseAcceptor
  /\ AbortAccept
  /\ stopper' = "returned"
  /\ UNCHANGED <<stopRequested, handshakes, alive, listens, stops>>

\* ~ServerBase is defaulted: it destroys the acceptor and nothing else.  The
\* application destroys the server when no call of it is running.
Destroy ==
  /\ alive
  /\ listener.pc = "idle"
  /\ stopper \in {"idle", "returned", "threw"}
  /\ alive' = FALSE
  /\ CloseAcceptor
  /\ UNCHANGED <<stopRequested, listener, stopper, handshakes, listens, stops>>

-----------------------------------------------------------------------------
(* Clients, TLS handshakes and handlers.                                   *)

Connect(c) ==
  /\ conn[c] = "none"
  /\ acceptor = "listening"
  /\ conn' = [conn EXCEPT ![c] = "backlog"]
  /\ UNCHANGED <<stopRequested, acceptor, listener, stopper, handshakes, alive, listens, stops>>

Others == <<stopRequested, acceptor, listener, stopper, alive, listens, stops>>

\* What the handshake waits for arrives, and it waits again if it needs more.
PeerMoves(c) ==
  /\ conn[c] = "pending"
  /\ conn' = [conn EXCEPT ![c] = "round"]
  /\ UNCHANGED <<handshakes, Others>>

NextRound(c) ==
  /\ conn[c] = "round" /\ rounds[c] < MaxRounds
  /\ conn' = [conn EXCEPT ![c] = "pending"]
  /\ rounds' = [rounds EXCEPT ![c] = @ + 1]
  /\ UNCHANGED <<timer, Others>>

\* The handshake is over: hs_timer is cancelled, unless its handler is already on
\* its way, and the handler of this->clientHandler() is called, or, after a
\* failure or the timeout, the connection is dropped.
EndHandshake(c) ==
  /\ \/ conn[c] = "round" /\ conn' = [conn EXCEPT ![c] = "handling"]
     \/ conn[c] \in {"round", "aborted"} /\ conn' = [conn EXCEPT ![c] = "dropped"]
  /\ timer' = [timer EXCEPT ![c] = IF @ = "armed" THEN "off" ELSE @]
  /\ UNCHANGED <<rounds, Others>>

TimerExpires(c) ==
  /\ timer[c] = "armed"
  /\ timer' = [timer EXCEPT ![c] = "queued"]
  /\ UNCHANGED <<conn, rounds, Others>>

\* The connection's coroutine is in its handshake, with hs_timer in its frame.
InHandshake(c) == conn[c] \in {"armed", "pending", "round", "aborted"}

\* The handler of hs_timer: cancel() ends a handshake that waits.  When it runs
\* before the handshake has started to wait, or between two waits, it cancels
\* nothing, and there is no second timer.  When the coroutine has ended meanwhile,
\* the handler uses a frame that is gone: nothing happens, or another handshake,
\* whose frame took the place, is cancelled.
TimerHandler(c) ==
  /\ timer[c] = "queued"
  /\ timer' = [timer EXCEPT ![c] = "spent"]
  /\ \/ conn[c] = "pending" /\ conn' = [conn EXCEPT ![c] = "aborted"]
     \/ conn[c] # "pending" /\ UNCHANGED conn
     \/ /\ ~InHandshake(c)
        /\ \E d \in Clients : conn[d] = "pending" /\ conn' = [conn EXCEPT ![d] = "aborted"]
  /\ UNCHANGED <<rounds, Others>>

\* The client handler returns; that of a plain connection to the listening
\* coroutine.
HandlerReturns(c) ==
  /\ conn[c] = "handling"
  /\ conn' = [conn EXCEPT ![c] = "done"]
  /\ IF listener.client = c THEN Release ELSE UNCHANGED listener
  /\ UNCHANGED <<stopRequested, acceptor, stopper, handshakes, alive, listens, stops>>

-----------------------------------------------------------------------------

Init ==
  /\ stopRequested = FALSE
  /\ acceptor = "closed"
  /\ listener = [mode |-> "plain", pc |-> "idle", client |-> NoClient,
                 result |-> "none", late |-> 0, called |-> "fresh"]
  /\ stopper = "idle"
  /\ conn = [c \in Clients |-> "none"]
  /\ timer = [c \in Clients |-> "off"]
  /\ rounds = [c \in Clients |-> 0]
  /\ alive = TRUE
  /\ listens = 0
  /\ stops = 0

ListenerStep ==
  \/ Open \/ SetOption \/ Bind \/ Listen \/ SetupFails \/ CreateContext
  \/ CheckStopped \/ Initiate \/ AcceptEnds
  \/ Accepted \/ AcceptTlsSocket \/ BeginHandshake

StopperStep == StopBaseCancel \/ StopCancel \/ StopClose

ConnCoroutine(c) == NextRound(c) \/ EndHandshake(c)
Timer(c) == TimerExpires(c) \/ TimerHandler(c)

Next ==
  \/ \E mode \in Modes : StartListen(mode)
  \/ ListenerStep
  \/ \E c \in Clients : KernelAccept(c)
  \/ KernelAcceptError
  \/ StopStore
  \/ StopperStep
  \/ Destroy
  \/ \E c \in Clients : Connect(c) \/ PeerMoves(c) \/ ConnCoroutine(c) \/ Timer(c)
  \/ \E c \in Clients : HandlerReturns(c)

Spec == Init /\ [][Next]_vars

\* The pool runs every coroutine and every timer handler that is ready (it has a
\* thread that no handler blocks), timers expire (hs_timer after 24 hours by
\* default), and stop() runs to its end once it is called.  Nothing makes clients
\* connect or go on with a handshake, the application call anything or a client
\* handler return.
Fairness ==
  /\ WF_vars(ListenerStep)
  /\ WF_vars(StopperStep)
  /\ \A c \in Clients : WF_vars(ConnCoroutine(c)) /\ WF_vars(Timer(c))

FairSpec == Spec /\ Fairness

-----------------------------------------------------------------------------
(* Properties.                                                             *)

\* The variables keep their types; a connection the kernel has handed over and that
\* has no coroutine of its own is the one the listener is busy with.
TypeOK ==
  /\ stopRequested \in BOOLEAN
  /\ acceptor \in {"closed", "open", "listening"}
  /\ listener \in [mode : Modes, pc : {"idle"} \cup SetupSteps \cup LoopSteps \cup HeldSteps,
                   client : Clients \cup {NoClient},
                   result : {"none", "ok", "create_failed", "tls_failed",
                             "accept_failed", "option_error"},
                   late : Nat, called : {"fresh", "again"}]
  /\ stopper \in {"idle", "base_cancel", "cancel", "close", "returned", "threw"}
  /\ conn \in [Clients -> {"none", "backlog", "refused", "taken", "armed", "pending",
                           "round", "aborted", "handling", "done", "dropped"}]
  /\ timer \in [Clients -> {"off", "armed", "queued", "spent"}]
  /\ rounds \in [Clients -> Nat]
  /\ alive \in BOOLEAN /\ listens \in Nat /\ stops \in Nat
  /\ \A c \in Clients :
       /\ conn[c] \in {"taken", "armed"} => listener.client = c
       /\ listener.client = c =>
            conn[c] = IF listener.pc = "handshake" THEN "armed"
                      ELSE IF listener.pc = "serving" THEN "handling" ELSE "taken"
  /\ listener.pc \in HeldSteps <=> listener.client # NoClient

\* An accept waits only on a listening acceptor: stop() never leaves the loop
\* waiting for a connection that cannot come.
WaitsOnListening == listener.pc = "waiting" => acceptor = "listening"

\* A stop() that returned normally has closed the acceptor for good, whatever
\* step of a concurrent listen() it overtook.  It takes a listen() called on a
\* closed acceptor and before any stop(): one that follows a failed listen() may
\* still be about to open the acceptor that stop() has just closed.
StoppedMeansClosed == stopper = "returned" /\ listener.called = "fresh" => acceptor = "closed"

\* The stop flag is looked at before every accept, so a listening coroutine takes
\* at most one connection after it was set.
OneLateConnection == listener.late <= 1

\* Once stop() was called, listen() returns, whatever the two were doing, unless a
\* handler of a plain connection never returns: it runs inside listen().
StopEndsListen ==
  []<>(listener.pc # "serving") => (stopRequested ~> listener.pc = "idle")

\* hs_timer has been spent and the handshake is still going on.
Unguarded(c) == InHandshake(c) /\ timer[c] = "spent"


\* "Destructor will join all client coroutines": no coroutine of a connection
\* fetches the handler of a server that has been destroyed.
HandlerOfLiveServer ==
  [][\A c \in Clients : conn[c] = "round" /\ conn'[c] = "handling" => alive]_vars

=============================================================================
