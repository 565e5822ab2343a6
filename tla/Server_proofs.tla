---------------------------- MODULE Server_proofs ----------------------------
(***************************************************************************)
(* Proofs about Server, for every set of clients and any number of calls   *)
(* of listen() and stop().                                                 *)
(***************************************************************************)
EXTENDS Server, TLAPS

\* Nothing but stop() moves the stopper, and it stores the flag first.
StopperHasStored == stopper # "idle" => stopRequested

\* A fresh listen() that has not opened the acceptor finds it as it was when it
\* was called, and stop() cannot have got past its throwing cancel.
FreshBeforeOpen ==
  listener.called = "fresh" /\ listener.pc = "open"
    => acceptor = "closed" /\ stopper \notin {"close", "returned"}

\* No connection is late without the flag, and a coroutine that passed the test
\* of the flag has taken none.
LateAfterTest ==
  ~stopRequested \/ listener.pc \in {"initiate", "waiting"} => listener.late = 0

Inv ==
  /\ TypeOK
  /\ WaitsOnListening
  /\ StopperHasStored /\ FreshBeforeOpen /\ StoppedMeansClosed
  /\ LateAfterTest /\ OneLateConnection

-----------------------------------------------------------------------------
(* The frame of the listening coroutine: what the ways to change it do.    *)

Pcs == {"idle"} \cup SetupSteps \cup LoopSteps \cup HeldSteps
Places == {"none", "backlog", "refused", "taken", "armed", "pending",
           "round", "aborted", "handling", "done", "dropped"}
Results == {"none", "ok", "create_failed", "tls_failed", "accept_failed", "option_error"}
Listeners == [mode : Modes, pc : Pcs, client : Clients \cup {NoClient},
              result : Results, late : Nat, called : {"fresh", "again"}]

\* Everything but the program counter, the client and the result is kept.
Kept == /\ listener'.mode = listener.mode
        /\ listener'.late = listener.late
        /\ listener'.called = listener.called

LEMMA GotoKeeps ==
  ASSUME listener \in Listeners, NEW pc \in Pcs, Goto(pc)
  PROVE  /\ listener' \in Listeners /\ Kept
         /\ listener'.pc = pc /\ listener'.client = listener.client
BY DEF Listeners, Goto, Kept

LEMMA ReturnKeeps ==
  ASSUME listener \in Listeners, NEW result \in Results, ListenReturns(result)
  PROVE  /\ listener' \in Listeners /\ Kept
         /\ listener'.pc = "idle" /\ listener'.client = NoClient
BY DEF Listeners, Pcs, ListenReturns, Kept

LEMMA ReleaseKeeps ==
  ASSUME listener \in Listeners, Release
  PROVE  /\ listener' \in Listeners /\ Kept
         /\ listener'.pc = "check" /\ listener'.client = NoClient
BY DEF Listeners, Pcs, LoopSteps, Release, Kept

LEMMA AbortKeeps ==
  ASSUME listener \in Listeners, AbortAccept
  PROVE  /\ listener' \in Listeners /\ Kept
         /\ listener'.pc = IF listener.pc = "waiting" THEN "aborted" ELSE listener.pc
         /\ listener'.client = listener.client
BY DEF Listeners, Pcs, LoopSteps, AbortAccept, Kept

\* The connection the listening coroutine is busy with, and what became of it.
Held(c) == conn[c] = IF listener.pc = "handshake" THEN "armed"
                     ELSE IF listener.pc = "serving" THEN "handling" ELSE "taken"
Holding == /\ \A c \in Clients : /\ conn[c] \in {"taken", "armed"} => listener.client = c
                                 /\ listener.client = c => Held(c)
           /\ listener.pc \in HeldSteps <=> listener.client # NoClient

-----------------------------------------------------------------------------
(* Types.                                                                  *)

\* The parts of TypeOK.
Typed == /\ stopRequested \in BOOLEAN
         /\ acceptor \in {"closed", "open", "listening"}
         /\ listener \in Listeners
         /\ stopper \in {"idle", "base_cancel", "cancel", "close", "returned", "threw"}
         /\ conn \in [Clients -> Places]
         /\ timer \in [Clients -> {"off", "armed", "queued", "spent"}]
         /\ rounds \in [Clients -> Nat]
         /\ alive \in BOOLEAN /\ listens \in Nat /\ stops \in Nat

LEMMA TypeParts == TypeOK <=> Typed /\ Holding
BY DEF TypeOK, Typed, Holding, Held, Listeners, Pcs, Results, Places

LEMMA InitType == Init => TypeOK
<1> SUFFICES ASSUME Init PROVE Typed /\ Holding
  BY TypeParts
<1>1. listener \in Listeners
  BY DEF Init, Listeners, Pcs, Results, Modes
<1>2. QED
  BY <1>1, ClientsAssumption DEF Init, Typed, Holding, Held, HeldSteps, Places

-----------------------------------------------------------------------------
(* stop() and listen().                                                    *)

LEMMA TypePartsNext == Typed' /\ Holding' => TypeOK'
BY DEF TypeOK, Typed, Holding, Held, Listeners, Pcs, Results, Places

\* A step that leaves the listening coroutine without a connection, and every
\* connection that is nobody's where it is.
LEMMA HoldsNothing ==
  ASSUME Typed, Holding, listener'.client = NoClient, listener'.pc \notin HeldSteps,
         \A c \in Clients : conn'[c] \in {"taken", "armed"} => conn'[c] = conn[c] /\ listener.client # c
  PROVE  Holding'
BY ClientsAssumption DEF Holding, Held

\* Every action preserves the invariant.
LEMMA InvStep ==
  ASSUME Inv, [Next]_vars
  PROVE  Inv'
<1> USE ClientsAssumption DEF Inv, WaitsOnListening, StopperHasStored, FreshBeforeOpen,
                              StoppedMeansClosed, LateAfterTest, OneLateConnection, Kept
<1>0. Typed /\ Holding /\ listener \in Listeners
  BY TypeParts DEF Typed
<1>a. listener.pc \notin HeldSteps =>
        /\ listener.client = NoClient
        /\ \A c \in Clients : conn[c] \notin {"taken", "armed"}
  BY <1>0 DEF Holding
<1>1. ASSUME NEW mode \in Modes, StartListen(mode) PROVE Inv'
  <2> DEFINE f == IF acceptor = "closed" /\ ~stopRequested THEN "fresh" ELSE "again"
  <2>1. /\ listener' \in Listeners
        /\ listener'.pc = "open" /\ listener'.client = NoClient /\ listener'.late = 0
        /\ listener'.called = f
    <3>1. f \in {"fresh", "again"}
      OBVIOUS
    <3>2. listener' = [mode |-> mode, pc |-> "open", client |-> NoClient,
                       result |-> "none", late |-> 0, called |-> f]
      BY <1>1 DEF StartListen
    <3> HIDE DEF f
    <3>3. QED
      BY <3>1, <3>2 DEF Listeners, Pcs, SetupSteps, Results
  <2>2. /\ UNCHANGED <<stopRequested, acceptor, stopper, conn, handshakes, alive, stops>>
        /\ listens' = listens + 1 /\ listener.pc = "idle"
    BY <1>1 DEF StartListen
  <2>3. Typed'
    BY <1>0, <2>1, <2>2 DEF Typed, handshakes
  <2>4. Holding'
    BY <1>0, <1>a, <2>1, <2>2, HoldsNothing DEF HeldSteps
  <2>5. f = "fresh" => acceptor = "closed" /\ stopper = "idle"
    OBVIOUS
  <2> HIDE DEF f
  <2>6. FreshBeforeOpen' /\ StoppedMeansClosed'
    BY <2>1, <2>2, <2>5
  <2>7. WaitsOnListening' /\ StopperHasStored' /\ LateAfterTest' /\ OneLateConnection'
    BY <2>1, <2>2
  <2>8. QED
    BY <2>3, <2>4, <2>6, <2>7, TypePartsNext
<1>2. CASE Open
  <2>1. /\ listener' \in Listeners /\ Kept
        /\ listener'.pc = "option" /\ listener'.client = NoClient
    BY <1>0, <1>a, <1>2, GotoKeeps, ReturnKeeps
    DEF Open, Pcs, SetupSteps, LoopSteps, HeldSteps, Results
  <2>2. Typed'
    BY <1>0, <1>2, <2>1 DEF Typed, handshakes, Places, Open
  <2>3. Holding'
    BY <1>0, <1>a, <1>2, <2>1, HoldsNothing DEF HeldSteps, Open
  <2>4. QED
    BY <1>0, <1>2, <2>1, <2>2, <2>3, TypePartsNext DEF Open
<1>3. CASE SetOption \/ Bind
  <2>1. /\ listener' \in Listeners /\ Kept
        /\ listener'.pc \in {"bind", "listen"} /\ listener'.client = NoClient
    BY <1>0, <1>a, <1>3, GotoKeeps, ReturnKeeps
    DEF SetOption, Bind, Pcs, SetupSteps, LoopSteps, HeldSteps, Results
  <2>2. Typed'
    BY <1>0, <1>3, <2>1 DEF Typed, handshakes, Places, SetOption, Bind
  <2>3. Holding'
    BY <1>0, <1>a, <1>3, <2>1, HoldsNothing DEF HeldSteps, SetOption, Bind
  <2>4. QED
    BY <1>0, <1>3, <2>1, <2>2, <2>3, TypePartsNext DEF SetOption, Bind
<1>4. CASE Listen
  <2>1. /\ listener' \in Listeners /\ Kept
        /\ listener'.pc \in {"context", "check"} /\ listener'.client = NoClient
    BY <1>0, <1>a, <1>4, GotoKeeps, ReturnKeeps
    DEF Listen, Pcs, SetupSteps, LoopSteps, HeldSteps, Results
  <2>2. Typed'
    BY <1>0, <1>4, <2>1 DEF Typed, handshakes, Places, Listen
  <2>3. Holding'
    BY <1>0, <1>a, <1>4, <2>1, HoldsNothing DEF HeldSteps, Listen
  <2>4. QED
    BY <1>0, <1>4, <2>1, <2>2, <2>3, TypePartsNext DEF Listen
<1>5. CASE SetupFails
  <2>1. /\ listener' \in Listeners /\ Kept
        /\ listener'.pc = "idle" /\ listener'.client = NoClient
    BY <1>0, <1>a, <1>5, GotoKeeps, ReturnKeeps
    DEF SetupFails, Pcs, SetupSteps, LoopSteps, HeldSteps, Results
  <2>2. Typed'
    BY <1>0, <1>5, <2>1 DEF Typed, handshakes, Places, SetupFails
  <2>3. Holding'
    BY <1>0, <1>a, <1>5, <2>1, HoldsNothing DEF HeldSteps, SetupFails
  <2>4. QED
    BY <1>0, <1>5, <2>1, <2>2, <2>3, TypePartsNext DEF SetupFails
<1>6. CASE CreateContext
  <2>1. /\ listener' \in Listeners /\ Kept
        /\ listener'.pc \in {"check", "idle"} /\ listener'.client = NoClient
    BY <1>0, <1>a, <1>6, GotoKeeps, ReturnKeeps
    DEF CreateContext, Pcs, SetupSteps, LoopSteps, HeldSteps, Results
  <2>2. Typed'
    BY <1>0, <1>6, <2>1 DEF Typed, handshakes, Places, CreateContext
  <2>3. Holding'
    BY <1>0, <1>a, <1>6, <2>1, HoldsNothing DEF HeldSteps, CreateContext
  <2>4. QED
    BY <1>0, <1>6, <2>1, <2>2, <2>3, TypePartsNext DEF CreateContext
<1>7. CASE CheckStopped
  <2>1. /\ listener' \in Listeners /\ Kept
        /\ listener'.pc = (IF stopRequested THEN "idle" ELSE "initiate") /\ listener'.client = NoClient
    BY <1>0, <1>a, <1>7, GotoKeeps, ReturnKeeps
    DEF CheckStopped, Pcs, SetupSteps, LoopSteps, HeldSteps, Results
  <2>2. Typed'
    BY <1>0, <1>7, <2>1 DEF Typed, handshakes, Places, CheckStopped
  <2>3. Holding'
    BY <1>0, <1>a, <1>7, <2>1, HoldsNothing DEF HeldSteps, CheckStopped
  <2>4. QED
    BY <1>0, <1>7, <2>1, <2>2, <2>3, TypePartsNext DEF CheckStopped
<1>8. CASE Initiate
  <2>1. /\ listener' \in Listeners /\ Kept
        /\ listener'.pc = (IF acceptor = "listening" THEN "waiting" ELSE "aborted") /\ listener'.client = NoClient
    BY <1>0, <1>a, <1>8, GotoKeeps, ReturnKeeps
    DEF Initiate, Pcs, SetupSteps, LoopSteps, HeldSteps, Results
  <2>2. Typed'
    BY <1>0, <1>8, <2>1 DEF Typed, handshakes, Places, Initiate
  <2>3. Holding'
    BY <1>0, <1>a, <1>8, <2>1, HoldsNothing DEF HeldSteps, Initiate
  <2>4. QED
    BY <1>0, <1>8, <2>1, <2>2, <2>3, TypePartsNext DEF Initiate
<1>9. CASE AcceptEnds
  <2>1. /\ listener' \in Listeners /\ Kept
        /\ listener'.pc = "idle" /\ listener'.client = NoClient
    BY <1>0, <1>a, <1>9, GotoKeeps, ReturnKeeps
    DEF AcceptEnds, Pcs, SetupSteps, LoopSteps, HeldSteps, Results
  <2>2. Typed'
    BY <1>0, <1>9, <2>1 DEF Typed, handshakes, Places, AcceptEnds
  <2>3. Holding'
    BY <1>0, <1>a, <1>9, <2>1, HoldsNothing DEF HeldSteps, AcceptEnds
  <2>4. QED
    BY <1>0, <1>9, <2>1, <2>2, <2>3, TypePartsNext DEF AcceptEnds
<1>10. CASE KernelAcceptError
  <2>1. /\ listener' \in Listeners /\ Kept
        /\ listener'.pc = "broken" /\ listener'.client = NoClient
    BY <1>0, <1>a, <1>10, GotoKeeps, ReturnKeeps
    DEF KernelAcceptError, Pcs, SetupSteps, LoopSteps, HeldSteps, Results
  <2>2. Typed'
    BY <1>0, <1>10, <2>1 DEF Typed, handshakes, Places, KernelAcceptError
  <2>3. Holding'
    BY <1>0, <1>a, <1>10, <2>1, HoldsNothing DEF HeldSteps, KernelAcceptError
  <2>4. QED
    BY <1>0, <1>10, <2>1, <2>2, <2>3, TypePartsNext DEF KernelAcceptError
<1>11. CASE Accepted
  <2>0. listener.client \in Clients /\ conn[listener.client] = "taken" /\ listener.pc = "accepted"
    BY <1>0, <1>11 DEF Accepted, Listeners, Holding, Held, HeldSteps
  <2>1. CASE AcceptPlainSocket
    <3>1. /\ listener' \in Listeners /\ Kept
          /\ listener'.pc = "serving" /\ listener'.client = listener.client
      BY <1>0, <2>1, GotoKeeps DEF AcceptPlainSocket, Pcs, HeldSteps
    <3>2. Typed'
      BY <1>0, <1>11, <2>0, <2>1, <3>1 DEF Typed, handshakes, Places, Accepted, AcceptPlainSocket
    <3>3. Holding'
      BY <1>0, <2>0, <2>1, <3>1 DEF Holding, Held, HeldSteps, AcceptPlainSocket, Typed
    <3>4. QED
      BY <1>0, <1>11, <3>1, <3>2, <3>3, TypePartsNext DEF Accepted
  <2>2. CASE Goto("tls") /\ UNCHANGED conn
    <3>1. /\ listener' \in Listeners /\ Kept
          /\ listener'.pc = "tls" /\ listener'.client = listener.client
      BY <1>0, <2>2, GotoKeeps DEF Pcs, HeldSteps
    <3>2. Typed'
      BY <1>0, <1>11, <2>2, <3>1 DEF Typed, handshakes, Accepted
    <3>3. Holding'
      BY <1>0, <2>0, <2>2, <3>1 DEF Holding, Held, HeldSteps
    <3>4. QED
      BY <1>0, <1>11, <3>1, <3>2, <3>3, TypePartsNext DEF Accepted
  <2>3. CASE TcpOptionFails
    <3>1. /\ listener' \in Listeners /\ Kept
          /\ listener'.pc = "idle" /\ listener'.client = NoClient
      BY <1>0, <2>3, ReturnKeeps DEF TcpOptionFails, Results
    <3>2. Typed'
      BY <1>0, <1>11, <2>0, <2>3, <3>1 DEF Typed, handshakes, Places, Accepted, TcpOptionFails
    <3>3. Holding'
      BY <1>0, <2>0, <2>3, <3>1 DEF Holding, Held, HeldSteps, TcpOptionFails, Typed
    <3>4. QED
      BY <1>0, <1>11, <3>1, <3>2, <3>3, TypePartsNext DEF Accepted
  <2>4. QED
    BY <1>11, <2>1, <2>2, <2>3 DEF Accepted
<1>12. CASE AcceptTlsSocket \/ BeginHandshake
  <2>0. /\ listener.client \in Clients /\ conn[listener.client] \in {"taken", "armed"}
        /\ listener.pc \in HeldSteps
    BY <1>0, <1>12 DEF AcceptTlsSocket, BeginHandshake, Listeners, Holding, Held, HeldSteps
  <2>1. CASE Release
    <3>1. /\ listener' \in Listeners /\ Kept
          /\ listener'.pc = "check" /\ listener'.client = NoClient
      BY <1>0, <2>1, ReleaseKeeps
    <3>2. \E w \in {"dropped", "pending"} : conn' = [conn EXCEPT ![listener.client] = w]
      BY <1>12, <3>1 DEF AcceptTlsSocket, BeginHandshake, TlsOptionFails, Goto, Listeners
    <3>3. Typed'
      BY <1>0, <1>12, <2>0, <3>1, <3>2 DEF Typed, handshakes, Places, AcceptTlsSocket, BeginHandshake, TlsOptionFails
    <3>4. Holding'
      BY <1>0, <2>0, <3>1, <3>2 DEF Holding, Held, HeldSteps, Typed
    <3>5. QED
      BY <1>0, <1>12, <3>1, <3>3, <3>4, TypePartsNext DEF AcceptTlsSocket, BeginHandshake, TlsOptionFails
  <2>2. CASE AcceptTlsSocket /\ ~Release
    <3>0. /\ Goto("handshake") /\ conn' = [conn EXCEPT ![listener.client] = "armed"]
          /\ timer' = [timer EXCEPT ![listener.client] = "armed"]
      BY <2>2 DEF AcceptTlsSocket, TlsOptionFails
    <3>1. /\ listener' \in Listeners /\ Kept
          /\ listener'.pc = "handshake" /\ listener'.client = listener.client
      BY <1>0, <3>0, GotoKeeps DEF Pcs, HeldSteps
    <3>2. Typed'
      BY <1>0, <2>0, <2>2, <3>0, <3>1 DEF Typed, handshakes, Places, AcceptTlsSocket
    <3>3. Holding'
      BY <1>0, <2>0, <3>0, <3>1 DEF Holding, Held, HeldSteps, Typed
    <3>4. QED
      BY <1>0, <2>2, <3>1, <3>2, <3>3, TypePartsNext DEF AcceptTlsSocket
  <2>3. QED
    BY <1>12, <2>1, <2>2 DEF BeginHandshake
<1>13. ASSUME NEW c \in Clients, KernelAccept(c) PROVE Inv'
  <2>1. /\ listener' \in Listeners
        /\ listener'.pc = "accepted" /\ listener'.client = c
        /\ listener'.called = listener.called
        /\ listener'.late = IF stopRequested THEN listener.late + 1 ELSE listener.late
    <3> DEFINE m == listener.late + IF stopRequested THEN 1 ELSE 0
    <3>1. m \in Nat
      BY <1>0 DEF Listeners
    <3>2. listener' = [listener EXCEPT !.pc = "accepted", !.client = c, !.late = m]
      BY <1>13 DEF KernelAccept
    <3> HIDE DEF m
    <3>3. /\ listener' \in Listeners /\ listener'.late = m
          /\ listener'.pc = "accepted" /\ listener'.client = c
          /\ listener'.called = listener.called
      BY <1>0, <3>1, <3>2 DEF Listeners, Pcs, HeldSteps
    <3>4. m = IF stopRequested THEN listener.late + 1 ELSE listener.late
      BY <1>0 DEF m, Listeners
    <3>5. QED
      BY <3>3, <3>4
  <2>2. Typed'
    BY <1>0, <1>13, <2>1 DEF Typed, handshakes, Places, KernelAccept
  <2>3. Holding'
    BY <1>0, <1>a, <1>13, <2>1 DEF Holding, Held, HeldSteps, KernelAccept, Typed
  <2>4. QED
    BY <1>0, <1>13, <2>1, <2>2, <2>3, TypePartsNext DEF KernelAccept
<1>14. CASE StopStore
  <2>1. Typed'
    BY <1>0, <1>14 DEF Typed, handshakes, StopStore
  <2>2. Holding'
    BY <1>0, <1>14 DEF Holding, Held, StopStore
  <2>3. QED
    BY <1>14, <2>1, <2>2, TypePartsNext DEF StopStore
<1>15. CASE StopBaseCancel \/ StopCancel
  <2>1. /\ listener' \in Listeners /\ Kept
        /\ listener'.pc = IF acceptor # "closed" /\ listener.pc = "waiting" THEN "aborted" ELSE listener.pc
        /\ listener'.client = listener.client
    BY <1>0, <1>15, AbortKeeps DEF StopBaseCancel, StopCancel, Kept
  <2>2. Typed'
    BY <1>0, <1>15, <2>1 DEF Typed, handshakes, StopBaseCancel, StopCancel
  <2>3. Holding'
    BY <1>0, <1>15, <2>1 DEF Holding, Held, HeldSteps, StopBaseCancel, StopCancel
  <2>4. QED
    BY <1>0, <1>15, <2>1, <2>2, <2>3, TypePartsNext DEF StopBaseCancel, StopCancel
<1>16. CASE StopClose
  <2>1. /\ listener' \in Listeners /\ Kept
        /\ listener'.pc = IF listener.pc = "waiting" THEN "aborted" ELSE listener.pc
        /\ listener'.client = listener.client
    BY <1>0, <1>16, AbortKeeps DEF StopClose
  <2>2. Typed'
    BY <1>0, <1>16, <2>1 DEF Typed, handshakes, Places, StopClose, CloseAcceptor
  <2>3. Holding'
    BY <1>0, <1>16, <2>1 DEF Holding, Held, HeldSteps, StopClose, CloseAcceptor
  <2>4. QED
    BY <1>0, <1>16, <2>1, <2>2, <2>3, TypePartsNext DEF StopClose, CloseAcceptor
<1>17. CASE Destroy
  <2>1. Typed'
    BY <1>0, <1>17 DEF Typed, handshakes, Places, Destroy, CloseAcceptor
  <2>2. Holding'
    BY <1>0, <1>17 DEF Holding, Held, Destroy, CloseAcceptor
  <2>3. QED
    BY <1>17, <2>1, <2>2, TypePartsNext DEF Destroy, CloseAcceptor
<1>18. ASSUME NEW c \in Clients, Connect(c) PROVE Inv'
  <2>1. Typed'
    BY <1>0, <1>18 DEF Typed, handshakes, Places, Connect
  <2>2. Holding'
    BY <1>0, <1>18 DEF Holding, Held, Connect, Typed
  <2>3. QED
    BY <1>18, <2>1, <2>2, TypePartsNext DEF Connect
<1>19. ASSUME NEW c \in Clients, PeerMoves(c) \/ ConnCoroutine(c) \/ Timer(c) PROVE Inv'
  <2>1. UNCHANGED Others
    BY <1>19 DEF PeerMoves, ConnCoroutine, NextRound, EndHandshake, Timer, TimerExpires, TimerHandler
  <2>2. \/ conn' = conn
        \/ \E d \in Clients : /\ conn[d] \in {"pending", "round", "aborted"}
                              /\ \E w \in {"pending", "round", "aborted", "handling", "dropped"} :
                                   conn' = [conn EXCEPT ![d] = w]
    BY <1>19 DEF PeerMoves, ConnCoroutine, NextRound, EndHandshake, Timer, TimerExpires, TimerHandler
  <2>3. timer' \in [Clients -> {"off", "armed", "queued", "spent"}]
    BY <1>0, <1>19 DEF Typed, handshakes, PeerMoves, ConnCoroutine, NextRound, EndHandshake, Timer, TimerExpires, TimerHandler
  <2>4. rounds' \in [Clients -> Nat]
    BY <1>0, <1>19 DEF Typed, handshakes, PeerMoves, ConnCoroutine, NextRound, EndHandshake, Timer, TimerExpires, TimerHandler
  <2>5. Typed'
    BY <1>0, <2>1, <2>2, <2>3, <2>4 DEF Typed, Others, Places
  <2>6. Holding'
    BY <1>0, <2>1, <2>2 DEF Holding, Held, Others, Typed
  <2>7. QED
    BY <2>1, <2>5, <2>6, TypePartsNext DEF Others
<1>20. ASSUME NEW c \in Clients, HandlerReturns(c) PROVE Inv'
  <2>1. /\ listener' \in Listeners /\ Kept
        /\ IF listener.client = c THEN listener'.pc = "check" /\ listener'.client = NoClient
                                  ELSE listener' = listener
    BY <1>0, <1>20, ReleaseKeeps DEF HandlerReturns
  <2>2. Typed'
    BY <1>0, <1>20, <2>1 DEF Typed, handshakes, Places, HandlerReturns
  <2>3. Holding'
    BY <1>0, <1>20, <2>1 DEF Holding, Held, HeldSteps, HandlerReturns, Typed
  <2>4. listener'.pc \in {"check", listener.pc}
    BY <2>1
  <2>5. UNCHANGED <<stopRequested, acceptor, stopper>>
    BY <1>20 DEF HandlerReturns
  <2>6. QED
    BY <1>0, <2>1, <2>2, <2>3, <2>4, <2>5, TypePartsNext
<1>21. CASE UNCHANGED vars
  <2>1. Typed'
    BY <1>0, <1>21 DEF Typed, handshakes, vars
  <2>2. Holding'
    BY <1>0, <1>21 DEF Holding, Held, vars
  <2>3. QED
    BY <1>21, <2>1, <2>2, TypePartsNext DEF vars
<1>22. QED
  BY <1>1, <1>2, <1>3, <1>4, <1>5, <1>6, <1>7, <1>8, <1>9, <1>10, <1>11, <1>12,
     <1>13, <1>14, <1>15, <1>16, <1>17, <1>18, <1>19, <1>20, <1>21
  DEF Next, ListenerStep, StopperStep

\* The types, the late connection and both parts of stop(), as one invariant.
THEOREM InvHolds == Spec => []Inv
<1>1. Init => Inv
  BY InitType DEF Init, Inv, WaitsOnListening, StopperHasStored, FreshBeforeOpen,
                  StoppedMeansClosed, LateAfterTest, OneLateConnection
<1>2. Inv /\ [Next]_vars => Inv'
  BY InvStep
<1>3. QED
  BY <1>1, <1>2, PTL DEF Spec

\* Server::asyncListen, stop and the handshakes keep the types, and a connection
\* without a coroutine of its own is the one the listening coroutine is busy with.
THEOREM TypeCorrect == Spec => []TypeOK
BY InvHolds, PTL DEF Inv

\* The listening loop waits in async_accept only on a listening acceptor, however
\* stop() interleaves with it.
THEOREM AcceptNeverStranded == Spec => []WaitsOnListening
BY InvHolds, PTL DEF Inv

\* When Server::stop has returned, the acceptor is closed and stays closed, for
\* every interleaving with a listen() called before.
THEOREM StopCloses == Spec => []StoppedMeansClosed
BY InvHolds, PTL DEF Inv

\* The listening loop takes at most one connection after the stop flag was set.
THEOREM AtMostOneLate == Spec => []OneLateConnection
BY InvHolds, PTL DEF Inv

=============================================================================
