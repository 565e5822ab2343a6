----------------------------- MODULE Connection -----------------------------
(***************************************************************************)
(* One outgoing connection: Client::asyncConnect and asyncConnectTls, then *)
(* the timed reads and writes of the socket they return                    *)
(* (asyncReadWithTimeout, asyncWriteAllCommon) with cancelSocket and       *)
(* closeSocket of the application.  Every operation races with a timer     *)
(* whose handler runs on another thread of the pool, and all operations of *)
(* a socket share one descriptor and one cancellation slot.                *)
(*                                                                         *)
(* Which bytes are read is the subject of BufferedSocket; here a read is a *)
(* number of waits for the descriptor and a write a number of chunks.      *)
(***************************************************************************)
EXTENDS Integers

CONSTANTS
  MaxWaits    \* bound: waits of the reads and the writes, in all

ASSUME BoundsAssumption == MaxWaits \in Nat \ {0}

Transfers == {"read", "write"}
Ops == Transfers \cup {"handshake"}

\* Error codes the operating system gives a connect.
OsErrors == {"timed_out", "connection_refused", "connection_reset", "host_unreachable"}

VARIABLES
  phase,    \* where the connect is: new, resolving, connecting, handshaking,
            \* up (socket handed to the application), failed, crashed
  result,   \* the error code connect returns, "none" before
  tls,      \* connectTls rather than connect
  open,     \* the descriptor is open
  w,        \* for each operation, the coroutine frame of its current wait
  slot,     \* the operation whose handler the cancellation slot holds
  stale,    \* handlers of expired timers queued when their wait was over
  late,     \* the same, between their store to timed_out and their cancel
  started,  \* waits of the reads and writes started
  touched,  \* the application has cancelled or closed the socket
  ub,       \* a write to a dead frame or a read of a dead slot has had an effect
  credit    \* two per expired timer, less the operations that ended aborted

vars == <<phase, result, tls, open, w, slot, stale, late, started, touched, ub, credit>>

-----------------------------------------------------------------------------
(* Error translation.                                                      *)

MakeConnectionError(e) ==
  CASE e = "timed_out" -> "CONNECTION_TIMEOUT"
    [] e \in {"connection_refused", "connection_aborted", "broken_pipe"} -> "CONNECTION_REFUSED"
    [] e \in {"eof", "connection_reset", "not_connected"} -> "CONNECTION_LOST"
    [] OTHER -> "CONNECTION_ESTABLISHMENT_FAILED"

\* What an operation returns when its wait ended with ec: an abort is a timeout
\* only if the handler of its own timer said so.
Outcome(f) == IF f.ec = "aborted" /\ f.timedOut THEN "CONNECTION_TIMEOUT" ELSE f.ec

-----------------------------------------------------------------------------
(* A wait: timed_out, the timer and the asynchronous operation.            *)

\* No operation: the frame is free.
Idle == [pc |-> "idle", again |-> 0, timer |-> "none", ec |-> "ok",
         timedOut |-> FALSE, signalled |-> FALSE, cancelled |-> FALSE]

\* Mutant: the reads and writes of a socket share one timed_out.
FrameShared(waits, cancelled) ==
  [Idle EXCEPT !.pc = "starting", !.again = waits - 1, !.timer = "armed",
               !.cancelled = cancelled,
               !.timedOut = \E x \in Transfers : w[x].timedOut]

\* Mutant: a read does not count the wait it starts.
FrameUncounted(waits, cancelled) ==
  [Idle EXCEPT !.pc = "starting", !.again = waits, !.timer = "armed",
               !.cancelled = cancelled]

\* The frame of a new wait: the timer runs already, the operation it guards is
\* not started yet.
Frame(waits, cancelled) ==
  [Idle EXCEPT !.pc = "starting", !.again = waits - 1, !.timer = "armed",
               !.cancelled = cancelled]

\* Operations made of several rounds: a write may need several chunks, a TLS
\* record or handshake several reads; a plain read is over after one.
Composed(o) == o # "read" \/ tls

\* bind_cancellation_slot puts the handler of the operation in the slot, over
\* the one that was there; the handshake uses no slot.
TakeSlot(o) == slot' = IF o \in Transfers THEN o ELSE slot

Aborted(f) == [f EXCEPT !.pc = "completed", !.ec = "aborted"]

\* What cancelSocket does to the operations: the signal marks the composed
\* operation whose handler is in the slot, cancel() aborts what waits for the
\* descriptor.  An operation that is not started, is between two rounds or has
\* completed is not waiting.
Cancelled ==
  [o \in Ops |-> CASE w[o].pc = "waiting" -> Aborted(w[o])
                   [] w[o].pc = "between" /\ slot = o -> [w[o] EXCEPT !.signalled = TRUE]
                   [] OTHER -> w[o]]

\* The account of aborts; it is closed once others than timers may abort.
Account(n) == credit' = IF touched \/ ub THEN 0 ELSE credit + n

-----------------------------------------------------------------------------
(* Connecting.                                                             *)

Init ==
  /\ phase = "new" /\ result = "none" /\ tls \in BOOLEAN /\ open = FALSE
  /\ w = [o \in Ops |-> Idle] /\ slot = "none"
  /\ stale = [o \in Ops |-> 0] /\ late = [o \in Ops |-> 0]
  /\ started = 0 /\ touched = FALSE /\ ub = FALSE /\ credit = 0

\* The coroutine returns the error code r; its socket dies with its frame.
Fail(r) == phase' = "failed" /\ result' = r /\ open' = FALSE

\* asyncConnect or asyncConnectTls: first the resolver, which has no timer.
Connect ==
  /\ phase = "new"
  /\ phase' = "resolving"
  /\ UNCHANGED <<result, tls, open, w, slot, stale, late, started, touched, ub, credit>>

\* The resolver answers; then async_connect and the timer of the parallel group.
Resolved ==
  /\ phase = "resolving"
  /\ \/ Fail("DNS_RESOLUTION_FAILED")
     \/ phase' = "connecting" /\ open' = TRUE /\ UNCHANGED result
  /\ UNCHANGED <<tls, w, slot, stale, late, started, touched, ub, credit>>

\* applyPreConnectTcpOptions and applyPreConnectTlsOptions, when one option cannot
\* be set; for the TLS versions the error is what errno happens to say.
TcpOptionFails == Fail("OPTION_ERROR")
TlsOptionFails == \E r \in {"OPTION_ERROR", "errno"} : Fail(r)

\* The group ended with async_connect: its error, or the TCP options, then the
\* TLS context (which never fails for a client), the TLS options and the
\* handshake with a timer of its own.
ConnectFinishes ==
  /\ phase = "connecting"
  /\ \/ /\ \E e \in OsErrors : Fail(MakeConnectionError(e))
        /\ UNCHANGED w
     \/ TcpOptionFails /\ UNCHANGED w
     \/ tls /\ TlsOptionFails /\ UNCHANGED w
     \/ /\ ~tls
        /\ phase' = "up" /\ result' = "NO_ERROR"
        /\ UNCHANGED <<open, w>>
     \/ /\ tls
        /\ phase' = "handshaking"
        /\ w' = [w EXCEPT !["handshake"] = Frame(1, FALSE)]
        /\ UNCHANGED <<result, open>>
  /\ UNCHANGED <<tls, slot, stale, late, started, touched, ub, credit>>

\* Mutant: the group waits for all its operations, not for the first one.
ConnectNeverExpires == phase = "connecting" /\ FALSE /\ UNCHANGED vars

\* The group ended with the timer, order[0] = 1, whatever became of the connect.
ConnectExpires ==
  /\ phase = "connecting"
  /\ Fail("CONNECTION_TIMEOUT")
  /\ UNCHANGED <<tls, w, slot, stale, late, started, touched, ub, credit>>

-----------------------------------------------------------------------------
(* The descriptor and the timers.                                          *)

\* async_read_some, async_write or async_handshake after its timer was armed: on
\* a closed descriptor it completes at once.
Initiate(o) ==
  /\ w[o].pc = "starting"
  /\ w' = [w EXCEPT ![o].pc = IF open THEN "waiting" ELSE "completed",
                    ![o].ec = IF open THEN "ok" ELSE "bad_descriptor"]
  /\ TakeSlot(o)
  /\ UNCHANGED <<phase, result, tls, open, stale, late, started, touched, ub, credit>>

\* A round of o is done: o completes, or goes on with the next round when a
\* thread runs its intermediate handler.
RoundDone(o) ==
  /\ w[o].pc = "waiting"
  /\ \/ w' = [w EXCEPT ![o].pc = "completed"]
     \/ Composed(o) /\ w' = [w EXCEPT ![o].pc = "between"]
  /\ UNCHANGED <<phase, result, tls, open, slot, stale, late, started, touched, ub, credit>>

\* The peer closes or resets the connection, or the TLS layer refuses it.
RoundFails(o) ==
  /\ w[o].pc = "waiting"
  /\ w' = [w EXCEPT ![o].pc = "completed", ![o].ec = "failed"]
  /\ UNCHANGED <<phase, result, tls, open, slot, stale, late, started, touched, ub, credit>>

\* The intermediate handler of a composed operation: stop if cancelled,
\* otherwise start the next round.  The cancellation state lives in the slot: if
\* another operation has taken the slot since, this reads a dead object.
NextRound(o) ==
  /\ w[o].pc = "between"
  /\ \E stop \in CASE o = "handshake" -> {FALSE}
                   [] slot = o -> {w[o].signalled}
                   [] OTHER -> BOOLEAN :
       w' = [w EXCEPT ![o] = CASE stop -> Aborted(@)
                               [] ~stop /\ open -> [@ EXCEPT !.pc = "waiting"]
                               [] OTHER -> [@ EXCEPT !.pc = "completed", !.ec = "bad_descriptor"]]
  /\ ub' = (ub \/ (o \in Transfers /\ slot # o))
  /\ credit' = IF ub' THEN 0 ELSE credit
  /\ UNCHANGED <<phase, result, tls, open, slot, stale, late, started, touched>>

\* The timer expires: its handler is queued with a success code, and cancelling
\* the timer no longer changes that.
TimerExpires(o) ==
  /\ w[o].timer = "armed"
  /\ w' = [w EXCEPT ![o].timer = "queued"]
  /\ Account(2)
  /\ UNCHANGED <<phase, result, tls, open, slot, stale, late, started, touched, ub>>

\* Mutant: the handler cancels first and stores afterwards.
TimerStoresLast(o) ==
  /\ w[o].timer = "queued"
  /\ w' = [Cancelled EXCEPT ![o].timer = "running"]
  /\ UNCHANGED <<phase, result, tls, open, slot, stale, late, started, touched, ub, credit>>

\* The handler of the timer of a wait that is not over: timed_out.store(true).
TimerStores(o) ==
  /\ w[o].timer = "queued"
  /\ w' = [w EXCEPT ![o].timer = "running", ![o].timedOut = TRUE]
  /\ UNCHANGED <<phase, result, tls, open, slot, stale, late, started, touched, ub, credit>>

\* Mutant: the handler only records the timeout.
TimerOnlyStores(o) ==
  /\ w[o].timer = "running"
  /\ w' = [w EXCEPT ![o].timer = "none"]
  /\ UNCHANGED <<phase, result, tls, open, slot, stale, late, started, touched, ub, credit>>

\* Then it cancels: the socket, with whatever else waits on it, or for the
\* handshake the layer below the TLS stream.  If o itself is not waiting at that
\* moment, its one shot is lost.
TimerCancels(o) ==
  /\ w[o].timer = "running"
  /\ w' = [Cancelled EXCEPT ![o].timer = IF w[o].pc \in {"starting", "between"} THEN "lost"
                                         ELSE "none"]
  /\ UNCHANGED <<phase, result, tls, open, slot, stale, late, started, touched, ub, credit>>

-----------------------------------------------------------------------------
(* Operations.                                                             *)

\* asyncReadSome, asyncReadExact, asyncReadUntil (that need more than the read
\* buffer holds) and asyncWriteAll; on a closed socket they return not_connected.
Start(o) ==
  /\ phase = "up" /\ open /\ w[o].pc = "idle" /\ started < MaxWaits
  /\ \E k \in IF o = "read" THEN 1 .. (MaxWaits - started) ELSE {1} :
       w' = [w EXCEPT ![o] = Frame(k, FALSE)] /\ started' = started + k
  /\ UNCHANGED <<phase, result, tls, open, slot, stale, late, touched, ub, credit>>

\* Mutant: the handler does not look at its error code, so cancelling an armed
\* timer runs it too.
CancelTimerRuns(o) ==
  /\ stale' = [stale EXCEPT ![o] = @ + IF w[o].timer \in {"queued", "armed"} THEN 1 ELSE 0]
  /\ late' = [late EXCEPT ![o] = @ + IF w[o].timer = "running" THEN 1 ELSE 0]

\* timer.cancel(): a handler already queued or running outlives the wait.
CancelTimer(o) ==
  /\ stale' = [stale EXCEPT ![o] = @ + IF w[o].timer = "queued" THEN 1 ELSE 0]
  /\ late' = [late EXCEPT ![o] = @ + IF w[o].timer = "running" THEN 1 ELSE 0]

\* The coroutine of a read or a write resumes after its wait: a read that needs
\* more starts the next wait with a new timer, otherwise it returns Outcome.
Resume(o) ==
  /\ o \in Transfers
  /\ w[o].pc = "completed"
  /\ CancelTimer(o)
  /\ Account(IF w[o].ec = "aborted" THEN -1 ELSE 0)
  /\ \/ /\ w[o].ec = "ok" /\ w[o].again > 0
        /\ w' = [w EXCEPT ![o] = Frame(w[o].again, w[o].cancelled)]
     \/ /\ w[o].ec # "ok" \/ w[o].again = 0
        /\ w' = [w EXCEPT ![o] = Idle]
  /\ UNCHANGED <<phase, result, tls, open, slot, started, touched, ub>>

\* The connect resumes after the handshake and returns the socket or the error.
HandshakeResumes ==
  LET f == w["handshake"]
  IN /\ f.pc = "completed"
     /\ CancelTimer("handshake")
     /\ w' = [w EXCEPT !["handshake"] = Idle]
     /\ Account(IF f.ec = "aborted" THEN -1 ELSE 0)
     /\ CASE f.ec = "ok" -> phase' = "up" /\ result' = "NO_ERROR" /\ UNCHANGED open
          [] Outcome(f) = "CONNECTION_TIMEOUT" -> Fail("CONNECTION_TIMEOUT")
          [] OTHER -> Fail("TLS_HANDSHAKE_FAILED")
     /\ UNCHANGED <<tls, slot, started, touched, ub>>

\* The handler of a wait that is over: its store goes to a dead frame, which may
\* by now be the frame of an operation in progress.
StaleStores(o) ==
  /\ stale[o] > 0
  /\ stale' = [stale EXCEPT ![o] = @ - 1]
  /\ late' = [late EXCEPT ![o] = @ + 1]
  /\ \/ UNCHANGED <<w, ub, credit>>
     \/ \E x \in Ops : /\ w[x].pc # "idle"
                       /\ w' = [w EXCEPT ![x].timedOut = TRUE]
                       /\ ub' = TRUE /\ credit' = 0
  /\ UNCHANGED <<phase, result, tls, open, slot, started, touched>>

\* std::terminate: the process and its operations are gone.
Terminate ==
  /\ phase' = "crashed" /\ open' = FALSE
  /\ w' = [o \in Ops |-> Idle]
  /\ stale' = [o \in Ops |-> 0] /\ late' = [o \in Ops |-> 0]

\* Then it cancels the socket, and with it the operations of that moment.  For
\* the handshake the TLS stream it cancels has moved or died: nothing happens,
\* or lowest_layer().cancel() throws in a thread of the pool.
StaleCancels(o) ==
  /\ late[o] > 0
  /\ \/ /\ o \in Transfers
        /\ w' = Cancelled /\ late' = [late EXCEPT ![o] = @ - 1]
        /\ UNCHANGED <<phase, open, stale>>
     \/ /\ o = "handshake"
        /\ late' = [late EXCEPT ![o] = @ - 1]
        /\ UNCHANGED <<phase, open, w, stale>>
     \/ o = "handshake" /\ Terminate
  /\ UNCHANGED <<result, tls, slot, started, touched, ub, credit>>

-----------------------------------------------------------------------------
(* The application.                                                        *)

Busy == {o \in Ops : w[o].pc # "idle"}

\* cancelSocket: signal and cancel(); ghost cancelled marks the pending ones.
CancelSocket ==
  /\ phase = "up" /\ Busy # {}
  /\ w' = [o \in Ops |-> [Cancelled[o] EXCEPT !.cancelled = (o \in Busy)]]
  /\ touched' = TRUE /\ credit' = 0
  /\ UNCHANGED <<phase, result, tls, open, slot, stale, late, started, ub>>

\* closeSocket: the descriptor is closed, which aborts what waits for it.
CloseSocket ==
  /\ phase = "up" /\ open
  /\ open' = FALSE /\ touched' = TRUE /\ credit' = 0
  /\ w' = [o \in Ops |-> IF w[o].pc = "waiting" THEN Aborted(w[o]) ELSE w[o]]
  /\ UNCHANGED <<phase, result, tls, slot, stale, late, started, ub>>

\* What threads of the pool run for operation o: its coroutine, and beside it
\* the handler of its timer.
Coroutine(o) == Initiate(o) \/ NextRound(o) \/ Resume(o)
Handler(o) == TimerStores(o) \/ TimerCancels(o)

Next ==
  \/ Connect \/ Resolved \/ ConnectFinishes \/ ConnectExpires \/ HandshakeResumes
  \/ CancelSocket \/ CloseSocket
  \/ \E o \in Ops : RoundDone(o) \/ RoundFails(o) \/ TimerExpires(o) \/ Coroutine(o)
                    \/ Handler(o) \/ StaleStores(o) \/ StaleCancels(o)
  \/ \E o \in Transfers : Start(o)

Spec == Init /\ [][Next]_vars

\* Time passes, the resolver gives up at last and the pool has a thread for
\* every handler; nothing is assumed of the peer.
FairSpec ==
  /\ Spec
  /\ WF_vars(Resolved) /\ WF_vars(ConnectExpires) /\ WF_vars(HandshakeResumes)
  /\ \A o \in Ops : /\ WF_vars(TimerExpires(o)) /\ WF_vars(Handler(o))
                    /\ WF_vars(Coroutine(o))

-----------------------------------------------------------------------------
(* Properties.                                                             *)

\* The frames, the handlers and the phase stay in their types.
TypeOK ==
  /\ phase \in {"new", "resolving", "connecting", "handshaking", "up", "failed", "crashed"}
  /\ result \in {"none", "NO_ERROR", "DNS_RESOLUTION_FAILED", "OPTION_ERROR",
                 "errno", "TLS_HANDSHAKE_FAILED"} \cup {MakeConnectionError(e) : e \in OsErrors}
  /\ tls \in BOOLEAN /\ open \in BOOLEAN /\ touched \in BOOLEAN /\ ub \in BOOLEAN
  /\ w \in [Ops -> [pc : {"idle", "starting", "waiting", "between", "completed"},
                    again : 0 .. MaxWaits - 1,
                    timer : {"none", "armed", "queued", "running", "lost"},
                    ec : {"ok", "aborted", "failed", "bad_descriptor"},
                    timedOut : BOOLEAN, signalled : BOOLEAN, cancelled : BOOLEAN]]
  /\ slot \in Transfers \cup {"none"}
  /\ stale \in [Ops -> Nat] /\ late \in [Ops -> Nat]
  /\ started \in 0 .. MaxWaits /\ credit \in Int

\* An operation reports CONNECTION_TIMEOUT only when the timer of the wait that
\* failed had expired: an operation aborted by the timer of another one, by a
\* late handler or by the application reports the abort instead (until a stale
\* handler has written to a frame that is not its own).
TimeoutMeansExpired ==
  \A o \in Ops : ~ub /\ w[o].pc = "completed" /\ Outcome(w[o]) = "CONNECTION_TIMEOUT"
                   => w[o].timer # "armed"

\* A handshake that its timer aborts is reported as a timeout and not as a TLS
\* error: the handler stores timed_out before it cancels, and nobody else can
\* abort the handshake.
HandshakeAbortIsTimeout ==
  w["handshake"].pc = "completed" /\ w["handshake"].ec = "aborted"
    => Outcome(w["handshake"]) = "CONNECTION_TIMEOUT"

\* Without a cancel or close of the application, operations are aborted only by
\* expired timers, each of which ends at most the two operations then in
\* progress on the socket: a timer that was cancelled in time ends nobody.
AbortBudget == ~touched /\ ~ub => credit >= 0

\* The operation has lost its timer: the handler ran when there was nothing to
\* abort, before the operation was started or between two of its rounds.
Unguarded(o) == w[o].pc \in {"starting", "waiting", "between"} /\ w[o].timer = "lost"

\* Every read and write returns, whatever the peer does, unless the one shot of
\* its timer was used up before the operation was started or between two rounds.
OpReturns ==
  \A o \in Transfers : (w[o].pc # "idle") ~> (w[o].pc = "idle" \/ Unguarded(o))

\* Every connect returns, whatever the peer does, with the same exception for
\* the TLS handshake.
ConnectReturns ==
  (phase = "resolving") ~> (phase \in {"up", "failed", "crashed"} \/ Unguarded("handshake"))

\* "All pending operations will complete with error" (HOWTO, Socket Cancelled):
\* after cancelSocket a pending operation never waits for the peer again.
CancelSticks == \A o \in Ops : w[o].cancelled => w[o].pc # "waiting"
=============================================================================
