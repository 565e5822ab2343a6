-------------------------- MODULE Connection_proofs --------------------------
(***************************************************************************)
(* Proofs about Connection, for any number of operations and of waits.     *)
(***************************************************************************)
EXTENDS Connection, TLAPS

Frames == [pc : {"idle", "starting", "waiting", "between", "completed"},
           again : 0 .. MaxWaits - 1,
           timer : {"none", "armed", "queued", "running", "lost"},
           ec : {"ok", "aborted", "failed", "bad_descriptor"},
           timedOut : BOOLEAN, signalled : BOOLEAN, cancelled : BOOLEAN]

-----------------------------------------------------------------------------
(* The inductive invariant.                                                *)

\* What holds of one frame; u says whether undefined behaviour has had an effect.
\* Only a wait that is over has an error, only the handler of its own timer has
\* set timed_out, and it has done so before it cancels.
FrameOK(f, u) ==
  /\ f.pc = "idle" => f.timer = "none" /\ f.ec = "ok"
  /\ f.ec # "ok" => f.pc = "completed"
  /\ f.timer = "running" => f.timedOut
  /\ ~u /\ f.timedOut => f.timer \in {"running", "none", "lost"}
  /\ ~u /\ f.signalled => f.pc \in {"between", "completed"}

FramesOK == \A o \in Ops : FrameOK(w[o], ub)

\* The handshake and the operations of the socket are never in progress together,
\* and no timer handler is left over before the handshake is.
Alone ==
  /\ phase # "handshaking" => w["handshake"].pc = "idle"
  /\ phase # "up" => \A o \in Transfers : w[o].pc = "idle"
  /\ phase \in {"new", "resolving", "connecting", "handshaking"} =>
       \A o \in Ops : stale[o] = 0 /\ late[o] = 0

\* What the account has to cover for o: an abort that o has not reported yet, and
\* two for every handler of a timer of o that has still to cancel.
AbortDue(f) ==
  IF (f.pc = "completed" /\ f.ec = "aborted") \/ (f.pc = "between" /\ f.signalled)
    THEN 1 ELSE 0
CancelDue(f) == IF f.timer \in {"queued", "running"} THEN 1 ELSE 0
Owed(o) == AbortDue(w[o]) + 2 * (CancelDue(w[o]) + stale[o] + late[o])

Debt == Owed("read") + Owed("write") + Owed("handshake")

Covered == ~touched /\ ~ub => credit >= Debt

\* HandshakeAbortIsTimeout without Outcome; the signal never reaches a handshake.
HandshakeOK ==
  /\ ~ w["handshake"].signalled
  /\ w["handshake"].pc = "completed" /\ w["handshake"].ec = "aborted"
       => w["handshake"].timedOut

Inv == TypeOK /\ FramesOK /\ Alone /\ HandshakeOK /\ Covered

-----------------------------------------------------------------------------
(* Frames.                                                                 *)

LEMMA IdleFrame ==
  /\ Idle \in Frames
  /\ \A u \in BOOLEAN : FrameOK(Idle, u)
  /\ AbortDue(Idle) = 0 /\ CancelDue(Idle) = 0
  /\ Idle.pc = "idle" /\ Idle.ec = "ok" /\ ~ Idle.signalled
<1>1. 0 \in 0 .. MaxWaits - 1
  BY BoundsAssumption
<1>2. QED
  BY <1>1 DEF Idle, Frames, FrameOK, AbortDue, CancelDue

\* One lemma for each way the actions change a frame: it keeps its type, and the
\* fields that are not named.
LEMMA SetPc ==
  ASSUME NEW f \in Frames, NEW pc \in {"idle", "starting", "waiting", "between", "completed"}
  PROVE  LET g == [f EXCEPT !.pc = pc]
         IN /\ g \in Frames
            /\ g.pc = pc /\ g.ec = f.ec /\ g.timer = f.timer
            /\ g.timedOut = f.timedOut /\ g.signalled = f.signalled
BY DEF Frames

LEMMA SetPcEc ==
  ASSUME NEW f \in Frames, NEW pc \in {"idle", "starting", "waiting", "between", "completed"},
         NEW ec \in {"ok", "aborted", "failed", "bad_descriptor"}
  PROVE  LET g == [f EXCEPT !.pc = pc, !.ec = ec]
         IN /\ g \in Frames
            /\ g.pc = pc /\ g.ec = ec /\ g.timer = f.timer
            /\ g.timedOut = f.timedOut /\ g.signalled = f.signalled
BY DEF Frames

LEMMA SetTimer ==
  ASSUME NEW f \in Frames, NEW timer \in {"none", "armed", "queued", "running", "lost"}
  PROVE  LET g == [f EXCEPT !.timer = timer]
         IN /\ g \in Frames
            /\ g.pc = f.pc /\ g.ec = f.ec /\ g.timer = timer
            /\ g.timedOut = f.timedOut /\ g.signalled = f.signalled
BY DEF Frames

LEMMA SetTimerTimedOut ==
  ASSUME NEW f \in Frames, NEW timer \in {"none", "armed", "queued", "running", "lost"}
  PROVE  LET g == [f EXCEPT !.timer = timer, !.timedOut = TRUE]
         IN /\ g \in Frames
            /\ g.pc = f.pc /\ g.ec = f.ec /\ g.timer = timer
            /\ g.timedOut = TRUE /\ g.signalled = f.signalled
BY DEF Frames

LEMMA SetTimedOut ==
  ASSUME NEW f \in Frames
  PROVE  LET g == [f EXCEPT !.timedOut = TRUE]
         IN /\ g \in Frames
            /\ g.pc = f.pc /\ g.ec = f.ec /\ g.timer = f.timer
            /\ g.timedOut = TRUE /\ g.signalled = f.signalled
BY DEF Frames

LEMMA SetSignalled ==
  ASSUME NEW f \in Frames
  PROVE  LET g == [f EXCEPT !.signalled = TRUE]
         IN /\ g \in Frames
            /\ g.pc = f.pc /\ g.ec = f.ec /\ g.timer = f.timer
            /\ g.timedOut = f.timedOut /\ g.signalled = TRUE
BY DEF Frames

LEMMA SetCancelled ==
  ASSUME NEW f \in Frames, NEW c \in BOOLEAN
  PROVE  LET g == [f EXCEPT !.cancelled = c]
         IN /\ g \in Frames
            /\ g.pc = f.pc /\ g.ec = f.ec /\ g.timer = f.timer
            /\ g.timedOut = f.timedOut /\ g.signalled = f.signalled
BY DEF Frames

LEMMA NewFrame ==
  ASSUME NEW k \in 1 .. MaxWaits, NEW c \in BOOLEAN, NEW u \in BOOLEAN
  PROVE  /\ Frame(k, c) \in Frames
         /\ FrameOK(Frame(k, c), u)
         /\ AbortDue(Frame(k, c)) = 0 /\ CancelDue(Frame(k, c)) = 0
         /\ Frame(k, c).pc = "starting" /\ Frame(k, c).ec = "ok"
         /\ ~ Frame(k, c).signalled
<1>1. k - 1 \in 0 .. MaxWaits - 1
  BY BoundsAssumption
<1> DEFINE f == Frame(k, c)
<1>2. /\ f \in Frames
      /\ f.pc = "starting" /\ f.ec = Idle.ec /\ f.timer = "armed"
      /\ f.timedOut = Idle.timedOut /\ f.signalled = Idle.signalled
  BY <1>1, IdleFrame DEF Frame, Frames
<1>3. Idle.ec = "ok" /\ Idle.timedOut = FALSE /\ Idle.signalled = FALSE
  BY DEF Idle
<1> HIDE DEF f
<1>4. FrameOK(f, u) /\ AbortDue(f) = 0 /\ CancelDue(f) = 0
  BY <1>2, <1>3 DEF FrameOK, AbortDue, CancelDue
<1>5. QED
  BY <1>2, <1>3, <1>4 DEF f

LEMMA AbortedFrame ==
  ASSUME NEW f \in Frames, f.pc # "idle", NEW u \in BOOLEAN, FrameOK(f, u)
  PROVE  /\ Aborted(f) \in Frames /\ FrameOK(Aborted(f), u)
         /\ Aborted(f).pc = "completed" /\ Aborted(f).ec = "aborted"
         /\ Aborted(f).timer = f.timer /\ Aborted(f).timedOut = f.timedOut
<1>1. /\ Aborted(f) \in Frames
      /\ Aborted(f).pc = "completed" /\ Aborted(f).ec = "aborted"
      /\ Aborted(f).timer = f.timer /\ Aborted(f).timedOut = f.timedOut
      /\ Aborted(f).signalled = f.signalled
  BY SetPcEc, ZenonT(60) DEF Aborted
<1>2. QED
  BY <1>1 DEF FrameOK

LEMMA SignalledFrame ==
  ASSUME NEW f \in Frames, f.pc = "between", NEW u \in BOOLEAN, FrameOK(f, u)
  PROVE  LET g == [f EXCEPT !.signalled = TRUE]
         IN /\ g \in Frames /\ FrameOK(g, u)
            /\ g.pc = "between" /\ g.ec = f.ec
            /\ g.timer = f.timer /\ g.timedOut = f.timedOut
<1> DEFINE g == [f EXCEPT !.signalled = TRUE]
<1>1. /\ g \in Frames /\ g.pc = "between" /\ g.ec = f.ec
      /\ g.timer = f.timer /\ g.timedOut = f.timedOut
  BY SetSignalled
<1> HIDE DEF g
<1>2. FrameOK(g, u)
  BY <1>1 DEF FrameOK
<1>3. QED
  BY <1>1, <1>2 DEF g

\* What one cancel does to the frame of o: an idle one is not touched, the timer
\* and timed_out of no one are.
LEMMA CancelledFrame ==
  ASSUME w \in [Ops -> Frames], NEW o \in Ops, NEW u \in BOOLEAN, FrameOK(w[o], u)
  PROVE  /\ Cancelled[o] \in Frames /\ FrameOK(Cancelled[o], u)
         /\ Cancelled[o].pc = "idle" <=> w[o].pc = "idle"
         /\ w[o].pc = "idle" => Cancelled[o] = w[o]
         /\ Cancelled[o].timer = w[o].timer /\ Cancelled[o].timedOut = w[o].timedOut
         /\ Cancelled[o].ec \in {w[o].ec, "aborted"}
         /\ w[o].pc \notin {"waiting"} => Cancelled[o].ec = w[o].ec /\ Cancelled[o].pc = w[o].pc
<1>1. CASE w[o].pc = "waiting"
  <2>1. Cancelled[o] = Aborted(w[o])
    BY <1>1 DEF Cancelled
  <2>2. QED
    BY <1>1, <2>1, AbortedFrame
<1>2. CASE w[o].pc = "between" /\ slot = o
  <2>1. Cancelled[o] = [w[o] EXCEPT !.signalled = TRUE]
    BY <1>2 DEF Cancelled
  <2>2. QED
    BY <1>2, <2>1, SignalledFrame
<1>3. CASE w[o].pc # "waiting" /\ ~(w[o].pc = "between" /\ slot = o)
  <2>1. Cancelled[o] = w[o]
    BY <1>3 DEF Cancelled
  <2>2. QED
    BY <1>3, <2>1
<1>4. QED
  BY <1>1, <1>2, <1>3

LEMMA DueType ==
  \A f : /\ AbortDue(f) \in {0, 1} /\ CancelDue(f) \in {0, 1}
         /\ f.pc = "idle" => AbortDue(f) = 0
BY DEF AbortDue, CancelDue

-----------------------------------------------------------------------------
(* Steps that change one frame.                                            *)

\* What FrameOK says does not get stronger when undefined behaviour happens.
LEMMA FrameWeaker ==
  ASSUME NEW f, NEW u \in BOOLEAN, NEW v \in BOOLEAN, u => v, FrameOK(f, u)
  PROVE  FrameOK(f, v)
BY DEF FrameOK

LEMMA OneFrame ==
  ASSUME TypeOK, FramesOK, ub' \in BOOLEAN, ub => ub',
         NEW o \in Ops, NEW g \in Frames, FrameOK(g, ub'), w' = [w EXCEPT ![o] = g]
  PROVE  /\ w' \in [Ops -> Frames] /\ FramesOK'
         /\ w'[o] = g /\ \A x \in Ops : x # o => w'[x] = w[x]
<1>1. w \in [Ops -> Frames] /\ ub \in BOOLEAN
  BY DEF TypeOK, Frames
<1>2. w' \in [Ops -> Frames] /\ w'[o] = g /\ \A x \in Ops : x # o => w'[x] = w[x]
  BY <1>1
<1>3. \A x \in Ops : FrameOK(w'[x], ub')
  BY <1>1, <1>2, FrameWeaker DEF FramesOK
<1>4. QED
  BY <1>2, <1>3 DEF FramesOK

\* The terms of the debt are numbers.
LEMMA OwedType ==
  ASSUME stale \in [Ops -> Nat], late \in [Ops -> Nat]
  PROVE  (\A o \in Ops : Owed(o) \in Nat) /\ Debt \in Nat
<1>1. \A o \in Ops : Owed(o) \in Nat
  BY DueType DEF Owed
<1>2. QED
  BY <1>1 DEF Debt, Ops, Transfers

\* If only the debt for o changes, the debt changes as much.
LEMMA DebtStep ==
  ASSUME stale \in [Ops -> Nat], late \in [Ops -> Nat],
         stale' \in [Ops -> Nat], late' \in [Ops -> Nat],
         NEW o \in Ops,
         \A x \in Ops : x # o => w'[x] = w[x] /\ stale'[x] = stale[x] /\ late'[x] = late[x]
  PROVE  Debt' = Debt + Owed(o)' - Owed(o)
<1>1. \A x \in Ops : Owed(x) \in Nat /\ Owed(x)' \in Nat
  BY DueType DEF Owed
<1>2. \A x \in Ops : x # o => Owed(x)' = Owed(x)
  BY DEF Owed
<1>3. o \in {"read", "write", "handshake"}
  BY DEF Ops, Transfers
<1>4. QED
  BY <1>1, <1>2, <1>3 DEF Debt, Ops, Transfers

\* A step that leaves the account alone and does not raise the debt of o.
LEMMA CoveredStep ==
  ASSUME TypeOK, Covered, TypeOK', UNCHANGED <<touched, ub>>, credit' >= credit,
         NEW o \in Ops,
         \A x \in Ops : x # o => w'[x] = w[x] /\ stale'[x] = stale[x] /\ late'[x] = late[x],
         Owed(o)' <= Owed(o)
  PROVE  Covered'
<1>1. /\ stale \in [Ops -> Nat] /\ late \in [Ops -> Nat] /\ credit \in Int
      /\ stale' \in [Ops -> Nat] /\ late' \in [Ops -> Nat] /\ credit' \in Int
  BY DEF TypeOK
<1>2. Debt' = Debt + Owed(o)' - Owed(o)
  BY <1>1, DebtStep
<1>3. Debt \in Nat /\ Debt' \in Nat /\ Owed(o) \in Nat /\ Owed(o)' \in Nat
  BY <1>1, DueType DEF Debt, Owed, Ops, Transfers
<1>4. QED
  BY <1>1, <1>2, <1>3 DEF Covered

LEMMA TimeoutResult == "CONNECTION_TIMEOUT" \in {MakeConnectionError(e) : e \in OsErrors}
BY DEF MakeConnectionError, OsErrors

-----------------------------------------------------------------------------
(* Connecting.                                                             *)

LEMMA ConnectStep ==
  ASSUME Inv, Connect \/ Resolved \/ ConnectFinishes \/ ConnectExpires
  PROVE  Inv'
<1>1. w \in [Ops -> Frames]
  BY DEF Inv, TypeOK, Frames
<1>2. /\ phase \in {"new", "resolving", "connecting"}
      /\ UNCHANGED <<tls, slot, stale, late, started, touched, ub, credit>>
  BY DEF Connect, Resolved, ConnectFinishes, ConnectExpires
<1>3. CASE UNCHANGED w /\ phase' \in {"resolving", "connecting", "up", "failed"}
  <2>1. TypeOK'
    <3>1. result' \in {"none", "NO_ERROR", "DNS_RESOLUTION_FAILED", "OPTION_ERROR", "errno"}
                       \cup {MakeConnectionError(e) : e \in OsErrors}
                       \cup {result}
      BY TimeoutResult DEF Connect, Resolved, ConnectFinishes, ConnectExpires, Fail,
                TcpOptionFails, TlsOptionFails
    <3>2. open' \in {TRUE, FALSE, open}
      BY DEF Connect, Resolved, ConnectFinishes, ConnectExpires, Fail,
                TcpOptionFails, TlsOptionFails
    <3>3. QED
      BY <1>2, <1>3, <3>1, <3>2, ZenonT(60) DEF Inv, TypeOK
  <2>2. QED
    BY <1>2, <1>3, <2>1 DEF Inv, FramesOK, Alone, HandshakeOK, Covered, Debt, Owed
<1>4. CASE /\ phase' = "handshaking" /\ UNCHANGED <<result, open>>
           /\ w' = [w EXCEPT !["handshake"] = Frame(1, FALSE)]
  <2> DEFINE g == Frame(1, FALSE)
  <2>1. open \in BOOLEAN /\ ub' \in BOOLEAN /\ ub \in BOOLEAN /\ 1 \in 1 .. MaxWaits
    BY <1>2, BoundsAssumption DEF Inv, TypeOK
  <2>2. /\ g \in Frames /\ FrameOK(g, ub') /\ AbortDue(g) = 0 /\ CancelDue(g) = 0
        /\ g.pc # "idle" /\ g.ec # "aborted" /\ ~ g.signalled
    BY <2>1, NewFrame
  <2> HIDE DEF g
  <2>3. /\ w' \in [Ops -> Frames] /\ FramesOK' /\ w'["handshake"] = g
        /\ \A x \in Ops : x # "handshake" => w'[x] = w[x]
    BY <1>2, <1>4, <2>1, <2>2, OneFrame DEF g, Inv, TypeOK, Ops
  <2>4. TypeOK'
    BY <1>2, <1>4, <2>3 DEF Inv, TypeOK, Frames
  <2>5. Alone' /\ HandshakeOK'
    BY <1>2, <1>4, <2>2, <2>3 DEF Inv, Alone, HandshakeOK, Ops, Transfers
  <2>6. Covered'
    <3>1. Owed("handshake")' <= Owed("handshake")
      BY <1>2, <2>2, <2>3, DueType DEF Owed, Inv, TypeOK, Ops
    <3>2. QED
      BY <1>2, <2>3, <2>4, <3>1, CoveredStep DEF Inv, TypeOK, Ops
  <2>7. QED
    BY <2>3, <2>4, <2>5, <2>6 DEF Inv
<1>5. QED
  BY <1>3, <1>4 DEF Connect, Resolved, ConnectFinishes, ConnectExpires, Fail,
                    TcpOptionFails, TlsOptionFails

-----------------------------------------------------------------------------
(* Rounds of an operation.                                                 *)

LEMMA InitiateStep ==
  ASSUME Inv, NEW o \in Ops, Initiate(o)
  PROVE  Inv'
<1> DEFINE f == w[o]
           p == IF open THEN "waiting" ELSE "completed"
           e == IF open THEN "ok" ELSE "bad_descriptor"
           g == [f EXCEPT !.pc = p, !.ec = e]
<1>1. /\ f \in Frames /\ w \in [Ops -> Frames] /\ FrameOK(f, ub) /\ f.pc = "starting"
      /\ ub \in BOOLEAN
  BY DEF Inv, TypeOK, Frames, FramesOK, Initiate
<1>2. /\ UNCHANGED <<phase, result, tls, open, stale, late, started, touched, ub, credit>>
      /\ slot' \in Transfers \cup {"none"}
  BY DEF Initiate, TakeSlot, Inv, TypeOK
<1>3. /\ p \in {"waiting", "completed"} /\ e \in {"ok", "bad_descriptor"}
      /\ e # "ok" => p = "completed"
  OBVIOUS
<1>4. w' = [w EXCEPT ![o] = g]
  BY <1>1 DEF Initiate
<1>5. /\ g \in Frames /\ g.pc = p /\ g.ec = e
      /\ g.timer = f.timer /\ g.timedOut = f.timedOut /\ g.signalled = f.signalled
  <2> HIDE DEF f, p, e
  <2>1. /\ p \in {"idle", "starting", "waiting", "between", "completed"}
        /\ e \in {"ok", "aborted", "failed", "bad_descriptor"}
    BY <1>3
  <2>2. QED
    BY <1>1, <2>1 DEF Frames
<1> HIDE DEF g, p, e
<1>6. FrameOK(g, ub) /\ AbortDue(g) = 0 /\ CancelDue(g) = CancelDue(f)
  BY <1>1, <1>3, <1>5 DEF FrameOK, AbortDue, CancelDue
<1>7. /\ w' \in [Ops -> Frames] /\ FramesOK' /\ w'[o] = g
      /\ \A x \in Ops : x # o => w'[x] = w[x]
  BY <1>1, <1>2, <1>4, <1>5, <1>6, OneFrame DEF Inv
<1>8. TypeOK'
  BY <1>2, <1>7 DEF Inv, TypeOK, Frames
<1>9. Alone'
  BY <1>1, <1>2, <1>7 DEF Inv, Alone, Ops, Transfers
<1>10. HandshakeOK'
  BY <1>1, <1>3, <1>5, <1>7 DEF Inv, HandshakeOK, Ops
<1>11. Covered'
  <2>1. Owed(o)' <= Owed(o)
    BY <1>1, <1>2, <1>6, <1>7, DueType DEF Owed, Inv, TypeOK
  <2>2. QED
    BY <1>1, <1>2, <1>7, <1>8, <2>1, CoveredStep DEF Inv, TypeOK
<1>12. QED
  BY <1>7, <1>8, <1>9, <1>10, <1>11 DEF Inv

LEMMA RoundStep ==
  ASSUME Inv, NEW o \in Ops, RoundDone(o) \/ RoundFails(o)
  PROVE  Inv'
<1> DEFINE f == w[o]
           g == w'[o]
<1>1. f \in Frames /\ w \in [Ops -> Frames] /\ FrameOK(f, ub) /\ f.pc = "waiting"
  BY DEF Inv, TypeOK, Frames, FramesOK, RoundDone, RoundFails
<1>2. UNCHANGED <<phase, result, tls, open, slot, stale, late, started, touched, ub, credit>>
  BY DEF RoundDone, RoundFails
<1>3. /\ w' = [w EXCEPT ![o] = g] /\ g \in Frames
      /\ g.timer = f.timer /\ g.timedOut = f.timedOut /\ g.signalled = f.signalled
      /\ g.pc \in {"completed", "between"} /\ g.ec \in {"ok", "failed"}
      /\ g.ec # "ok" => g.pc = "completed"
  <2>0. f.ec = "ok"
    BY <1>1 DEF FrameOK
  <2>1. CASE w' = [w EXCEPT ![o].pc = "completed"]
    <3>1. w' = [w EXCEPT ![o] = g] /\ g = [f EXCEPT !.pc = "completed"]
      BY <1>1, <2>1
    <3> HIDE DEF f, g
    <3>2. QED
      BY <1>1, <2>0, <3>1, SetPc
  <2>2. CASE w' = [w EXCEPT ![o].pc = "between"]
    <3>1. w' = [w EXCEPT ![o] = g] /\ g = [f EXCEPT !.pc = "between"]
      BY <1>1, <2>2, SMTT(30)
    <3> HIDE DEF f, g
    <3>2. QED
      BY <1>1, <2>0, <3>1, SetPc
  <2>3. CASE w' = [w EXCEPT ![o].pc = "completed", ![o].ec = "failed"]
    <3>1. w' = [w EXCEPT ![o] = g] /\ g = [f EXCEPT !.pc = "completed", !.ec = "failed"]
      BY <1>1, <2>3
    <3> HIDE DEF f, g
    <3>2. QED
      BY <1>1, <2>0, <3>1, SetPcEc, ZenonT(60)
  <2>4. QED
    BY <2>1, <2>2, <2>3 DEF RoundDone, RoundFails
<1> HIDE DEF f, g
<1>4. ~ub => ~f.signalled
  BY <1>1 DEF FrameOK
<1>5. FrameOK(g, ub') /\ AbortDue(g) = IF g.pc = "between" /\ g.signalled THEN 1 ELSE 0
  BY <1>1, <1>2, <1>3 DEF FrameOK, AbortDue
<1>6. /\ w' \in [Ops -> Frames] /\ FramesOK'
      /\ \A x \in Ops : x # o => w'[x] = w[x]
  BY <1>2, <1>3, <1>5, OneFrame DEF Inv, TypeOK
<1>7. TypeOK'
  BY <1>2, <1>6 DEF Inv, TypeOK, Frames
<1>8. Alone' /\ HandshakeOK'
  BY <1>1, <1>2, <1>3, <1>6 DEF Inv, Alone, HandshakeOK, Ops, Transfers, f, g
<1>9. Covered'
  <2>1. CASE ub
    BY <1>2, <2>1 DEF Covered
  <2>2. CASE ~ub
    <3>1. Owed(o)' <= Owed(o)
      BY <1>2, <1>3, <1>4, <1>5, <2>2, DueType DEF Owed, CancelDue, Inv, TypeOK, f, g
    <3>2. QED
      BY <1>2, <1>6, <1>7, <3>1, CoveredStep DEF Inv, TypeOK
  <2>3. QED
    BY <2>1, <2>2
<1>10. QED
  BY <1>6, <1>7, <1>8, <1>9 DEF Inv

\* The intermediate handler of a composed operation.
LEMMA NextRoundStep ==
  ASSUME Inv, NEW o \in Ops, NextRound(o)
  PROVE  Inv'
<1> DEFINE f == w[o]
           g == w'[o]
<1>1. f \in Frames /\ w \in [Ops -> Frames] /\ FrameOK(f, ub) /\ f.pc = "between"
  BY DEF Inv, TypeOK, Frames, FramesOK, NextRound
<1>2. /\ UNCHANGED <<phase, result, tls, open, slot, stale, late, started, touched>>
      /\ ub' = (ub \/ (o \in Transfers /\ slot # o))
      /\ credit' = IF ub' THEN 0 ELSE credit
  BY DEF NextRound
<1>3. ub' \in BOOLEAN /\ ub \in BOOLEAN /\ (ub => ub')
  BY <1>2 DEF Inv, TypeOK
<1> DEFINE Stops == CASE o = "handshake" -> {FALSE}
                       [] slot = o -> {f.signalled}
                       [] OTHER -> BOOLEAN
<1>p. PICK stop \in Stops :
        w' = [w EXCEPT ![o] = CASE stop -> Aborted(f)
                                [] ~stop /\ open -> [f EXCEPT !.pc = "waiting"]
                                [] OTHER -> [f EXCEPT !.pc = "completed", !.ec = "bad_descriptor"]]
  BY DEF NextRound
<1>4. /\ stop \in BOOLEAN
      /\ o = "handshake" => ~stop
      /\ o # "handshake" /\ slot = o => stop = f.signalled
  <2>1. f.signalled \in BOOLEAN
    BY <1>1 DEF Frames
  <2> HIDE DEF f
  <2>2. CASE o = "handshake"
    <3>1. Stops = {FALSE}
      BY <2>2 DEF Inv, TypeOK, Transfers
    <3>2. stop = FALSE
      BY <3>1
    <3>3. QED
      BY <2>2, <3>2
  <2>3. CASE o # "handshake" /\ slot = o
    <3>1. Stops = {f.signalled}
      BY <2>3
    <3>2. stop = f.signalled
      BY <3>1
    <3>3. QED
      BY <2>1, <2>3, <3>2
  <2>4. CASE o # "handshake" /\ slot # o
    <3>1. Stops = BOOLEAN
      BY <2>4
    <3>2. QED
      BY <2>4, <3>1
  <2>5. QED
    BY <2>2, <2>3, <2>4
<1> HIDE DEF Stops
<1>5. f.ec = "ok"
  BY <1>1 DEF FrameOK
<1>6. ~ub' => (stop <=> f.signalled)
  BY <1>2, <1>3, <1>4 DEF Ops, Transfers, Inv, HandshakeOK
<1>7. /\ w' = [w EXCEPT ![o] = g] /\ g \in Frames /\ FrameOK(g, ub')
      /\ g.timer = f.timer /\ g.signalled = f.signalled
      /\ g.pc \in {"waiting", "completed"}
      /\ g.pc = "completed" /\ g.ec = "aborted" => stop
  <2>1. CASE stop
    <3>1. w' = [w EXCEPT ![o] = g] /\ g = Aborted(f)
      BY <1>1, <1>4, <1>p, <2>1
    <3> HIDE DEF f, g
    <3>2. FrameOK(f, ub')
      BY <1>1, <1>3, FrameWeaker
    <3>3. g \in Frames /\ FrameOK(g, ub') /\ g.timer = f.timer /\ g.pc = "completed"
      BY <1>1, <1>3, <3>1, <3>2, AbortedFrame
    <3>4. g.signalled = f.signalled
      BY <1>1, <3>1, SetPcEc, ZenonT(60) DEF Aborted
    <3>5. QED
      BY <2>1, <3>1, <3>3, <3>4
  <2>2. CASE ~stop /\ open
    <3>1. w' = [w EXCEPT ![o] = g] /\ g = [f EXCEPT !.pc = "waiting"]
      BY <1>1, <1>4, <1>p, <2>2
    <3> HIDE DEF f, g
    <3>2. /\ g \in Frames /\ g.pc = "waiting" /\ g.ec = f.ec /\ g.timer = f.timer
          /\ g.timedOut = f.timedOut /\ g.signalled = f.signalled
      BY <1>1, <3>1, SetPc
    <3>3. FrameOK(g, ub')
      BY <1>1, <1>3, <1>5, <1>6, <2>2, <3>2 DEF FrameOK
    <3>4. QED
      BY <3>1, <3>2, <3>3
  <2>3. CASE ~stop /\ ~open
    <3>1. w' = [w EXCEPT ![o] = g] /\ g = [f EXCEPT !.pc = "completed", !.ec = "bad_descriptor"]
      BY <1>1, <1>4, <1>p, <2>3
    <3> HIDE DEF f, g
    <3>2. /\ g \in Frames /\ g.pc = "completed" /\ g.ec = "bad_descriptor" /\ g.timer = f.timer
          /\ g.timedOut = f.timedOut /\ g.signalled = f.signalled
      BY <1>1, <3>1, SetPcEc, ZenonT(60)
    <3>3. FrameOK(g, ub')
      BY <1>1, <1>3, <3>2 DEF FrameOK
    <3>4. QED
      BY <3>1, <3>2, <3>3
  <2>4. QED
    BY <2>1, <2>2, <2>3
<1> HIDE DEF f, g
<1>8. /\ w' \in [Ops -> Frames] /\ FramesOK'
      /\ \A x \in Ops : x # o => w'[x] = w[x]
  BY <1>3, <1>7, OneFrame DEF Inv
<1>9. TypeOK'
  BY <1>2, <1>3, <1>8 DEF Inv, TypeOK, Frames
<1>10. Alone' /\ HandshakeOK'
  BY <1>1, <1>2, <1>4, <1>7, <1>8 DEF Inv, Alone, HandshakeOK, Ops, Transfers, f, g
<1>11. Covered'
  <2>1. CASE ub'
    BY <2>1 DEF Covered
  <2>2. CASE ~ub'
    <3>1. AbortDue(g) <= AbortDue(f) /\ CancelDue(g) = CancelDue(f)
      BY <1>1, <1>6, <1>7, <2>2 DEF AbortDue, CancelDue
    <3>2. Owed(o)' <= Owed(o)
      BY <1>2, <3>1, DueType DEF Owed, Inv, TypeOK, f, g
    <3>3. UNCHANGED <<touched, ub>> /\ credit' >= credit
      <4>1. ub = FALSE /\ ub' = FALSE
        BY <1>3, <2>2
      <4>2. credit' = credit /\ credit \in Int /\ UNCHANGED touched
        BY <1>2, <2>2 DEF Inv, TypeOK
      <4>3. ub' = ub
        BY <4>1
      <4>4. credit' >= credit
        BY <4>2
      <4>5. QED
        BY <4>2, <4>3, <4>4
    <3>4. QED
      BY <1>2, <1>8, <1>9, <3>2, <3>3, CoveredStep DEF Inv, TypeOK
  <2>3. QED
    BY <2>1, <2>2
<1>12. QED
  BY <1>8, <1>9, <1>10, <1>11 DEF Inv

-----------------------------------------------------------------------------
(* Timers.                                                                 *)

LEMMA TimerExpiresStep ==
  ASSUME Inv, NEW o \in Ops, TimerExpires(o)
  PROVE  Inv'
<1> DEFINE f == w[o]
           g == w'[o]
<1>1. f \in Frames /\ w \in [Ops -> Frames] /\ FrameOK(f, ub) /\ f.timer = "armed"
  BY DEF Inv, TypeOK, Frames, FramesOK, TimerExpires
<1>2. /\ UNCHANGED <<phase, result, tls, open, slot, stale, late, started, touched, ub>>
      /\ credit' = IF touched \/ ub THEN 0 ELSE credit + 2
      /\ credit \in Int /\ credit' \in Int
  BY DEF TimerExpires, Account, Inv, TypeOK
<1>3. w' = [w EXCEPT ![o] = g] /\ g = [f EXCEPT !.timer = "queued"]
  BY <1>1 DEF TimerExpires
<1> HIDE DEF f, g
<1>4. /\ g \in Frames /\ g.pc = f.pc /\ g.ec = f.ec /\ g.timer = "queued"
      /\ g.timedOut = f.timedOut /\ g.signalled = f.signalled
  BY <1>1, <1>3, SetTimer
<1>5. FrameOK(g, ub')
  BY <1>1, <1>2, <1>4 DEF FrameOK
<1>6. /\ w' \in [Ops -> Frames] /\ FramesOK'
      /\ \A x \in Ops : x # o => w'[x] = w[x]
  BY <1>2, <1>3, <1>4, <1>5, OneFrame DEF Inv, TypeOK
<1>7. TypeOK'
  BY <1>2, <1>6 DEF Inv, TypeOK, Frames
<1>8. Alone' /\ HandshakeOK'
  BY <1>2, <1>4, <1>6 DEF Inv, Alone, HandshakeOK, Ops, Transfers, f, g
<1>9. Covered'
  <2>1. AbortDue(g) = AbortDue(f) /\ CancelDue(g) = 1 /\ CancelDue(f) = 0
    BY <1>1, <1>4 DEF AbortDue, CancelDue
  <2>2. Owed(o)' = Owed(o) + 2
    BY <1>2, <2>1, DueType DEF Owed, Inv, TypeOK, f, g
  <2>3. Debt' = Debt + Owed(o)' - Owed(o) /\ Owed(o) \in Nat /\ Debt \in Nat
    BY <1>2, <1>6, <1>7, DebtStep, OwedType DEF Inv, TypeOK
  <2>4. Debt' = Debt + 2
    BY <2>2, <2>3
  <2>5. QED
    BY <1>2, <2>3, <2>4 DEF Inv, Covered
<1>10. QED
  BY <1>6, <1>7, <1>8, <1>9 DEF Inv

LEMMA TimerStoresStep ==
  ASSUME Inv, NEW o \in Ops, TimerStores(o)
  PROVE  Inv'
<1> DEFINE f == w[o]
           g == w'[o]
<1>1. f \in Frames /\ w \in [Ops -> Frames] /\ FrameOK(f, ub) /\ f.timer = "queued"
  BY DEF Inv, TypeOK, Frames, FramesOK, TimerStores
<1>2. UNCHANGED <<phase, result, tls, open, slot, stale, late, started, touched, ub, credit>>
  BY DEF TimerStores
<1>3. w' = [w EXCEPT ![o] = g] /\ g = [f EXCEPT !.timer = "running", !.timedOut = TRUE]
  BY <1>1 DEF TimerStores
<1> HIDE DEF f, g
<1>4. /\ g \in Frames /\ g.pc = f.pc /\ g.ec = f.ec /\ g.timer = "running"
      /\ g.timedOut /\ g.signalled = f.signalled
  BY <1>1, <1>3, SetTimerTimedOut
<1>5. FrameOK(g, ub')
  BY <1>1, <1>2, <1>4 DEF FrameOK
<1>6. /\ w' \in [Ops -> Frames] /\ FramesOK'
      /\ \A x \in Ops : x # o => w'[x] = w[x]
  BY <1>2, <1>3, <1>4, <1>5, OneFrame DEF Inv, TypeOK
<1>7. TypeOK'
  BY <1>2, <1>6 DEF Inv, TypeOK, Frames
<1>8. Alone' /\ HandshakeOK'
  BY <1>2, <1>4, <1>6 DEF Inv, Alone, HandshakeOK, Ops, Transfers, f, g
<1>9. Covered'
  <2>1. AbortDue(g) = AbortDue(f) /\ CancelDue(g) = CancelDue(f)
    BY <1>1, <1>4 DEF AbortDue, CancelDue
  <2>2. Owed(o)' <= Owed(o)
    BY <1>2, <2>1, DueType DEF Owed, Inv, TypeOK, f, g
  <2>3. QED
    BY <1>2, <1>6, <1>7, <2>2, CoveredStep DEF Inv, TypeOK
<1>10. QED
  BY <1>6, <1>7, <1>8, <1>9 DEF Inv

\* What one cancel does to all frames.
LEMMA CancelAll ==
  ASSUME Inv
  PROVE  /\ Cancelled \in [Ops -> Frames]
         /\ \A x \in Ops : /\ FrameOK(Cancelled[x], ub)
                           /\ Cancelled[x].pc = "idle" <=> w[x].pc = "idle"
                           /\ w[x].pc = "idle" => Cancelled[x] = w[x]
                           /\ CancelDue(Cancelled[x]) = CancelDue(w[x])
                           /\ Cancelled[x].timer = w[x].timer
                           /\ Cancelled[x].timedOut = w[x].timedOut
         /\ ~ Cancelled["handshake"].signalled
<1>1. w \in [Ops -> Frames] /\ ub \in BOOLEAN /\ \A x \in Ops : FrameOK(w[x], ub)
  BY DEF Inv, TypeOK, Frames, FramesOK
<1>2. \A x \in Ops : /\ Cancelled[x] \in Frames /\ FrameOK(Cancelled[x], ub)
                     /\ Cancelled[x].pc = "idle" <=> w[x].pc = "idle"
                     /\ w[x].pc = "idle" => Cancelled[x] = w[x]
                     /\ Cancelled[x].timer = w[x].timer
                     /\ Cancelled[x].timedOut = w[x].timedOut
  BY <1>1, CancelledFrame
<1>3. Cancelled \in [Ops -> Frames]
  BY <1>2 DEF Cancelled
<1>4. ~ Cancelled["handshake"].signalled
  <2> DEFINE f == w["handshake"]
  <2>1. f \in Frames /\ ~f.signalled /\ slot # "handshake"
    BY <1>1 DEF Inv, HandshakeOK, TypeOK, Transfers, Ops
  <2>2. Cancelled["handshake"] = IF f.pc = "waiting" THEN Aborted(f) ELSE f
    BY <2>1, SMTT(30) DEF Cancelled, Ops
  <2>3. Aborted(f).signalled = f.signalled
    BY <2>1, SetPcEc DEF Aborted
  <2>4. QED
    BY <2>1, <2>2, <2>3
<1>5. \A x \in Ops : CancelDue(Cancelled[x]) = CancelDue(w[x])
  BY <1>2 DEF CancelDue
<1>6. \A x \in Ops : /\ FrameOK(Cancelled[x], ub)
                     /\ Cancelled[x].pc = "idle" <=> w[x].pc = "idle"
                     /\ w[x].pc = "idle" => Cancelled[x] = w[x]
                     /\ CancelDue(Cancelled[x]) = CancelDue(w[x])
                     /\ Cancelled[x].timer = w[x].timer
                     /\ Cancelled[x].timedOut = w[x].timedOut
  BY <1>2, <1>5
<1>7. QED
  BY <1>3, <1>4, <1>6

\* One cancel aborts or marks the read, the write or both, or else the handshake,
\* but never more than two.
LEMMA CancelDebt ==
  ASSUME Inv
  PROVE  AbortDue(Cancelled["read"]) + AbortDue(Cancelled["write"])
           + AbortDue(Cancelled["handshake"])
         <= AbortDue(w["read"]) + AbortDue(w["write"]) + AbortDue(w["handshake"]) + 2
<1>1. \/ w["handshake"].pc = "idle"
      \/ w["read"].pc = "idle" /\ w["write"].pc = "idle"
  BY DEF Inv, Alone, Transfers
<1>2. \A x \in Ops : w[x].pc = "idle" => Cancelled[x] = w[x]
  BY CancelAll
<1>3. \/ AbortDue(Cancelled["handshake"]) = AbortDue(w["handshake"])
      \/ /\ AbortDue(Cancelled["read"]) = AbortDue(w["read"])
         /\ AbortDue(Cancelled["write"]) = AbortDue(w["write"])
  BY <1>1, <1>2 DEF Ops, Transfers
<1>4. \A x \in Ops : AbortDue(w[x]) \in {0, 1} /\ AbortDue(Cancelled[x]) \in {0, 1}
  BY DueType
<1>5. QED
  BY <1>3, <1>4 DEF Ops, Transfers

\* The debt, split by what it is made of.
LEMMA DebtParts ==
  ASSUME stale \in [Ops -> Nat], late \in [Ops -> Nat]
  PROVE  Debt = AbortDue(w["read"]) + AbortDue(w["write"]) + AbortDue(w["handshake"])
              + 2 * (CancelDue(w["read"]) + CancelDue(w["write"]) + CancelDue(w["handshake"])
                     + stale["read"] + stale["write"] + stale["handshake"]
                     + late["read"] + late["write"] + late["handshake"])
BY DueType DEF Debt, Owed, Ops, Transfers

LEMMA TimerCancelsStep ==
  ASSUME Inv, NEW o \in Ops, TimerCancels(o)
  PROVE  Inv'
<1> DEFINE f == Cancelled[o]
           g == w'[o]
<1>1. UNCHANGED <<phase, result, tls, open, slot, stale, late, started, touched, ub, credit>>
  BY DEF TimerCancels
<1>c. /\ Cancelled \in [Ops -> Frames]
      /\ \A x \in Ops : /\ FrameOK(Cancelled[x], ub)
                        /\ Cancelled[x].pc = "idle" <=> w[x].pc = "idle"
                        /\ CancelDue(Cancelled[x]) = CancelDue(w[x])
                        /\ Cancelled[x].timer = w[x].timer
  BY CancelAll
<1>2. f \in Frames /\ FrameOK(f, ub) /\ f.timer = "running"
  BY <1>c DEF TimerCancels
<1>t. PICK t \in {"none", "lost"} : w' = [Cancelled EXCEPT ![o].timer = t]
  BY Zenon DEF TimerCancels
<1>3. /\ w' \in [Ops -> Frames] /\ g = [f EXCEPT !.timer = t]
      /\ \A x \in Ops : x # o => w'[x] = Cancelled[x]
  <2>1. w' = [Cancelled EXCEPT ![o].timer = t] /\ Cancelled \in [Ops -> Frames]
    BY <1>t, CancelAll
  <2>2. g = [f EXCEPT !.timer = t] /\ \A x \in Ops : x # o => w'[x] = Cancelled[x]
    BY <2>1
  <2>3. [f EXCEPT !.timer = t] \in Frames
    BY <1>2, <1>t, SetTimer
  <2>4. w' = [Cancelled EXCEPT ![o] = [f EXCEPT !.timer = t]]
    BY <2>1
  <2>5. w' \in [Ops -> Frames]
    BY <2>1, <2>3, <2>4
  <2>6. QED
    BY <2>2, <2>5
<1>4. /\ g.pc = f.pc /\ g.ec = f.ec /\ g.timer = t
      /\ g.timedOut = f.timedOut /\ g.signalled = f.signalled
  <2> HIDE DEF f, g
  <2>1. QED
    BY <1>2, <1>3, <1>t, SetTimer
<1>5. f.timedOut /\ (f.pc = "idle" <=> w[o].pc = "idle") /\ w[o].timer = "running" /\ w[o].pc # "idle"
  BY <1>2, CancelAll DEF FrameOK, TimerCancels, Inv, FramesOK
<1>6. FrameOK(g, ub)
  <2> HIDE DEF f, g
  <2>1. QED
    BY <1>2, <1>4, <1>5, <1>t DEF FrameOK
<1>7. FramesOK'
  BY <1>1, <1>3, <1>6, <1>c DEF FramesOK
<1>8. TypeOK'
  BY <1>1, <1>3 DEF Inv, TypeOK, Frames
<1>9. Alone'
  <2>1. \A x \in Ops : w'[x].pc = "idle" <=> w[x].pc = "idle"
    BY <1>3, <1>4, <1>5, <1>c
  <2>2. QED
    BY <1>1, <2>1 DEF Inv, Alone, Ops
<1>10. HandshakeOK'
  <2>1. CASE o = "handshake"
    BY <1>4, <1>5, <2>1, CancelAll DEF HandshakeOK
  <2>2. CASE o # "handshake"
    <3>1. w["handshake"].pc = "idle"
      BY <1>5, <2>2 DEF Inv, Alone, Ops
    <3>2. w'["handshake"] = w["handshake"]
      BY <1>3, <2>2, <3>1, CancelAll DEF Ops
    <3>3. QED
      BY <3>1, <3>2 DEF Inv, HandshakeOK
  <2>3. QED
    BY <2>1, <2>2
<1>11. Covered'
  <2>1. AbortDue(g) = AbortDue(f) /\ CancelDue(g) = 0 /\ CancelDue(w[o]) = 1
    BY <1>4, <1>5 DEF AbortDue, CancelDue
  <2>2. \A x \in Ops : /\ AbortDue(w'[x]) = AbortDue(Cancelled[x])
                       /\ CancelDue(w'[x]) = IF x = o THEN 0 ELSE CancelDue(w[x])
    BY <1>3, <2>1, <1>c
  <2>3. /\ stale \in [Ops -> Nat] /\ late \in [Ops -> Nat]
        /\ stale' \in [Ops -> Nat] /\ late' \in [Ops -> Nat] /\ credit \in Int
    BY <1>1 DEF Inv, TypeOK
  <2>4. /\ Debt = AbortDue(w["read"]) + AbortDue(w["write"]) + AbortDue(w["handshake"])
              + 2 * (CancelDue(w["read"]) + CancelDue(w["write"]) + CancelDue(w["handshake"])
                     + stale["read"] + stale["write"] + stale["handshake"]
                     + late["read"] + late["write"] + late["handshake"])
        /\ Debt' = AbortDue(w'["read"]) + AbortDue(w'["write"]) + AbortDue(w'["handshake"])
              + 2 * (CancelDue(w'["read"]) + CancelDue(w'["write"]) + CancelDue(w'["handshake"])
                     + stale["read"] + stale["write"] + stale["handshake"]
                     + late["read"] + late["write"] + late["handshake"])
    <3>1. Debt' = (AbortDue(w["read"]) + AbortDue(w["write"]) + AbortDue(w["handshake"])
              + 2 * (CancelDue(w["read"]) + CancelDue(w["write"]) + CancelDue(w["handshake"])
                     + stale["read"] + stale["write"] + stale["handshake"]
                     + late["read"] + late["write"] + late["handshake"]))'
      BY <2>3, DueType DEF Debt, Owed, Ops, Transfers
    <3>2. QED
      BY <1>1, <2>3, <3>1, DebtParts
  <2>5. Debt' <= Debt
    <3>1. \A x \in Ops : /\ AbortDue(w[x]) \in Nat /\ AbortDue(w'[x]) \in Nat
                         /\ CancelDue(w[x]) \in Nat /\ CancelDue(w'[x]) \in Nat
                         /\ stale[x] \in Nat /\ late[x] \in Nat
      BY <2>3, DueType
    <3>2. CancelDue(w'["read"]) + CancelDue(w'["write"]) + CancelDue(w'["handshake"]) + 1
            = CancelDue(w["read"]) + CancelDue(w["write"]) + CancelDue(w["handshake"])
      BY <2>1, <2>2, <3>1 DEF Ops, Transfers
    <3>3. AbortDue(w'["read"]) + AbortDue(w'["write"]) + AbortDue(w'["handshake"])
            <= AbortDue(w["read"]) + AbortDue(w["write"]) + AbortDue(w["handshake"]) + 2
      BY <2>2, CancelDebt DEF Ops, Transfers
    <3>4. QED
      BY <2>4, <3>1, <3>2, <3>3 DEF Ops, Transfers
  <2>6. Debt \in Nat /\ Debt' \in Nat
    BY <2>3, DueType DEF Debt, Owed, Ops, Transfers
  <2>7. QED
    BY <1>1, <2>3, <2>5, <2>6 DEF Inv, Covered
<1>12. QED
  BY <1>7, <1>8, <1>9, <1>10, <1>11 DEF Inv

\* The store of a handler that outlived its wait.
LEMMA StaleStoresStep ==
  ASSUME Inv, NEW o \in Ops, StaleStores(o)
  PROVE  Inv'
<1>1. /\ w \in [Ops -> Frames] /\ stale \in [Ops -> Nat] /\ late \in [Ops -> Nat]
      /\ ub \in BOOLEAN /\ stale[o] > 0
  BY DEF Inv, TypeOK, Frames, StaleStores
<1>2. /\ UNCHANGED <<phase, result, tls, open, slot, started, touched>>
      /\ stale' = [stale EXCEPT ![o] = @ - 1] /\ late' = [late EXCEPT ![o] = @ + 1]
      /\ stale' \in [Ops -> Nat] /\ late' \in [Ops -> Nat]
      /\ phase \notin {"new", "resolving", "connecting", "handshaking"}
  BY <1>1 DEF StaleStores, Inv, Alone
<1>3. CASE UNCHANGED <<w, ub, credit>>
  <2>1. TypeOK'
    BY <1>2, <1>3 DEF Inv, TypeOK
  <2>2. Alone' /\ HandshakeOK' /\ FramesOK'
    BY <1>2, <1>3 DEF Inv, Alone, HandshakeOK, FramesOK
  <2>3. Owed(o)' <= Owed(o)
    BY <1>1, <1>2, <1>3, DueType DEF Owed
  <2>4. credit' >= credit
    BY <1>3 DEF Inv, TypeOK
  <2>5. Covered'
    BY <1>1, <1>2, <1>3, <2>1, <2>3, <2>4, CoveredStep DEF Inv
  <2>6. QED
    BY <2>1, <2>2, <2>5 DEF Inv
<1>4. ASSUME NEW x \in Ops, w[x].pc # "idle", w' = [w EXCEPT ![x].timedOut = TRUE],
             ub' = TRUE, credit' = 0
      PROVE  Inv'
  <2> DEFINE f == w[x]
             g == w'[x]
  <2>1. w' = [w EXCEPT ![x] = g] /\ g = [f EXCEPT !.timedOut = TRUE] /\ f \in Frames
    BY <1>1, <1>4
  <2>2. FrameOK(f, ub)
    BY DEF Inv, FramesOK
  <2>3. f.pc # "idle"
    BY <1>4
  <2> HIDE DEF f, g
  <2>4. /\ g \in Frames /\ g.pc = f.pc /\ g.ec = f.ec /\ g.timer = f.timer
        /\ g.timedOut /\ g.signalled = f.signalled
    BY <2>1, SetTimedOut
  <2>5. FrameOK(g, TRUE)
    BY <2>2, <2>4 DEF FrameOK
  <2>6. ub' \in BOOLEAN /\ (ub => ub') /\ FrameOK(g, ub')
    BY <1>4, <2>5
  <2>7. /\ w' \in [Ops -> Frames] /\ FramesOK'
        /\ \A y \in Ops : y # x => w'[y] = w[y]
    BY <2>1, <2>4, <2>6, OneFrame DEF Inv
  <2>8. credit' \in Int
    BY <1>4
  <2>9. TypeOK'
    BY <1>2, <2>6, <2>7, <2>8 DEF Inv, TypeOK, Frames
  <2>10. Alone' /\ HandshakeOK'
    BY <1>2, <2>4, <2>7 DEF Inv, Alone, HandshakeOK, Ops, Transfers, f, g
  <2>11. Covered'
    BY <1>4 DEF Covered
  <2>12. QED
    BY <2>7, <2>9, <2>10, <2>11 DEF Inv
<1>5. QED
  BY <1>3, <1>4 DEF StaleStores

\* The cancel of a handler that outlived its wait.
LEMMA StaleCancelsStep ==
  ASSUME Inv, NEW o \in Ops, StaleCancels(o)
  PROVE  Inv'
<1>1. /\ stale \in [Ops -> Nat] /\ late \in [Ops -> Nat] /\ late[o] > 0
      /\ credit \in Int /\ w \in [Ops -> Frames]
  BY DEF Inv, TypeOK, Frames, StaleCancels
<1>2. /\ UNCHANGED <<result, tls, slot, started, touched, ub, credit>>
      /\ phase \notin {"new", "resolving", "connecting", "handshaking"}
      /\ w["handshake"].pc = "idle"
  BY <1>1 DEF StaleCancels, Inv, Alone, Ops
<1>3. CASE /\ o \in Transfers /\ w' = Cancelled
           /\ late' = [late EXCEPT ![o] = @ - 1] /\ UNCHANGED <<phase, open, stale>>
  <2>1. late' \in [Ops -> Nat] /\ stale' \in [Ops -> Nat]
    BY <1>1, <1>3
  <2>2. /\ w' \in [Ops -> Frames]
        /\ \A x \in Ops : /\ FrameOK(w'[x], ub)
                          /\ w'[x].pc = "idle" <=> w[x].pc = "idle"
                          /\ w[x].pc = "idle" => w'[x] = w[x]
                          /\ CancelDue(w'[x]) = CancelDue(w[x])
    BY <1>3, CancelAll
  <2>3. TypeOK'
    BY <1>2, <1>3, <2>1, <2>2 DEF Inv, TypeOK, Frames
  <2>4. FramesOK'
    BY <1>2, <2>2 DEF FramesOK
  <2>5. Alone' /\ HandshakeOK'
    BY <1>2, <1>3, <2>2 DEF Inv, Alone, HandshakeOK, Ops, Transfers
  <2>6. Covered'
    <3>1. /\ Debt = AbortDue(w["read"]) + AbortDue(w["write"]) + AbortDue(w["handshake"])
              + 2 * (CancelDue(w["read"]) + CancelDue(w["write"]) + CancelDue(w["handshake"])
                     + stale["read"] + stale["write"] + stale["handshake"]
                     + late["read"] + late["write"] + late["handshake"])
      BY <1>1, DebtParts
    <3>2. Debt' = AbortDue(w'["read"]) + AbortDue(w'["write"]) + AbortDue(w'["handshake"])
              + 2 * (CancelDue(w'["read"]) + CancelDue(w'["write"]) + CancelDue(w'["handshake"])
                     + stale'["read"] + stale'["write"] + stale'["handshake"]
                     + late'["read"] + late'["write"] + late'["handshake"])
      BY <2>1, DueType DEF Debt, Owed, Ops, Transfers
    <3>3. \A x \in Ops : /\ AbortDue(w[x]) \in Nat /\ AbortDue(w'[x]) \in Nat
                         /\ CancelDue(w[x]) \in Nat
                         /\ CancelDue(w'[x]) = CancelDue(w[x]) /\ stale'[x] = stale[x]
                         /\ stale[x] \in Nat /\ late[x] \in Nat /\ late'[x] \in Nat
      BY <1>1, <1>3, <2>1, <2>2, DueType
    <3>4. AbortDue(w'["read"]) + AbortDue(w'["write"]) + AbortDue(w'["handshake"])
            <= AbortDue(w["read"]) + AbortDue(w["write"]) + AbortDue(w["handshake"]) + 2
      BY <1>3, CancelDebt
    <3>5. late'["read"] + late'["write"] + late'["handshake"] + 1
            = late["read"] + late["write"] + late["handshake"]
      BY <1>1, <1>3 DEF Ops, Transfers
    <3>6. Debt' <= Debt /\ Debt \in Nat /\ Debt' \in Nat
      BY <3>1, <3>2, <3>3, <3>4, <3>5 DEF Ops, Transfers
    <3>7. QED
      BY <1>1, <1>2, <3>6 DEF Inv, Covered
  <2>7. QED
    BY <2>3, <2>4, <2>5, <2>6 DEF Inv
<1>4. CASE /\ late' = [late EXCEPT ![o] = @ - 1] /\ UNCHANGED <<phase, open, w, stale>>
  <2>1. late' \in [Ops -> Nat] /\ stale' \in [Ops -> Nat]
    BY <1>1, <1>4
  <2>2. TypeOK'
    BY <1>2, <1>4, <2>1 DEF Inv, TypeOK
  <2>3. Alone' /\ HandshakeOK' /\ FramesOK'
    BY <1>2, <1>4 DEF Inv, Alone, HandshakeOK, FramesOK
  <2>4. Owed(o)' <= Owed(o)
    BY <1>1, <1>4, DueType DEF Owed
  <2>5. Covered'
    BY <1>1, <1>2, <1>4, <2>2, <2>4, CoveredStep DEF Inv
  <2>6. QED
    BY <2>2, <2>3, <2>5 DEF Inv
<1>5. CASE Terminate
  <2>1. /\ w' \in [Ops -> Frames] /\ \A x \in Ops : w'[x] = Idle
        /\ stale' \in [Ops -> Nat] /\ \A x \in Ops : stale'[x] = 0
        /\ late' \in [Ops -> Nat] /\ \A x \in Ops : late'[x] = 0
    BY <1>5, IdleFrame DEF Terminate
  <2>2. TypeOK'
    BY <1>2, <1>5, <2>1 DEF Inv, TypeOK, Frames, Terminate
  <2>3. Alone' /\ HandshakeOK'
    BY <1>5, <2>1, IdleFrame DEF Alone, HandshakeOK, Terminate, Ops, Transfers
  <2>4. FramesOK'
    BY <2>1, <2>2, IdleFrame DEF FramesOK, TypeOK
  <2>5. \A x \in Ops : Owed(x)' = 0
    BY <2>1, IdleFrame DEF Owed
  <2>6. Debt' = 0
    BY <2>5 DEF Debt, Ops, Transfers
  <2>7. Debt \in Nat
    BY <1>1, OwedType
  <2>8. Covered'
    BY <1>1, <1>2, <2>6, <2>7 DEF Inv, Covered
  <2>9. QED
    BY <2>2, <2>3, <2>4, <2>8 DEF Inv
<1>6. QED
  BY <1>3, <1>4, <1>5 DEF StaleCancels

-----------------------------------------------------------------------------
(* Operations and the application.                                         *)

LEMMA StartStep ==
  ASSUME Inv, NEW o \in Transfers, Start(o)
  PROVE  Inv'
<1> DEFINE f == w[o]
<1>1. /\ o \in Ops /\ f \in Frames /\ FrameOK(f, ub) /\ f.pc = "idle"
      /\ open \in BOOLEAN /\ ub \in BOOLEAN /\ phase = "up"
  BY DEF Inv, TypeOK, Frames, FramesOK, Ops, Start
<1>2. /\ UNCHANGED <<phase, result, tls, open, slot, stale, late, touched, ub, credit>>
      /\ slot' \in Transfers \cup {"none"}
      /\ started \in 0 .. MaxWaits /\ started < MaxWaits
  BY DEF Start, Inv, TypeOK
<1>3. PICK k \in 1 .. MaxWaits : /\ w' = [w EXCEPT ![o] = Frame(k, FALSE)]
                                 /\ started' = started + k /\ k <= MaxWaits - started
  <2>1. PICK k \in (IF o = "read" THEN 1 .. (MaxWaits - started) ELSE {1}) :
          w' = [w EXCEPT ![o] = Frame(k, FALSE)] /\ started' = started + k
    BY Zenon DEF Start
  <2>2. k \in 1 .. (MaxWaits - started)
    <3>1. 1 \in 1 .. (MaxWaits - started)
      BY <1>2, BoundsAssumption
    <3>2. QED
      BY <2>1, <3>1, Zenon
  <2>3. k \in 1 .. MaxWaits /\ k <= MaxWaits - started
    BY <1>2, <2>2, BoundsAssumption
  <2>4. QED
    BY <2>1, <2>3, Zenon
<1>4. started' \in 0 .. MaxWaits
  BY <1>2, <1>3, BoundsAssumption
<1> DEFINE g == Frame(k, FALSE)
<1>5. /\ g \in Frames /\ FrameOK(g, ub) /\ AbortDue(g) = 0 /\ CancelDue(g) = 0
  BY <1>1, NewFrame
<1> HIDE DEF g
<1>6. /\ w' \in [Ops -> Frames] /\ FramesOK' /\ w'[o] = g
      /\ \A x \in Ops : x # o => w'[x] = w[x]
  BY <1>1, <1>2, <1>3, <1>5, OneFrame DEF Inv, g
<1>7. TypeOK'
  BY <1>2, <1>4, <1>6 DEF Inv, TypeOK, Frames
<1>8. Alone' /\ HandshakeOK'
  BY <1>1, <1>2, <1>6 DEF Inv, Alone, HandshakeOK, Ops, Transfers
<1>9. Covered'
  <2>1. Owed(o)' <= Owed(o)
    BY <1>1, <1>2, <1>5, <1>6, DueType DEF Owed, Inv, TypeOK
  <2>2. QED
    BY <1>1, <1>2, <1>6, <1>7, <2>1, CoveredStep DEF Inv, TypeOK
<1>10. QED
  BY <1>6, <1>7, <1>8, <1>9 DEF Inv

\* The end of a wait of o, with the new frame g: the handler of its timer that is
\* under way is still counted, and a reported abort is paid for.
LEMMA WaitEnds ==
  ASSUME Inv, NEW o \in Ops, w[o].pc = "completed", NEW g \in Frames,
         FrameOK(g, ub), AbortDue(g) = 0, CancelDue(g) = 0,
         CancelTimer(o), Account(IF w[o].ec = "aborted" THEN -1 ELSE 0),
         w' = [w EXCEPT ![o] = g], UNCHANGED <<touched, ub>>
  PROVE  /\ w' \in [Ops -> Frames] /\ FramesOK' /\ w'[o] = g
         /\ \A x \in Ops : x # o => w'[x] = w[x]
         /\ stale' \in [Ops -> Nat] /\ late' \in [Ops -> Nat] /\ credit' \in Int
         /\ Covered'
<1> DEFINE f == w[o]
           n == IF f.ec = "aborted" THEN 1 ELSE 0
<1>1. /\ stale \in [Ops -> Nat] /\ late \in [Ops -> Nat] /\ credit \in Int
      /\ w \in [Ops -> Frames] /\ ub \in BOOLEAN /\ touched \in BOOLEAN
  BY DEF Inv, TypeOK, Frames
<1>2. /\ w' \in [Ops -> Frames] /\ FramesOK' /\ w'[o] = g
      /\ \A x \in Ops : x # o => w'[x] = w[x]
  BY <1>1, OneFrame DEF Inv
<1>3. /\ stale' \in [Ops -> Nat] /\ late' \in [Ops -> Nat]
      /\ \A x \in Ops : x # o => stale'[x] = stale[x] /\ late'[x] = late[x]
      /\ stale'[o] + late'[o] = stale[o] + late[o] + CancelDue(f)
  BY <1>1 DEF CancelTimer, CancelDue
<1>4. AbortDue(f) = n
  BY DEF AbortDue
<1>5. credit' \in Int /\ (~touched /\ ~ub => credit' = credit - n)
  BY <1>1 DEF Account
<1>6. Owed(o)' = Owed(o) - n
  <2>1. /\ Owed(o) = AbortDue(f) + 2 * (CancelDue(f) + stale[o] + late[o])
        /\ Owed(o)' = AbortDue(g) + 2 * (CancelDue(g) + stale'[o] + late'[o])
    BY <1>2 DEF Owed
  <2>2. AbortDue(f) \in {0, 1} /\ CancelDue(f) \in {0, 1}
    BY DueType
  <2>3. stale[o] \in Nat /\ late[o] \in Nat /\ stale'[o] \in Nat /\ late'[o] \in Nat
    BY <1>1, <1>3
  <2> HIDE DEF f
  <2>4. QED
    BY <1>3, <1>4, <2>1, <2>2, <2>3
<1>7. Debt' = Debt + Owed(o)' - Owed(o) /\ Owed(o) \in Nat /\ Debt \in Nat
  BY <1>1, <1>2, <1>3, DebtStep, OwedType
<1>8. n \in {0, 1}
  OBVIOUS
<1> HIDE DEF n
<1>9. Debt' = Debt - n
  BY <1>6, <1>7, <1>8
<1>10. Covered'
  BY <1>1, <1>5, <1>7, <1>8, <1>9 DEF Inv, Covered
<1>11. QED
  BY <1>2, <1>3, <1>5, <1>10

LEMMA ResumeStep ==
  ASSUME Inv, NEW o \in Ops, Resume(o)
  PROVE  Inv'
<1>1. /\ o \in Transfers /\ w[o] \in Frames /\ w[o].pc = "completed" /\ phase = "up"
      /\ open \in BOOLEAN /\ ub \in BOOLEAN
  BY DEF Inv, Alone, TypeOK, Frames, Resume
<1>2. /\ UNCHANGED <<phase, result, tls, open, started, touched, ub>>
      /\ slot' \in Transfers \cup {"none"}
  BY DEF Resume, TakeSlot, Inv, TypeOK
<1>3. PICK g \in Frames : /\ FrameOK(g, ub) /\ AbortDue(g) = 0 /\ CancelDue(g) = 0
                          /\ w' = [w EXCEPT ![o] = g]
  <2>1. CASE w[o].again > 0 /\ w' = [w EXCEPT ![o] = Frame(w[o].again, w[o].cancelled)]
    <3>1. w[o].again \in 1 .. MaxWaits /\ w[o].cancelled \in BOOLEAN
      BY <1>1, <2>1, BoundsAssumption DEF Frames
    <3>2. QED
      BY <1>1, <2>1, <3>1, NewFrame
  <2>2. CASE w' = [w EXCEPT ![o] = Idle]
    BY <1>1, <2>2, IdleFrame
  <2>3. QED
    BY <2>1, <2>2 DEF Resume
<1>4. /\ w' \in [Ops -> Frames] /\ FramesOK' /\ w'[o] = g
      /\ \A x \in Ops : x # o => w'[x] = w[x]
      /\ stale' \in [Ops -> Nat] /\ late' \in [Ops -> Nat] /\ credit' \in Int
      /\ Covered'
  BY <1>1, <1>2, <1>3, WaitEnds DEF Resume
<1>5. TypeOK'
  BY <1>2, <1>4 DEF Inv, TypeOK, Frames
<1>6. Alone' /\ HandshakeOK'
  BY <1>1, <1>2, <1>4 DEF Inv, Alone, HandshakeOK, Ops, Transfers
<1>7. QED
  BY <1>4, <1>5, <1>6 DEF Inv

LEMMA HandshakeResumesStep ==
  ASSUME Inv, HandshakeResumes
  PROVE  Inv'
<1> DEFINE o == "handshake"
<1>1. /\ o \in Ops /\ w[o].pc = "completed" /\ phase = "handshaking" /\ ub \in BOOLEAN
  BY DEF Inv, Alone, TypeOK, Ops, HandshakeResumes
<1>2. UNCHANGED <<tls, slot, started, touched, ub>>
  BY DEF HandshakeResumes
<1>3. /\ phase' \in {"up", "failed"}
      /\ result' \in {"NO_ERROR", "CONNECTION_TIMEOUT", "TLS_HANDSHAKE_FAILED"}
      /\ open' \in {open, FALSE}
  BY DEF HandshakeResumes, Fail
<1>4. /\ w' \in [Ops -> Frames] /\ FramesOK' /\ w'[o] = Idle
      /\ \A x \in Ops : x # o => w'[x] = w[x]
      /\ stale' \in [Ops -> Nat] /\ late' \in [Ops -> Nat] /\ credit' \in Int
      /\ Covered'
  BY <1>1, <1>2, IdleFrame, WaitEnds DEF HandshakeResumes
<1>5. TypeOK'
  BY <1>2, <1>3, <1>4, TimeoutResult DEF Inv, TypeOK, Frames
<1>6. Alone' /\ HandshakeOK'
  BY <1>1, <1>3, <1>4, IdleFrame DEF Inv, Alone, HandshakeOK, Ops, Transfers
<1>7. QED
  BY <1>4, <1>5, <1>6 DEF Inv

LEMMA CancelSocketStep ==
  ASSUME Inv, CancelSocket
  PROVE  Inv'
<1>1. /\ UNCHANGED <<phase, result, tls, open, slot, stale, late, started, ub>>
      /\ touched' = TRUE /\ credit' = 0 /\ phase = "up" /\ ub \in BOOLEAN
  BY DEF CancelSocket, Inv, TypeOK
<1>2. ASSUME NEW x \in Ops
      PROVE  /\ w'[x] \in Frames /\ FrameOK(w'[x], ub)
             /\ w'[x].pc = "idle" <=> w[x].pc = "idle"
             /\ w'[x].signalled = Cancelled[x].signalled
  <2> DEFINE f == Cancelled[x]
             c == x \in Busy
             g == w'[x]
  <2>1. f \in Frames /\ FrameOK(f, ub) /\ (f.pc = "idle" <=> w[x].pc = "idle")
    BY CancelAll
  <2>2. c \in BOOLEAN
    OBVIOUS
  <2>3. g = [f EXCEPT !.cancelled = c]
    BY DEF CancelSocket
  <2> HIDE DEF f, c, g
  <2>4. /\ g \in Frames /\ g.pc = f.pc /\ g.ec = f.ec /\ g.timer = f.timer
        /\ g.timedOut = f.timedOut /\ g.signalled = f.signalled
    BY <2>1, <2>2, <2>3, SetCancelled
  <2>5. FrameOK(g, ub)
    BY <2>1, <2>4 DEF FrameOK
  <2>6. QED
    BY <2>1, <2>4, <2>5 DEF f, g
<1>3. w' \in [Ops -> Frames] /\ FramesOK'
  <2>1. w' = [x \in Ops |-> w'[x]]
    BY DEF CancelSocket
  <2>2. QED
    BY <1>1, <1>2, <2>1 DEF FramesOK
<1>4. TypeOK'
  BY <1>1, <1>3 DEF Inv, TypeOK, Frames
<1>5. Alone'
  BY <1>1, <1>2 DEF Inv, Alone, Ops, Transfers
<1>6. HandshakeOK'
  <2>1. "handshake" \in Ops /\ w["handshake"].pc = "idle"
    BY <1>1 DEF Inv, Alone, Ops
  <2>2. w'["handshake"].pc = "idle" /\ ~ w'["handshake"].signalled
    BY <1>2, <2>1, CancelAll
  <2>3. QED
    BY <2>2 DEF HandshakeOK
<1>7. Covered'
  BY <1>1 DEF Covered
<1>8. QED
  BY <1>3, <1>4, <1>5, <1>6, <1>7 DEF Inv

LEMMA CloseSocketStep ==
  ASSUME Inv, CloseSocket
  PROVE  Inv'
<1>1. /\ UNCHANGED <<phase, result, tls, slot, stale, late, started, ub>>
      /\ open' = FALSE /\ touched' = TRUE /\ credit' = 0 /\ phase = "up" /\ ub \in BOOLEAN
  BY DEF CloseSocket, Inv, TypeOK
<1>2. w \in [Ops -> Frames] /\ \A x \in Ops : FrameOK(w[x], ub)
  BY DEF Inv, TypeOK, Frames, FramesOK
<1>3. \A x \in Ops : /\ w'[x] \in Frames /\ FrameOK(w'[x], ub)
                     /\ w'[x].pc = "idle" <=> w[x].pc = "idle"
                     /\ w[x].pc = "idle" => w'[x] = w[x]
  <2> SUFFICES ASSUME NEW x \in Ops
               PROVE  /\ w'[x] \in Frames /\ FrameOK(w'[x], ub)
                      /\ w'[x].pc = "idle" <=> w[x].pc = "idle"
                      /\ w[x].pc = "idle" => w'[x] = w[x]
    OBVIOUS
  <2>1. w'[x] = IF w[x].pc = "waiting" THEN Aborted(w[x]) ELSE w[x]
    BY DEF CloseSocket
  <2>2. QED
    BY <1>1, <1>2, <2>1, AbortedFrame
<1>4. w' \in [Ops -> Frames] /\ FramesOK'
  <2>1. w' = [x \in Ops |-> w'[x]]
    BY DEF CloseSocket
  <2>2. QED
    BY <1>1, <1>3, <2>1 DEF FramesOK
<1>5. TypeOK'
  <2>1. open' \in BOOLEAN /\ touched' \in BOOLEAN
    BY <1>1, Zenon
  <2>2. credit' \in Int
    BY <1>1
  <2>3. QED
    BY <1>1, <1>4, <2>1, <2>2, Zenon DEF Inv, TypeOK, Frames
<1>6. Alone' /\ HandshakeOK'
  BY <1>1, <1>3 DEF Inv, Alone, HandshakeOK, Ops, Transfers
<1>7. Covered'
  BY <1>1 DEF Covered
<1>8. QED
  BY <1>4, <1>5, <1>6, <1>7 DEF Inv

-----------------------------------------------------------------------------
(* The theorems.                                                           *)

LEMMA InitInv == Init => Inv
<1> SUFFICES ASSUME Init PROVE Inv
  OBVIOUS
<1>1. /\ w \in [Ops -> Frames] /\ \A x \in Ops : w[x] = Idle
      /\ stale \in [Ops -> Nat] /\ \A x \in Ops : stale[x] = 0
      /\ late \in [Ops -> Nat] /\ \A x \in Ops : late[x] = 0
  BY IdleFrame DEF Init
<1>2. TypeOK
  <2>1. open \in BOOLEAN /\ touched \in BOOLEAN /\ ub \in BOOLEAN /\ tls \in BOOLEAN
    BY Zenon DEF Init
  <2>2. credit \in Int /\ started \in 0 .. MaxWaits
    BY BoundsAssumption DEF Init
  <2>3. slot \in Transfers \cup {"none"}
    BY Zenon DEF Init
  <2>4. QED
    BY <1>1, <2>1, <2>2, <2>3, Zenon DEF Init, TypeOK, Frames
<1>3. FramesOK
  BY <1>1, <1>2, IdleFrame DEF FramesOK, TypeOK
<1>4. Alone /\ HandshakeOK
  BY <1>1, IdleFrame DEF Init, Alone, HandshakeOK, Ops, Transfers
<1>5. Covered
  BY <1>1, IdleFrame DEF Init, Covered, Debt, Owed, Ops, Transfers
<1>6. QED
  BY <1>2, <1>3, <1>4, <1>5 DEF Inv

LEMMA InvStep ==
  ASSUME Inv, [Next]_vars
  PROVE  Inv'
<1>1. CASE UNCHANGED vars
  BY <1>1 DEF vars, Inv, TypeOK, FramesOK, Alone, HandshakeOK, Covered, Debt, Owed
<1>2. CASE Next
  BY <1>2, ConnectStep, HandshakeResumesStep, CancelSocketStep, CloseSocketStep, InitiateStep,
     RoundStep,
     NextRoundStep, TimerExpiresStep, TimerStoresStep, TimerCancelsStep, StaleStoresStep,
     StaleCancelsStep, StartStep, ResumeStep
  DEF Next, Coroutine, Handler
<1>3. QED
  BY <1>1, <1>2

\* The types, the frames, the phases and the account of aborts, as one invariant.
THEOREM InvHolds == Spec => []Inv
<1>1. Init => Inv
  BY InitInv
<1>2. Inv /\ [Next]_vars => Inv'
  BY InvStep
<1>3. QED
  BY <1>1, <1>2, PTL DEF Spec

\* The connect, the timed operations and the late timer handlers keep the types of
\* frames, counters and results.
THEOREM TypeCorrect == Spec => []TypeOK
BY InvHolds, PTL DEF Inv

\* The operations of a socket (asyncReadWithTimeout, asyncWriteAllCommon) and the
\* handshake report CONNECTION_TIMEOUT only when their own timer had expired.
THEOREM TimeoutsAreReal == Spec => []TimeoutMeansExpired
<1>1. Inv => TimeoutMeansExpired
  <2> SUFFICES ASSUME Inv, NEW o \in Ops, ~ub, w[o].pc = "completed",
                      Outcome(w[o]) = "CONNECTION_TIMEOUT"
               PROVE  w[o].timer # "armed"
    BY DEF TimeoutMeansExpired
  <2>1. w[o] \in Frames /\ FrameOK(w[o], ub)
    BY DEF Inv, TypeOK, Frames, FramesOK
  <2>2. w[o].timedOut
    BY <2>1 DEF Outcome, Frames
  <2>3. QED
    BY <2>1, <2>2 DEF FrameOK
<1>2. QED
  BY <1>1, InvHolds, PTL

\* asyncConnectTls reports every aborted handshake as CONNECTION_TIMEOUT.
THEOREM HandshakeAborts == Spec => []HandshakeAbortIsTimeout
<1>1. Inv => HandshakeAbortIsTimeout
  BY DEF Inv, HandshakeOK, HandshakeAbortIsTimeout, Outcome
<1>2. QED
  BY <1>1, InvHolds, PTL

\* While the application neither cancels nor closes the socket, every aborted
\* operation is paid for by an expired timer, at most two by each.
THEOREM AbortsArePaid == Spec => []AbortBudget
<1>1. Inv => AbortBudget
  <2> SUFFICES ASSUME Inv, ~touched, ~ub PROVE credit >= 0
    BY DEF AbortBudget
  <2>1. Debt \in Nat /\ credit \in Int
    BY OwedType DEF Inv, TypeOK
  <2>2. credit >= Debt
    BY DEF Inv, Covered
  <2>3. QED
    BY <2>1, <2>2
<1>2. QED
  BY <1>1, InvHolds, PTL

=============================================================================
