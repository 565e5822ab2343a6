--------------------------- MODULE BufferedSocket ---------------------------
(***************************************************************************)
(* The receiving half of a DualSocket (TcpSocket, TlsSocket): the read     *)
(* buffer every read goes through, the four read coroutines of             *)
(* SocketBaseDetail.h, and the operations that may end a read from the     *)
(* outside: its timer, cancelSocket() and closeSocket().                   *)
(*                                                                         *)
(* One read is outstanding at a time (the library has a single read buffer *)
(* per socket and no lock on it).  The peer, the kernel, the timer and the *)
(* application's cancelling thread are separate actors: a read that is     *)
(* suspended in async_read_some can be overtaken by any of them, and so    *)
(* can a read whose completion is queued but not yet resumed.              *)
(***************************************************************************)
EXTENDS Integers, Sequences, FiniteSetsExt

CONSTANTS
  Byte,       \* values of the bytes the peer sends
  OutSizes,   \* out_buffer.size() of the reads the application issues
  Delims,     \* delimiters the application passes to readUntil
  MaxSent,    \* bound: bytes the peer sends
  Tls,        \* a wait is made of several waits of the layer below
  MaxPhantom  \* bound: no read starts with more bytes than this in phantom

\* The value std::vector::resize gives the bytes it appends.  The peer's bytes
\* are taken from the other values, so that a property can tell them apart.
Fill == 0

ASSUME ByteAssumption == Byte \subseteq Nat \ {Fill}
ASSUME OutSizesAssumption == OutSizes \subseteq Nat
ASSUME DelimsAssumption == Delims \subseteq Seq(Byte) \ {<<>>}
ASSUME BoundsAssumption == MaxSent \in Nat /\ MaxPhantom \in Nat
ASSUME TlsAssumption == Tls \in BOOLEAN

VARIABLES
  open,        \* the native socket is_open()
  readBuffer,  \* SocketBase::_read_buffer
  op,          \* the outstanding read
  wire,        \* bytes sent by the peer, not yet taken by async_read_some
  peer,        \* what the peer did to the connection
  last,        \* what the last read returned
  sent,        \* history: every byte the peer sent
  delivered,   \* history: every byte a read returned
  phantom      \* history: bytes prepared for a read that failed

vars == <<open, readBuffer, op, wire, peer, last, sent, delivered, phantom>>

Kinds == {"some", "exact", "until"}
Cell == Byte \cup {Fill}

\* No read is outstanding.
Idle == [kind |-> "none", size |-> 0, delim |-> <<>>, base |-> 0,
         st |-> "none", got |-> 0, ec |-> "ok", timer |-> "none"]

Pending == op.kind # "none"
Waiting == op.st = "waiting"

\* The bytes of the read buffer that belong to the stream: while a read is
\* outstanding, the rest is space prepared for it.
Committed == SubSeq(readBuffer, 1,
                    IF Pending THEN op.base + op.got ELSE Len(readBuffer))

-----------------------------------------------------------------------------
(* The peer.                                                               *)

PeerSend(b) ==
  /\ peer = "open"
  /\ Len(sent) < MaxSent
  /\ sent' = Append(sent, b)
  /\ wire' = Append(wire, b)
  /\ UNCHANGED <<open, readBuffer, op, peer, last, delivered, phantom>>

\* An orderly shutdown, or a reset.
PeerEnd(how) ==
  /\ peer = "open"
  /\ peer' = how
  /\ UNCHANGED <<open, readBuffer, op, wire, last, sent, delivered, phantom>>

-----------------------------------------------------------------------------
(* Pieces shared by the read coroutines.                                   *)

\* Mutant: one byte more than the read has room for.
PrepareOneMore(buf, n) == buf \o [i \in 1..(n + 1) |-> Fill]

\* dynamic_buffer(readBuffer).prepare(n) resizes the vector.
Prepare(buf, n) == buf \o [i \in 1..n |-> Fill]

\* Mutant: the read has no timer.
AwaitUntimed(kind, n, d, buf) ==
  /\ readBuffer' = Prepare(buf, n)
  /\ op' = [kind |-> kind, size |-> n, delim |-> d, base |-> Len(buf),
            st |-> "starting", got |-> 0, ec |-> "ok", timer |-> "none"]
  /\ UNCHANGED <<last, delivered, phantom>>

\* asyncReadWithTimeout arms the timer; async_read_some is the next step.
Await(kind, n, d, buf) ==
  /\ readBuffer' = Prepare(buf, n)
  /\ op' = [kind |-> kind, size |-> n, delim |-> d, base |-> Len(buf),
            st |-> "starting", got |-> 0, ec |-> "ok", timer |-> "armed"]
  /\ UNCHANGED <<last, delivered, phantom>>

\* co_return std::unexpected(ec), with buf left in the read buffer.
Fail(kind, n, d, buf, ec) ==
  /\ readBuffer' = buf
  /\ op' = Idle
  /\ last' = [kind |-> kind, size |-> n, delim |-> d, ec |-> ec, out |-> <<>>]
  /\ UNCHANGED delivered

MoveSize(buf, n, maxLen) == Min({maxLen, Len(buf), n})

\* Mutants: the bytes copied out stay buffered; one byte too many is erased.
EraseNothing(buf, m) == buf
EraseOneMore(buf, m) == SubSeq(buf, m + 2, Len(buf))

\* buffer.erase(begin, begin + m)
Erase(buf, m) == SubSeq(buf, m + 1, Len(buf))

\* co_return move_data(readBuffer, out, maxLen)
MoveData(kind, n, d, buf, maxLen) ==
  LET m == MoveSize(buf, n, maxLen)
      out == SubSeq(buf, 1, m)
  IN /\ readBuffer' = Erase(buf, m)
     /\ op' = Idle
     /\ last' = [kind |-> kind, size |-> n, delim |-> d, ec |-> "ok", out |-> out]
     /\ delivered' = delivered \o out
     /\ UNCHANGED phantom

\* Mutant: the read is satisfied one byte early.
ReadExactLoopEarly(n, buf) ==
  IF Len(buf) + 1 < n
  THEN Await("exact", n, <<>>, buf)
  ELSE MoveData("exact", n, <<>>, buf, Len(buf))

\* The loop of asyncReadExactCommon, entered with buf in the read buffer.
ReadExactLoop(n, buf) ==
  IF Len(buf) < n
  THEN Await("exact", n, <<>>, buf)
  ELSE MoveData("exact", n, <<>>, buf, Len(buf))

\* Where d occurs in buf; the iterator std::search returns is the first.
Occurrences(d, buf) ==
  {i \in 1..(Len(buf) - Len(d) + 1) : SubSeq(buf, i, i + Len(d) - 1) = d}

\* Mutant: one byte further.
UntilLenFurther(i) == i + 1

\* it - readBuffer.begin() + 1, for the iterator at (1-based) position i
UntilLen(i) == i

\* The loop of asyncReadUntilCommon, entered with buf in the read buffer.
ReadUntilLoop(n, d, buf) ==
  \/ \E i \in Occurrences(d, buf) :
       /\ \A j \in Occurrences(d, buf) : i <= j
       /\ \/ /\ UntilLen(i) > n
             /\ Fail("until", n, d, buf, "protocol_error")
             /\ UNCHANGED phantom
          \/ /\ UntilLen(i) <= n
             /\ MoveData("until", n, d, buf, UntilLen(i) + 1)
  \/ /\ Occurrences(d, buf) = {}
     /\ Await("until", n, d, buf)

-----------------------------------------------------------------------------
(* The application starts a read.                                          *)

\* isConnected() is is_open(): it stays true after an end of stream.
NotConnected(kind, n, d) ==
  /\ ~open
  /\ Fail(kind, n, d, readBuffer, "not_connected")
  /\ UNCHANGED phantom

StartReadSome(n) ==
  \/ NotConnected("some", n, <<>>)
  \/ /\ open
     /\ IF n = 0 \/ readBuffer # <<>>
        THEN MoveData("some", n, <<>>, readBuffer, Len(readBuffer))
        ELSE Await("some", n, <<>>, readBuffer)

StartReadExact(n) ==
  \/ NotConnected("exact", n, <<>>)
  \/ open /\ ReadExactLoop(n, readBuffer)

StartReadUntil(n, d) ==
  \/ NotConnected("until", n, d)
  \/ open /\ ReadUntilLoop(n, d, readBuffer)

Start ==
  /\ ~Pending
  /\ phantom <= MaxPhantom
  /\ \/ \E n \in OutSizes : StartReadSome(n)
     \/ \E n \in OutSizes : StartReadExact(n)
     \/ \E n \in OutSizes, d \in Delims : StartReadUntil(n, d)
  /\ UNCHANGED <<open, wire, peer, sent>>

-----------------------------------------------------------------------------
(* The outstanding async_read_some starts and completes.                   *)

\* On a socket that was closed meanwhile it completes at once with an error.
Initiate ==
  /\ op.st = "starting"
  /\ op' = IF open THEN [op EXCEPT !.st = "waiting"]
                   ELSE [op EXCEPT !.st = "done", !.ec = "bad_descriptor"]
  /\ UNCHANGED <<open, readBuffer, wire, peer, last, sent, delivered, phantom>>

\* The kernel fills the first k prepared bytes.  Into an empty buffer the
\* operation completes at once with 0 bytes.
KernelRead(k) ==
  /\ Waiting
  /\ IF op.size = 0 THEN k = 0 ELSE k \in 1..op.size /\ k <= Len(wire)
  /\ readBuffer' = SubSeq(readBuffer, 1, op.base) \o SubSeq(wire, 1, k)
                     \o SubSeq(readBuffer, op.base + k + 1, Len(readBuffer))
  /\ wire' = SubSeq(wire, k + 1, Len(wire))
  /\ op' = [op EXCEPT !.st = "done", !.got = k]
  /\ UNCHANGED <<open, peer, last, sent, delivered, phantom>>

CompleteWith(ec) ==
  /\ Waiting
  /\ op' = [op EXCEPT !.st = "done", !.ec = ec]
  /\ UNCHANGED <<readBuffer, wire, peer, last, sent, delivered, phantom>>

\* End of stream, or a reset, reported by the kernel.
KernelError ==
  /\ \/ peer = "closed" /\ wire = <<>> /\ CompleteWith("eof")
     \/ peer = "reset" /\ CompleteWith("reset")
  /\ UNCHANGED open

\* The timer's handler runs while the read is waiting: timed_out and
\* operation_aborted together are reported as CONNECTION_TIMEOUT.
TimerExpires ==
  /\ op.timer = "armed"
  /\ CompleteWith("timeout")
  /\ UNCHANGED open

\* The timer's handler runs on another thread when there is nothing to cancel:
\* before async_read_some, or between two waits of the layer below.  There is no
\* second timer.
TimerLost ==
  /\ op.timer = "armed"
  /\ op.st = "starting" \/ (Tls /\ Waiting)
  /\ op' = [op EXCEPT !.timer = "spent"]
  /\ UNCHANGED <<open, readBuffer, wire, peer, last, sent, delivered, phantom>>

\* The application cancels the read from another thread.
CancelSocket == CompleteWith("aborted") /\ UNCHANGED open

\* closeSocket(), from any thread; a read that is waiting is aborted.
CloseSocket ==
  /\ open
  /\ open' = FALSE
  /\ \/ CompleteWith("aborted")
     \/ /\ ~Waiting
        /\ UNCHANGED <<readBuffer, op, wire, peer, last, sent, delivered, phantom>>

\* Mutant: the bytes just received are cut off.
CommitNothing(buf, base, got) == SubSeq(buf, 1, base)

\* dyn_buf.commit(got) cuts the buffer behind the bytes received.
Commit(buf, base, got) == SubSeq(buf, 1, base + got)

\* The coroutine resumes.  On an error, or on 0 bytes, it returns without
\* commit(): the whole prepared area stays in the read buffer.  Otherwise
\* the bytes received are committed and the read goes on.
ReadFailed == op.ec # "ok" \/ op.got = 0

Resume ==
  /\ op.st = "done"
  /\ \/ /\ ReadFailed
        /\ Fail(op.kind, op.size, op.delim, readBuffer,
                IF op.ec # "ok" THEN op.ec ELSE "eof")
        /\ phantom' = phantom + op.size
     \/ /\ ~ReadFailed
        /\ LET buf == Commit(readBuffer, op.base, op.got)
           IN \/ /\ op.kind = "some"
                 /\ MoveData("some", op.size, <<>>, buf, Len(buf))
              \/ op.kind = "exact" /\ ReadExactLoop(op.size, buf)
              \/ op.kind = "until" /\ ReadUntilLoop(op.size, op.delim, buf)
  /\ UNCHANGED <<open, wire, peer, sent>>

-----------------------------------------------------------------------------

Init ==
  /\ open = TRUE
  /\ readBuffer = <<>>
  /\ op = Idle
  /\ wire = <<>>
  /\ peer = "open"
  /\ last = [kind |-> "none", size |-> 0, delim |-> <<>>, ec |-> "ok", out |-> <<>>]
  /\ sent = <<>>
  /\ delivered = <<>>
  /\ phantom = 0

Timer == TimerExpires \/ TimerLost

Next ==
  \/ \E b \in Byte : PeerSend(b)
  \/ \E how \in {"closed", "reset"} : PeerEnd(how)
  \/ Start
  \/ \E k \in 0..op.size : KernelRead(k)
  \/ Initiate
  \/ KernelError
  \/ Timer
  \/ CancelSocket
  \/ CloseSocket
  \/ Resume

Spec == Init /\ [][Next]_vars

\* The pool runs a coroutine that is ready, and the handler of a timer that is due
\* (24 hours when the caller gives none): it aborts the wait or is lost.
Fairness == WF_vars(Initiate) /\ WF_vars(Resume) /\ WF_vars(Timer)

FairSpec == Spec /\ Fairness

-----------------------------------------------------------------------------
(* Properties.                                                             *)

Errors == {"eof", "reset", "timeout", "aborted", "bad_descriptor",
           "not_connected", "protocol_error"}

\* The variables keep their types, and an outstanding read owns the part of
\* the buffer its prepare() added: size bytes behind base, got of them filled.
TypeOK ==
  /\ open \in BOOLEAN
  /\ readBuffer \in Seq(Cell)
  /\ wire \in Seq(Byte)
  /\ peer \in {"open", "closed", "reset"}
  /\ sent \in Seq(Byte)
  /\ delivered \in Seq(Cell)
  /\ phantom \in Nat
  /\ last \in [kind : Kinds \cup {"none"}, size : Nat, delim : Seq(Byte),
               ec : Errors \cup {"ok"}, out : Seq(Cell)]
  /\ \/ op = Idle
     \/ /\ op \in [kind : Kinds, size : Nat, delim : Seq(Byte), base : Nat,
                   st : {"starting", "waiting", "done"}, got : Nat,
                   ec : Errors \cup {"ok"}, timer : {"armed", "spent"}]
        /\ Len(readBuffer) = op.base + op.size
        /\ op.got <= op.size
        /\ op.st # "done" => op.ec = "ok"
        /\ op.st # "done" \/ op.ec # "ok" => op.got = 0

\* What the stream promises while no read has failed: the bytes returned so
\* far, the bytes buffered, and the bytes in flight are together exactly the
\* bytes the peer sent, in order (move_data, commit and the three read loops).
StreamConserved == phantom = 0 => delivered \o Committed \o wire = sent

\* The read buffer, the outstanding read and the wire are invisible to the
\* application: what it sees is a stream of the peer's bytes, padded after
\* failed reads.
Stream == INSTANCE ByteStream

\* What it promises in every state, failed reads included: without the padding,
\* the bytes returned and buffered are the first ones the peer sent and those in
\* flight are the rest, so that none is lost, duplicated or reordered ...
NoByteLost ==
  LET taken == delivered \o Committed
      n == Stream!Real(taken, Len(taken))
  IN /\ Stream!RealPrefix(taken, sent)
     /\ n + Len(wire) = Len(sent)
     /\ wire = SubSeq(sent, n + 1, Len(sent))

\* ... and exactly the bytes prepared for reads that failed (a timeout, a
\* cancellation, an end of stream) have been added to the stream.
PhantomAccounted == Stream!Padding(delivered \o Committed) = phantom

\* A successful readExact fills its buffer, a successful readSome returns at
\* least a byte, and no read returns more than its buffer holds.
ResultFits ==
  last.ec = "ok" /\ last.kind # "none" =>
    /\ Len(last.out) <= last.size
    /\ last.kind = "exact" => Len(last.out) = last.size
    /\ last.kind = "some" /\ last.size > 0 => last.out # <<>>

\* For a two-byte delimiter (CRLF, what the FTP client passes), a successful
\* readUntil has no delimiter before the end of its result, and a result shorter
\* than the buffer ends with one: it stops right behind the first delimiter of the
\* stream.  A result that fills the buffer may end inside the delimiter, against the
\* "including delimiter" of SocketBase.h.
UntilTwoByteDelim ==
  last.kind = "until" /\ last.ec = "ok" /\ Len(last.delim) = 2 =>
    LET out == last.out
    IN /\ Occurrences(last.delim, out) \subseteq {Len(out) - 1}
       /\ Len(out) < last.size => Occurrences(last.delim, out) = {Len(out) - 1}

\* Under the documented contract of the reads ("Number of bytes received, or
\* error code on failure"), every byte a read returns was sent by the peer.
ReturnsReceivedBytes == \A i \in 1..Len(last.out) : last.out[i] # Fill

\* The timer has been spent and the wait is still going on.
Unguarded == op.st \in {"starting", "waiting"} /\ op.timer = "spent"

\* A readSome or readExact that was started returns: its timer, or the kernel, ends
\* every wait, and readExact needs no more waits than it has bytes.  Only a timer
\* that fired when there was nothing to cancel leaves it to the peer.
ReadReturns == op.kind \in {"some", "exact"} ~> ~Pending \/ Unguarded

\* Every step of the buffered socket is a step of that stream, or invisible.
ImplementsByteStream == Stream!Spec

=============================================================================
