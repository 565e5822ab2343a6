------------------------------ MODULE TicketRpc ------------------------------
(***************************************************************************)
(* The ticket protocol: a TicketController and a worker, each with its     *)
(* TicketPeer, exchange length-prefixed frames over one connection.  A     *)
(* controller call sends a request frame and takes the next frame that     *)
(* comes back as its response; nothing compares ticket ids.                *)
(*                                                                         *)
(* Data is scaled to words.  A frame is a length word (the 4-byte prefix)  *)
(* and BodyWords words of JSON; a JSON word that is read as a length       *)
(* decodes to Garbage.  Frames are read with two readExact calls, with the *)
(* semantics of BufferedSocket: a read that fails leaves as many zero      *)
(* words in the read buffer as it wanted.                                  *)
(***************************************************************************)
EXTENDS Integers, Sequences, FiniteSets

CONSTANTS
  Handlers,      \* commands with a handler registered at the worker
  LongHandlers,  \* commands with a long handler registered at the worker
  ForeignJobs,   \* commands answered by a worker program that is not a
                 \* TicketWorker but uses TicketPeer, with any status
  OtherCommands, \* commands the worker does not know
  BodyWords,     \* words of a frame's body
  Garbage,       \* the length a body word decodes to
  MaxCalls,      \* bound: requests the controller sends
  MaxFaults      \* bound: nothing new is started after more faults than this

Commands == Handlers \cup LongHandlers \cup ForeignJobs \cup OtherCommands

ASSUME WordsAssumption == /\ BodyWords \in Nat \ {0}
                          /\ Garbage \in Nat /\ Garbage > BodyWords
ASSUME BoundsAssumption == MaxCalls \in Nat /\ MaxFaults \in Nat
ASSUME CommandsAssumption == {"poll", "cancel"} \cap Commands = {}

VARIABLES
  open,      \* [Side -> BOOLEAN]: the side's socket is open
  rx,        \* [Side -> its read buffer and its outstanding read]
  wire,      \* [Side -> words on their way to it]
  call,      \* the controller's outstanding call
  handling,  \* the ticket the worker is processing
  counter,   \* TicketController::_ticketCounter
  requests,  \* bound: requests sent so far
  faults,    \* bound: reads and writes that failed so far
  returned,  \* what the last controller call returned
  answered   \* history: every response the worker produced

vars == <<open, rx, wire, call, handling, counter, requests, faults, returned,
          answered>>

Side == {"controller", "worker"}
Other(s) == IF s = "controller" THEN "worker" ELSE "controller"

Status == {"pending", "running", "completed", "failed", "cancelled"}

\* A TicketInfo; result tells whether the optional result is present.
Ticket(id, status, cmd, result) ==
  [id |-> id, status |-> status, cmd |-> cmd, result |-> result]
NoTicket == Ticket(0, "pending", "none", FALSE)

NoCall == [api |-> "none", id |-> 0]
NoRead == [stage |-> "none", n |-> 0]

-----------------------------------------------------------------------------
(* Frames.                                                                 *)

Zero == [len |-> 0, ticket |-> NoTicket, part |-> 0]
LengthWord == [len |-> BodyWords, ticket |-> NoTicket, part |-> 0]
BodyWord(t, i) == [len |-> Garbage, ticket |-> t, part |-> i]

\* serialize() and makeLengthPrefix()
Frame(t) == <<LengthWord>> \o [i \in 1..BodyWords |-> BodyWord(t, i)]

\* Mutant: whatever was read is accepted.
IsDocumentUnparsed(words) == words # <<>>

\* Whether deserialize() accepts the bytes: they are a whole JSON document.
IsDocument(words) ==
  /\ Len(words) = BodyWords
  /\ words[1].part = 1
  /\ \A i \in 1..BodyWords : words[i] = BodyWord(words[1].ticket, i)

-----------------------------------------------------------------------------
(* Reading and writing frames (TicketFrame, TicketPeer).                   *)

\* Bytes enter the read buffer: readExact reads until it has n words, at most
\* n at a time.
ReceiveWords(s, k) ==
  /\ rx[s].read.stage # "none"
  /\ Len(rx[s].buf) < rx[s].read.n
  /\ k \in 1..rx[s].read.n
  /\ k <= Len(wire[s])
  /\ rx' = [rx EXCEPT ![s].buf = @ \o SubSeq(wire[s], 1, k)]
  /\ wire' = [wire EXCEPT ![s] = SubSeq(@, k + 1, Len(@))]
  /\ UNCHANGED <<open, call, handling, counter, requests, faults, returned, answered>>

\* readLengthPrefixSync, readLengthPrefixAsync: the length is decoded and the
\* body read with it.
ReadPrefix(s) ==
  /\ rx[s].read.stage = "prefix"
  /\ Len(rx[s].buf) >= 1
  /\ rx' = [rx EXCEPT ![s] = [buf |-> Tail(@.buf),
                              read |-> [stage |-> "body", n |-> Head(@.buf).len]]]
  /\ UNCHANGED <<open, wire, call, handling, counter, requests, faults, returned, answered>>

\* The body is complete: rx after it was taken out.
BodyComplete(s) == rx[s].read.stage = "body" /\ Len(rx[s].buf) >= rx[s].read.n
Body(s) == SubSeq(rx[s].buf, 1, rx[s].read.n)
TakeBody(s) == [buf |-> SubSeq(rx[s].buf, rx[s].read.n + 1, Len(rx[s].buf)),
                read |-> NoRead]

\* A read that is waiting fails: its timer (30 s, whatever opts.timeout says)
\* or the end of the stream.  The words prepared for it stay in the buffer.
CanFail(s) == rx[s].read.stage # "none" /\ Len(rx[s].buf) < rx[s].read.n

\* Mutant: the failed read stays outstanding.
AfterFailureStuck(s) == [buf |-> rx[s].buf \o [i \in 1..rx[s].read.n |-> Zero],
                         read |-> rx[s].read]

AfterFailure(s) == [buf |-> rx[s].buf \o [i \in 1..rx[s].read.n |-> Zero],
                    read |-> NoRead]

BeginReceive(buf) == [buf |-> buf, read |-> [stage |-> "prefix", n |-> 1]]

\* sendFrame: the prefix and then the body are written.  Writing may fail
\* after any number of words; what was written is on its way.
SentWords(t) == {SubSeq(Frame(t), 1, j) : j \in 0..BodyWords + 1}

-----------------------------------------------------------------------------
(* The controller (TicketController).                                      *)

Return(c, ok, response) ==
  /\ returned' = [api |-> c.api, id |-> c.id, ok |-> ok, response |-> response]
  /\ call' = NoCall

\* handshake(request) on behalf of c, with buf in the read buffer: sendFrame,
\* then receiveFrame.  On a closed socket nothing is written.
Handshake(c, t, buf) ==
  /\ requests < MaxCalls
  /\ requests' = requests + 1
  /\ \E words \in SentWords(t) :
       /\ wire' = [wire EXCEPT !["worker"] = @ \o words]
       /\ \/ /\ open["controller"] /\ words = Frame(t)
             /\ rx' = [rx EXCEPT !["controller"] = BeginReceive(buf)]
             /\ call' = c
             /\ UNCHANGED <<faults, returned>>
          \/ /\ IF open["controller"] THEN words # Frame(t) ELSE words = <<>>
             /\ faults' = faults + 1
             /\ rx' = [rx EXCEPT !["controller"] = [buf |-> buf, read |-> NoRead]]
             /\ Return(c, FALSE, NoTicket)

Call(api, id, t) ==
  /\ call = NoCall
  /\ faults <= MaxFaults
  /\ Handshake([api |-> api, id |-> id], t, rx["controller"].buf)
  /\ UNCHANGED <<open, handling, answered>>

\* send(), sendLong(): a fresh ticket id.
Send(api, cmd) ==
  /\ api \in {"send", "long"}
  /\ counter' = counter + 1
  /\ Call(api, counter + 1, Ticket(counter + 1, "pending", cmd, FALSE))

\* poll(), cancel(): the id of an earlier ticket.
Poll(id) ==
  /\ Call("poll", id, Ticket(id, "pending", "poll", FALSE))
  /\ UNCHANGED counter

Cancel(id) ==
  /\ Call("cancel", id, Ticket(id, "cancelled", "cancel", FALSE))
  /\ UNCHANGED counter

\* Whether the call succeeds with response t (status checks of send, sendLong,
\* poll and cancel; sendLong goes on polling while the status is running).
Accepts(api, t) ==
  \/ api = "send" /\ t.status # "failed" /\ t.result
  \/ api = "long" /\ t.status \in {"completed", "cancelled"}
  \/ api = "poll" /\ t.status # "failed"
  \/ api = "cancel" /\ t.status = "cancelled"

MustPoll(api, t) == api = "long" /\ t.status = "running"

\* receiveFrame() returns to the call.
ControllerReceives ==
  /\ BodyComplete("controller")
  /\ LET t == Body("controller")[1].ticket
         after == TakeBody("controller")
     IN \/ /\ IsDocument(Body("controller"))
           /\ MustPoll(call.api, t)
           /\ Handshake(call, Ticket(t.id, "pending", "poll", FALSE), after.buf)
        \/ /\ IsDocument(Body("controller"))
           /\ ~MustPoll(call.api, t)
           /\ rx' = [rx EXCEPT !["controller"] = after]
           /\ Return(call, Accepts(call.api, t), t)
           /\ UNCHANGED <<wire, requests, faults>>
        \/ /\ ~IsDocument(Body("controller"))
           /\ rx' = [rx EXCEPT !["controller"] = after]
           /\ Return(call, FALSE, NoTicket)
           /\ UNCHANGED <<wire, requests, faults>>
  /\ UNCHANGED <<open, handling, counter, answered>>

\* Mutant: the read has no timer; only the end of the stream ends it.
ControllerReadNoTimer ==
  /\ CanFail("controller")
  /\ ~open["worker"] /\ wire["controller"] = <<>>
  /\ rx' = [rx EXCEPT !["controller"] = AfterFailure("controller")]
  /\ faults' = faults + 1
  /\ Return(call, FALSE, NoTicket)
  /\ UNCHANGED <<open, wire, handling, counter, requests, answered>>

ControllerReadFails ==
  /\ CanFail("controller")
  /\ rx' = [rx EXCEPT !["controller"] = AfterFailure("controller")]
  /\ faults' = faults + 1
  /\ Return(call, FALSE, NoTicket)
  /\ UNCHANGED <<open, wire, handling, counter, requests, answered>>

\* goodbye(), and the destructor: the socket is closed, no frame is sent.
Goodbye(s) ==
  /\ open[s]
  /\ rx[s].read = NoRead
  /\ s = "worker" => handling = NoTicket
  /\ open' = [open EXCEPT ![s] = FALSE]
  /\ UNCHANGED <<rx, wire, call, handling, counter, requests, faults, returned, answered>>

-----------------------------------------------------------------------------
(* The worker (TicketWorker).                                              *)

\* handleNext(): on a closed socket it returns an error at once.
HandleNext ==
  /\ open["worker"]
  /\ faults <= MaxFaults
  /\ rx["worker"].read = NoRead /\ handling = NoTicket
  /\ rx' = [rx EXCEPT !["worker"] = BeginReceive(@.buf)]
  /\ UNCHANGED <<open, wire, call, handling, counter, requests, faults, returned, answered>>

\* receiveFrame() returns: a ticket to process, or an error.
WorkerReceives ==
  /\ BodyComplete("worker")
  /\ rx' = [rx EXCEPT !["worker"] = TakeBody("worker")]
  /\ handling' = IF IsDocument(Body("worker")) THEN Body("worker")[1].ticket
                                               ELSE NoTicket
  /\ UNCHANGED <<open, wire, call, counter, requests, faults, returned, answered>>

WorkerReadFails ==
  /\ CanFail("worker")
  /\ rx' = [rx EXCEPT !["worker"] = AfterFailure("worker")]
  /\ faults' = faults + 1
  /\ UNCHANGED <<open, wire, call, handling, counter, requests, returned, answered>>

Failed(t) == Ticket(t.id, "failed", t.cmd, FALSE)
Completed(t) == Ticket(t.id, "completed", t.cmd, TRUE)

\* The responses processTicket() may give: a long handler is not implemented,
\* an unknown command fails, and a handler succeeds or fails.
Responses(t) ==
  {Failed(t)} \cup IF t.cmd \in Handlers \ LongHandlers THEN {Completed(t)} ELSE {}

\* The answers of a worker program that is not a TicketWorker.
ForeignResponses(t) ==
  IF ForeignJobs # {} /\ t.cmd \in ForeignJobs \cup {"poll", "cancel"}
  THEN {Ticket(t.id, st, t.cmd, st = "completed") : st \in Status}
  ELSE {}

\* Mutant: no return after the error response of a failed handler.
ProcessTicketFallsThrough ==
  /\ handling # NoTicket
  /\ answered' = answered \cup {Failed(handling), Completed(handling)}
  /\ wire' = [wire EXCEPT !["controller"] =
                @ \o Frame(Failed(handling)) \o Frame(Completed(handling))]
  /\ handling' = NoTicket
  /\ UNCHANGED <<open, rx, call, counter, requests, faults, returned>>

\* processTicket() sends the response and ignores whether that worked.
ProcessTicket ==
  /\ handling # NoTicket
  /\ \E r \in Responses(handling) \cup ForeignResponses(handling) :
       /\ answered' = answered \cup {r}
       /\ \E words \in SentWords(r) :
            /\ wire' = [wire EXCEPT !["controller"] = @ \o words]
            /\ faults' = IF words = Frame(r) THEN faults ELSE faults + 1
  /\ handling' = NoTicket
  /\ UNCHANGED <<open, rx, call, counter, requests, returned>>

-----------------------------------------------------------------------------

Init ==
  /\ open = [s \in Side |-> TRUE]
  /\ rx = [s \in Side |-> [buf |-> <<>>, read |-> NoRead]]
  /\ wire = [s \in Side |-> <<>>]
  /\ call = NoCall
  /\ handling = NoTicket
  /\ counter = 0
  /\ requests = 0
  /\ faults = 0
  /\ returned = [api |-> "none", id |-> 0, ok |-> FALSE, response |-> NoTicket]
  /\ answered = {}

Next ==
  \/ \E s \in Side, k \in 1..Garbage : ReceiveWords(s, k)
  \/ \E s \in Side : ReadPrefix(s)
  \/ \E s \in Side : Goodbye(s)
  \/ \E cmd \in Commands : Send("send", cmd)
  \/ \E cmd \in Commands : Send("long", cmd)
  \/ \E id \in 1..counter : Poll(id)
  \/ \E id \in 1..counter : Cancel(id)
  \/ ControllerReceives
  \/ ControllerReadFails
  \/ HandleNext
  \/ WorkerReceives
  \/ WorkerReadFails
  \/ ProcessTicket

Spec == Init /\ [][Next]_vars

\* The pool resumes reads whose bytes have arrived, and every read has a timer, taken
\* not to be lost.
Fairness ==
  /\ WF_vars(ReadPrefix("controller"))
  /\ WF_vars(ControllerReceives)
  /\ WF_vars(ControllerReadFails)

FairSpec == Spec /\ Fairness

-----------------------------------------------------------------------------
(* Properties.                                                             *)

Tickets == [id : Nat, status : Status, cmd : Commands \cup {"poll", "cancel", "none"},
            result : BOOLEAN]
Words == [len : Nat, ticket : Tickets, part : Nat]
Apis == {"none", "send", "long", "poll", "cancel"}

\* The variables keep their types; the controller reads exactly while a call
\* is outstanding, and the worker does not read while it processes a ticket.
TypeOK ==
  /\ open \in [Side -> BOOLEAN]
  /\ rx \in [Side -> [buf : Seq(Words),
                      read : [stage : {"none", "prefix", "body"}, n : Nat]]]
  /\ wire \in [Side -> Seq(Words)]
  /\ call \in [api : Apis, id : Nat]
  /\ handling \in Tickets
  /\ counter \in Nat /\ requests \in Nat /\ faults \in Nat
  /\ returned \in [api : Apis, id : Nat, ok : BOOLEAN,
                   response : Tickets]
  /\ answered \subseteq Tickets
  /\ call = NoCall <=> rx["controller"].read = NoRead
  /\ handling # NoTicket => rx["worker"].read = NoRead

Matches == returned.ok => returned.response.id = returned.id

\* While no read or write has failed, a call that succeeds returns a response
\* to its own ticket, although no code compares the ids.
InStep == faults = 0 => Matches

\* Frames on their way to s, the one being read included.
FramesTo(s) ==
  Cardinality({i \in 1..Len(wire[s]) : wire[s][i] = LengthWord})
    + Cardinality({i \in 1..Len(rx[s].buf) : rx[s].buf[i] = LengthWord})
    + (IF rx[s].read.stage = "body" THEN 1 ELSE 0)

\* Why it holds: while nothing has failed, an outstanding call has exactly one
\* frame in flight, the request, the ticket being processed, or the response,
\* and without a call there is none.
OneTicketInFlight ==
  faults = 0 =>
    FramesTo("controller") + FramesTo("worker")
      + (IF handling # NoTicket THEN 1 ELSE 0) = (IF call # NoCall THEN 1 ELSE 0)

\* In every state, failed reads and writes included, a response returned by a
\* successful call is one the worker produced, never bytes left by a failed
\* read or taken from the middle of a frame.
NoForgedResponse == returned.ok => returned.response \in answered

\* Under the documented contract of handshake ("send initial ticket, receive
\* response"), a call that succeeds returns the response to its own ticket.  (The
\* call after one that timed out fails on the zeros left in the buffer; it is the
\* one after that which takes the late response.)
ResponseMatchesTicket == Matches

\* send, poll and cancel return whatever the worker does: the timers of the two
\* reads, if they are not lost (Unguarded in BufferedSocket), end every wait.
\* (sendLong polls as long as the worker says running.)
CallReturns == call.api \in {"send", "poll", "cancel"} ~> call = NoCall

=============================================================================
