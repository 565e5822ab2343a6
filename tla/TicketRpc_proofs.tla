--------------------------- MODULE TicketRpc_proofs ---------------------------
(***************************************************************************)
(* What the ticket protocol guarantees for every set of commands, every    *)
(* frame size and any number of calls and faults: the types, that no       *)
(* response is forged, and that controller and worker stay in step until   *)
(* the first fault although no code compares ticket ids.                   *)
(*                                                                         *)
(* The argument for being in step is the strengthening Flight: while       *)
(* nothing has failed, the words between the two sides are either none or  *)
(* the unread rest of exactly one frame, and its ticket carries the id of  *)
(* the outstanding call.                                                   *)
(***************************************************************************)
EXTENDS TicketRpc, TLAPS, SequenceTheorems, FiniteSetTheorems

Reads == [stage : {"none", "prefix", "body"}, n : Nat]
Sides == [buf : Seq(Words), read : Reads]
Calls == [api : Apis, id : Nat]

\* Words that are part of a body come from a response the worker produced.
Genuine(words, responses) ==
  \A i \in 1 .. Len(words) : words[i].part # 0 => words[i].ticket \in responses

ToController == /\ Genuine(wire["controller"], answered)
                /\ Genuine(rx["controller"].buf, answered)

\* The words s has not taken out of its buffer or not received yet.
Flow(s) == rx[s].buf \o wire[s]

\* Nothing is on its way to s, and s is not in the middle of a frame.
Silent(s) == rx[s].buf = <<>> /\ wire[s] = <<>> /\ rx[s].read.stage # "body"

\* Exactly the frame of t is on its way to s, or its body when the prefix is read.
Carries(s, t) ==
  \/ rx[s].read.stage # "body" /\ Flow(s) = Frame(t)
  \/ rx[s].read = [stage |-> "body", n |-> BodyWords] /\ Flow(s) = Tail(Frame(t))

\* A call has its one ticket as a request, at the worker, or as a response.
Flight ==
  IF call = NoCall
  THEN handling = NoTicket /\ Silent("controller") /\ Silent("worker")
  ELSE \E t \in Tickets :
         /\ t.id = call.id /\ t.id # 0
         /\ \/ handling = NoTicket /\ Carries("worker", t) /\ Silent("controller")
            \/ handling = t /\ Silent("worker") /\ Silent("controller")
            \/ handling = NoTicket /\ Silent("worker") /\ Carries("controller", t)

Inv == TypeOK /\ ToController /\ NoForgedResponse /\ (faults = 0 => Flight /\ Matches)

-----------------------------------------------------------------------------
(* Sequences.                                                              *)

\* Receiving moves words from the wire to the buffer and keeps their order.
LEMMA ReceiveFlow ==
  ASSUME NEW S, NEW b \in Seq(S), NEW c \in Seq(S), NEW k \in 1 .. Len(c)
  PROVE  /\ b \o SubSeq(c, 1, k) \in Seq(S) /\ SubSeq(c, k + 1, Len(c)) \in Seq(S)
         /\ (b \o SubSeq(c, 1, k)) \o SubSeq(c, k + 1, Len(c)) = b \o c
<1>1. PICK x, y \in Seq(S) :
        /\ x = SubSeq(c, 1, k) /\ Len(x) = k /\ \A i \in 1 .. k : x[i] = c[i]
        /\ y = SubSeq(c, k + 1, Len(c)) /\ Len(y) = Len(c) - k
        /\ \A i \in 1 .. Len(c) - k : y[i] = c[k + i]
  <2>1. Len(c) \in Nat /\ \A i \in 1 .. Len(c) : c[i] \in S
    BY LenProperties, ElementOfSeq
  <2>2. /\ SubSeq(c, 1, k) \in Seq(S) /\ Len(SubSeq(c, 1, k)) = k
        /\ \A i \in 1 .. k : SubSeq(c, 1, k)[i] = c[i]
    BY <2>1, SubSeqProperties
  <2>3. /\ SubSeq(c, k + 1, Len(c)) \in Seq(S)
        /\ Len(SubSeq(c, k + 1, Len(c))) = Len(c) - k
        /\ \A i \in 1 .. Len(c) - k : SubSeq(c, k + 1, Len(c))[i] = c[k + i]
    <3>1. \A i \in k + 1 .. Len(c) : c[i] \in S
      BY <2>1
    <3>2. k + 1 \in Int /\ Len(c) \in Int
      BY <2>1
    <3>3. /\ SubSeq(c, k + 1, Len(c)) \in Seq(S)
          /\ Len(SubSeq(c, k + 1, Len(c)))
               = IF k + 1 <= Len(c) THEN Len(c) - (k + 1) + 1 ELSE 0
          /\ \A i \in 1 .. Len(c) - (k + 1) + 1 :
               SubSeq(c, k + 1, Len(c))[i] = c[k + 1 + i - 1]
      BY <3>1, <3>2, SubSeqProperties
    <3>4. QED
      BY <2>1, <3>3
  <2>4. QED
    BY <2>2, <2>3
<1>2. /\ x \o y \in Seq(S) /\ Len(x \o y) = Len(x) + Len(y)
      /\ \A i \in 1 .. Len(x) + Len(y) : (x \o y)[i] = IF i <= Len(x) THEN x[i]
                                                       ELSE y[i - Len(x)]
  BY ConcatProperties
<1>3. Len(c) \in Nat /\ Len(x) + Len(y) = Len(c)
  BY <1>1, LenProperties
<1>4. \A i \in 1 .. Len(c) : (x \o y)[i] = c[i]
  BY <1>1, <1>2, <1>3
<1>5. x \o y = c
  BY <1>2, <1>3, <1>4, SeqEqual
<1>6. b \o x \in Seq(S)
  BY ConcatProperties
<1>7. (b \o x) \o y = b \o (x \o y)
  BY ConcatAssociative
<1>8. QED
  BY <1>1, <1>5, <1>6, <1>7

\* Taking the first word from the buffer takes it from the flow.
LEMMA TailFlow ==
  ASSUME NEW S, NEW b \in Seq(S), NEW c \in Seq(S), Len(b) >= 1
  PROVE  /\ Tail(b) \in Seq(S) /\ Head(b) \in S /\ Head(b) = (b \o c)[1]
         /\ Tail(b) \o c = Tail(b \o c)
<1>1. /\ b # <<>> /\ b \o c \in Seq(S) /\ Len(b \o c) = Len(b) + Len(c)
      /\ (b \o c)[1] = b[1] /\ b[1] \in S /\ Head(b) = b[1]
  BY ConcatProperties, ElementOfSeq
<1>2. b \o c # <<>>
  BY <1>1
<1>3. /\ Tail(b) \in Seq(S) /\ Len(Tail(b)) = Len(b) - 1
      /\ \A i \in 1 .. Len(b) - 1 : Tail(b)[i] = b[i + 1]
  BY <1>1, HeadTailProperties
<1>4. /\ Tail(b \o c) \in Seq(S) /\ Len(Tail(b \o c)) = Len(b) + Len(c) - 1
      /\ \A i \in 1 .. Len(b) + Len(c) - 1 : Tail(b \o c)[i] = (b \o c)[i + 1]
  BY <1>1, <1>2, HeadTailProperties
<1>5. /\ Tail(b) \o c \in Seq(S) /\ Len(Tail(b) \o c) = Len(b) + Len(c) - 1
  BY <1>3, ConcatProperties
<1>6. ASSUME NEW i \in 1 .. Len(b) + Len(c) - 1
      PROVE  (Tail(b) \o c)[i] = Tail(b \o c)[i]
  <2>1. CASE i <= Len(b) - 1
    BY <1>3, <1>4, <2>1, ConcatProperties
  <2>2. CASE i > Len(b) - 1
    BY <1>3, <1>4, <2>2, ConcatProperties
  <2>3. QED
    BY <2>1, <2>2
<1>7. Tail(b) \o c = Tail(b \o c)
  BY <1>4, <1>5, <1>6, SeqEqual
<1>8. QED
  BY <1>1, <1>3, <1>7

\* A buffer as long as the flow is the flow.
LEMMA WholeFlow ==
  ASSUME NEW S, NEW b \in Seq(S), NEW c \in Seq(S), Len(b) >= Len(b \o c)
  PROVE  c = <<>> /\ b = b \o c /\ Len(b) = Len(b \o c)
<1>1. Len(c) = 0
  BY ConcatProperties
<1>2. c = <<>>
  BY <1>1, EmptySeq
<1>3. QED
  BY <1>2, ConcatEmptySeq

-----------------------------------------------------------------------------
(* Words and frames.                                                       *)

LEMMA WordTypes ==
  ASSUME NEW t \in Tickets, NEW i \in Nat
  PROVE  /\ NoTicket \in Tickets /\ NoTicket.id = 0
         /\ Zero \in Words /\ LengthWord \in Words /\ BodyWord(t, i) \in Words
         /\ LengthWord.len = BodyWords /\ LengthWord.part = 0 /\ Zero.part = 0
         /\ BodyWord(t, i).ticket = t /\ BodyWord(t, i).part = i
         /\ LengthWord # BodyWord(t, i)
<1>1. NoTicket \in Tickets /\ NoTicket.id = 0
  BY DEF NoTicket, Ticket, Tickets, Status
<1>2. BodyWords \in Nat /\ Garbage \in Nat /\ BodyWords # Garbage
  BY WordsAssumption
<1> HIDE DEF NoTicket, Tickets
<1>3. QED
  BY <1>1, <1>2 DEF Words, Zero, LengthWord, BodyWord

LEMMA FrameType ==
  ASSUME NEW t \in Tickets
  PROVE  /\ Frame(t) \in Seq(Words) /\ Len(Frame(t)) = BodyWords + 1
         /\ Frame(t)[1] = LengthWord
         /\ \A i \in 1 .. BodyWords : Frame(t)[i + 1] = BodyWord(t, i)
         /\ Genuine(Frame(t), {t})
<1> DEFINE body == [i \in 1 .. BodyWords |-> BodyWord(t, i)]
<1>1. BodyWords \in Nat
  BY WordsAssumption
<1>2. \A i \in 1 .. BodyWords : BodyWord(t, i) \in Words
  BY <1>1, WordTypes
<1>3. body \in Seq(Words) /\ Len(body) = BodyWords
  BY <1>1, <1>2, IsASeq
<1>4. <<LengthWord>> \in Seq(Words) /\ Len(<<LengthWord>>) = 1 /\ <<LengthWord>>[1] = LengthWord
  BY WordTypes
<1>5. \A i \in 1 .. BodyWords : body[i] = BodyWord(t, i)
  OBVIOUS
<1> HIDE DEF body
<1>6. /\ <<LengthWord>> \o body \in Seq(Words) /\ Len(<<LengthWord>> \o body) = BodyWords + 1
      /\ (<<LengthWord>> \o body)[1] = LengthWord
      /\ \A i \in 1 .. BodyWords : (<<LengthWord>> \o body)[i + 1] = body[i]
  BY <1>1, <1>3, <1>4, ConcatProperties
<1>7. Frame(t) = <<LengthWord>> \o body
  BY DEF Frame, body
<1>8. /\ Frame(t) \in Seq(Words) /\ Len(Frame(t)) = BodyWords + 1
      /\ Frame(t)[1] = LengthWord
      /\ \A i \in 1 .. BodyWords : Frame(t)[i + 1] = BodyWord(t, i)
  BY <1>5, <1>6, <1>7
<1>9. ASSUME NEW i \in 1 .. Len(Frame(t)), Frame(t)[i].part # 0
      PROVE  Frame(t)[i].ticket \in {t}
  <2>1. i # 1
    BY <1>8, <1>9, WordTypes
  <2>2. i - 1 \in 1 .. BodyWords /\ i = (i - 1) + 1
    BY <1>1, <1>8, <2>1
  <2>3. Frame(t)[i] = BodyWord(t, i - 1)
    BY <1>8, <2>2
  <2>4. QED
    BY <2>2, <2>3, WordTypes
<1>10. QED
  BY <1>8, <1>9 DEF Genuine

\* The body of a frame, as it is read after the prefix.
LEMMA BodyType ==
  ASSUME NEW t \in Tickets
  PROVE  /\ Tail(Frame(t)) \in Seq(Words) /\ Len(Tail(Frame(t))) = BodyWords
         /\ \A i \in 1 .. BodyWords : Tail(Frame(t))[i] = BodyWord(t, i)
<1>1. BodyWords \in Nat
  BY WordsAssumption
<1> DEFINE f == Frame(t)
<1>2. f \in Seq(Words) /\ Len(f) = BodyWords + 1
  BY FrameType
<1>3. \A i \in 1 .. BodyWords : f[i + 1] = BodyWord(t, i)
  BY FrameType
<1> HIDE DEF f
<1>4. f # <<>>
  BY <1>1, <1>2
<1>5. /\ Tail(f) \in Seq(Words) /\ Len(Tail(f)) = BodyWords
      /\ \A i \in 1 .. BodyWords : Tail(f)[i] = f[i + 1]
  BY <1>1, <1>2, <1>4, HeadTailProperties
<1>6. QED
  BY <1>3, <1>5 DEF f

\* What a write that may fail leaves on the wire is a prefix of the frame.
LEMMA SentType ==
  ASSUME NEW t \in Tickets, NEW words \in SentWords(t)
  PROVE  words \in Seq(Words) /\ Genuine(words, {t})
<1>1. PICK j \in 0 .. BodyWords + 1 : words = SubSeq(Frame(t), 1, j)
  BY DEF SentWords
<1>2. BodyWords \in Nat
  BY WordsAssumption
<1> DEFINE f == Frame(t)
<1>3. f \in Seq(Words) /\ Len(f) = BodyWords + 1 /\ Genuine(f, {t})
  BY FrameType
<1> HIDE DEF f
<1>4. \A i \in 1 .. j : f[i] \in Words
  BY <1>2, <1>3, ElementOfSeq
<1>5. /\ SubSeq(f, 1, j) \in Seq(Words) /\ Len(SubSeq(f, 1, j)) = j
      /\ \A i \in 1 .. j : SubSeq(f, 1, j)[i] = f[i]
  BY <1>2, <1>4, SubSeqProperties
<1>6. QED
  BY <1>1, <1>2, <1>3, <1>5 DEF Genuine, f

\* Reading past the words of two sequences, and a part of one, stays genuine.
LEMMA GenuineConcat ==
  ASSUME NEW b \in Seq(Words), NEW c \in Seq(Words), NEW R,
         Genuine(b, R), Genuine(c, R)
  PROVE  b \o c \in Seq(Words) /\ Genuine(b \o c, R)
<1>1. b \o c \in Seq(Words) /\ Len(b \o c) = Len(b) + Len(c)
  BY ConcatProperties
<1>2. ASSUME NEW i \in 1 .. Len(b \o c), (b \o c)[i].part # 0
      PROVE  (b \o c)[i].ticket \in R
  <2>1. CASE i <= Len(b)
    BY <1>2, <2>1, ConcatProperties DEF Genuine
  <2>2. CASE i > Len(b)
    <3>1. i - Len(b) \in 1 .. Len(c) /\ (b \o c)[i] = c[i - Len(b)]
      BY <1>1, <2>2, ConcatProperties
    <3>2. QED
      BY <1>2, <3>1 DEF Genuine
  <2>3. QED
    BY <1>1, <2>1, <2>2
<1>3. QED
  BY <1>1, <1>2 DEF Genuine

LEMMA GenuineSubSeq ==
  ASSUME NEW b \in Seq(Words), NEW R, Genuine(b, R),
         NEW m \in Nat \ {0}, NEW n \in 0 .. Len(b)
  PROVE  SubSeq(b, m, n) \in Seq(Words) /\ Genuine(SubSeq(b, m, n), R)
<1>1. CASE m <= n + 1
  <2>1. /\ SubSeq(b, m, n) \in Seq(Words) /\ Len(SubSeq(b, m, n)) = n - m + 1
        /\ \A i \in 1 .. n - m + 1 : SubSeq(b, m, n)[i] = b[m + i - 1]
    BY <1>1, SubSeqProperties
  <2>2. \A i \in 1 .. n - m + 1 : m + i - 1 \in 1 .. Len(b)
    OBVIOUS
  <2>3. QED
    BY <1>1, <2>1, <2>2 DEF Genuine
<1>2. CASE m > n + 1
  <2>1. SubSeq(b, m, n) = << >>
    BY <1>2, SubSeqProperties
  <2>2. QED
    BY <2>1 DEF Genuine
<1>3. QED
  BY <1>1, <1>2

-----------------------------------------------------------------------------
(* The parts of the state.                                                 *)

\* The types, one fact for each use.
LEMMA Types ==
  ASSUME TypeOK
  PROVE  /\ rx \in [Side -> Sides] /\ wire \in [Side -> Seq(Words)]
         /\ \A s \in Side : /\ rx[s].buf \in Seq(Words) /\ rx[s].read \in Reads
                            /\ rx[s].read.n \in Nat /\ wire[s] \in Seq(Words)
                            /\ Len(rx[s].buf) \in Nat /\ Len(wire[s]) \in Nat
         /\ "controller" \in Side /\ "worker" \in Side /\ "controller" # "worker"
         /\ call \in Calls /\ faults \in Nat /\ requests \in Nat /\ counter \in Nat
<1>1. rx \in [Side -> Sides] /\ wire \in [Side -> Seq(Words)]
  BY DEF TypeOK, Sides, Reads
<1>2. ASSUME NEW s \in Side
      PROVE  /\ rx[s].buf \in Seq(Words) /\ rx[s].read \in Reads
             /\ rx[s].read.n \in Nat /\ wire[s] \in Seq(Words)
  BY <1>1 DEF Sides, Reads
<1>3. \A b \in Seq(Words) : Len(b) \in Nat
  BY LenProperties
<1>4. QED
  BY <1>1, <1>2, <1>3 DEF TypeOK, Calls, Side

\* An action that replaces one side's buffer and read.
LEMMA SetSide ==
  ASSUME TypeOK, NEW s \in Side, NEW b \in Seq(Words), NEW r \in Reads,
         rx' = [rx EXCEPT ![s] = [buf |-> b, read |-> r]]
  PROVE  /\ rx' \in [Side -> Sides] /\ rx'[s].buf = b /\ rx'[s].read = r
         /\ \A x \in Side : x # s => rx'[x] = rx[x]
<1>1. [buf |-> b, read |-> r] \in Sides
  BY DEF Sides
<1>2. rx'[s] = [buf |-> b, read |-> r]
  BY Types
<1>3. QED
  BY <1>1, <1>2, Types

LEMMA SetBuf ==
  ASSUME NEW x \in Sides, NEW b
  PROVE  [x EXCEPT !.buf = b] = [buf |-> b, read |-> x.read]
BY DEF Sides

LEMMA SetWire ==
  ASSUME TypeOK, NEW s \in Side, NEW c \in Seq(Words), wire' = [wire EXCEPT ![s] = c]
  PROVE  /\ wire' \in [Side -> Seq(Words)] /\ wire'[s] = c
         /\ \A x \in Side : x # s => wire'[x] = wire[x]
BY Types

LEMMA NoReadType ==
  /\ NoRead \in Reads /\ NoRead.stage = "none"
  /\ \A b : BeginReceive(b) = [buf |-> b, read |-> [stage |-> "prefix", n |-> 1]]
  /\ [stage |-> "prefix", n |-> 1] \in Reads
  /\ [stage |-> "prefix", n |-> 1].stage = "prefix"
  /\ [stage |-> "prefix", n |-> 1] # NoRead
BY DEF NoRead, Reads, BeginReceive

\* When the body has arrived and nothing has failed, it is the body of the one
\* frame in flight, all of it and nothing else.
LEMMA Arrived ==
  ASSUME TypeOK, NEW s \in Side, NEW t \in Tickets, Carries(s, t), BodyComplete(s)
  PROVE  /\ wire[s] = <<>> /\ IsDocument(Body(s)) /\ Body(s)[1].ticket = t
         /\ TakeBody(s).buf = <<>>
<1> DEFINE b == rx[s].buf
           c == wire[s]
<1>1. b \in Seq(Words) /\ c \in Seq(Words)
  BY Types
<1>2. rx[s].read.n = BodyWords /\ b \o c = Tail(Frame(t)) /\ Len(b) >= BodyWords
  <2>1. rx[s].read.stage = "body" /\ Len(b) >= rx[s].read.n
    BY DEF BodyComplete
  <2>2. rx[s].read = [stage |-> "body", n |-> BodyWords] /\ b \o c = Tail(Frame(t))
    BY <2>1 DEF Carries, Flow
  <2>3. QED
    BY <2>1, <2>2
<1>3. /\ Tail(Frame(t)) \in Seq(Words) /\ Len(Tail(Frame(t))) = BodyWords
      /\ \A i \in 1 .. BodyWords : Tail(Frame(t))[i] = BodyWord(t, i)
  BY BodyType
<1>4. c = <<>> /\ b = Tail(Frame(t)) /\ Len(b) = BodyWords
  <2>1. Len(b) >= Len(b \o c)
    BY <1>2, <1>3
  <2>2. c = <<>> /\ b = b \o c /\ Len(b) = Len(b \o c)
    BY <1>1, <2>1, WholeFlow, ZenonT(60)
  <2>3. QED
    BY <1>2, <1>3, <2>2
<1>5. BodyWords \in Nat /\ BodyWords >= 1
  BY WordsAssumption
<1>6. /\ Body(s) \in Seq(Words) /\ Len(Body(s)) = BodyWords
      /\ \A i \in 1 .. BodyWords : Body(s)[i] = BodyWord(t, i)
  <2>1. \A i \in 1 .. BodyWords : b[i] \in Words
    BY <1>1, <1>4, ElementOfSeq
  <2>2. /\ SubSeq(b, 1, BodyWords) \in Seq(Words) /\ Len(SubSeq(b, 1, BodyWords)) = BodyWords
        /\ \A i \in 1 .. BodyWords : SubSeq(b, 1, BodyWords)[i] = b[i]
    BY <1>5, <2>1, SubSeqProperties
  <2>3. Body(s) = SubSeq(b, 1, BodyWords)
    BY <1>2 DEF Body
  <2>4. QED
    BY <1>3, <1>4, <2>2, <2>3
<1>7. Body(s)[1].ticket = t /\ Body(s)[1].part = 1
  BY <1>5, <1>6, WordTypes
<1>8. IsDocument(Body(s))
  BY <1>6, <1>7 DEF IsDocument
<1>9. TakeBody(s).buf = <<>>
  <2>1. TakeBody(s).buf = SubSeq(b, BodyWords + 1, BodyWords)
    BY <1>2, <1>4 DEF TakeBody
  <2>2. QED
    BY <1>5, <2>1, SubSeqEmpty
<1>10. QED
  BY <1>4, <1>7, <1>8, <1>9

\* A document that is accepted is genuine if the words it was read from are.
LEMMA DocumentGenuine ==
  ASSUME TypeOK, NEW s \in Side, BodyComplete(s), NEW R, Genuine(rx[s].buf, R)
  PROVE  /\ TakeBody(s).buf \in Seq(Words) /\ Genuine(TakeBody(s).buf, R)
         /\ TakeBody(s).read = NoRead
         /\ IsDocument(Body(s)) => Body(s)[1].ticket \in Tickets /\ Body(s)[1].ticket \in R
<1> DEFINE b == rx[s].buf
           n == rx[s].read.n
<1>1. b \in Seq(Words) /\ n \in Nat /\ Len(b) \in Nat /\ n <= Len(b)
  BY Types DEF BodyComplete
<1>2. TakeBody(s).buf = SubSeq(b, n + 1, Len(b)) /\ TakeBody(s).read = NoRead
  BY DEF TakeBody
<1>3. Body(s) = SubSeq(b, 1, n)
  BY DEF Body
<1> HIDE DEF b, n
<1>4. Genuine(b, R)
  BY DEF b
<1>5. SubSeq(b, n + 1, Len(b)) \in Seq(Words) /\ Genuine(SubSeq(b, n + 1, Len(b)), R)
  <2>1. n + 1 \in Nat \ {0} /\ Len(b) \in 0 .. Len(b)
    BY <1>1
  <2>2. QED
    BY <1>1, <1>4, <2>1, GenuineSubSeq
<1>6. SubSeq(b, 1, n) \in Seq(Words) /\ Genuine(SubSeq(b, 1, n), R)
  <2>1. 1 \in Nat \ {0} /\ n \in 0 .. Len(b)
    BY <1>1
  <2>2. QED
    BY <1>1, <1>4, <2>1, GenuineSubSeq
<1>7. ASSUME IsDocument(Body(s))
      PROVE  Body(s)[1].ticket \in Tickets /\ Body(s)[1].ticket \in R
  <2>1. BodyWords \in Nat /\ BodyWords >= 1
    BY WordsAssumption
  <2>2. Len(Body(s)) = BodyWords /\ Body(s)[1].part = 1
    BY <1>7 DEF IsDocument
  <2>3. Body(s)[1] \in Words
    BY <1>3, <1>6, <2>1, <2>2, ElementOfSeq
  <2>4. Body(s)[1].ticket \in R
    BY <1>3, <1>6, <2>1, <2>2 DEF Genuine
  <2>5. QED
    BY <2>3, <2>4 DEF Words
<1>8. QED
  BY <1>2, <1>5, <1>7

-----------------------------------------------------------------------------
(* The controller's steps.                                                 *)

Returns == [api : Apis, id : Nat, ok : BOOLEAN, response : Tickets]

LEMMA ReturnType ==
  ASSUME NEW c \in Calls, NEW ok \in BOOLEAN, NEW t \in Tickets, Return(c, ok, t)
  PROVE  /\ returned' \in Returns /\ call' = NoCall /\ NoCall \in Calls
         /\ returned'.ok = ok /\ returned'.id = c.id /\ returned'.response = t
<1>1. NoCall \in Calls
  BY DEF NoCall, Calls, Apis
<1>2. c.api \in Apis /\ c.id \in Nat
  BY DEF Calls
<1>3. QED
  BY <1>1, <1>2 DEF Return, Returns

\* A failed call: its response is not used.
LEMMA NothingReturned ==
  ASSUME NEW c \in Calls, Return(c, FALSE, NoTicket)
  PROVE  /\ returned' \in Returns /\ call' = NoCall /\ NoCall \in Calls
         /\ NoForgedResponse' /\ Matches'
<1>1. NoTicket \in Tickets
  BY DEF NoTicket, Ticket, Tickets, Status
<1>2. FALSE \in BOOLEAN
  OBVIOUS
<1>3. /\ returned' \in Returns /\ call' = NoCall /\ NoCall \in Calls
      /\ returned'.ok = FALSE
  BY <1>1, <1>2, ReturnType
<1>4. QED
  BY <1>3 DEF NoForgedResponse, Matches

\* A handshake on behalf of c, by send, sendLong, poll, cancel or sendLong's loop.
LEMMA HandshakeStep ==
  ASSUME Inv, NEW c \in Calls, c # NoCall, NEW t \in Tickets, NEW b \in Seq(Words),
         Genuine(b, answered),
         faults = 0 => /\ b = <<>> /\ wire["controller"] = <<>> /\ Silent("worker")
                       /\ handling = NoTicket /\ t.id = c.id /\ t.id # 0,
         Handshake(c, t, b), counter' \in Nat, UNCHANGED <<open, handling, answered>>
  PROVE  Inv'
<1>1. TypeOK
  BY DEF Inv
<1>2. PICK words \in SentWords(t) :
        /\ wire' = [wire EXCEPT !["worker"] = @ \o words]
        /\ \/ /\ words = Frame(t)
              /\ rx' = [rx EXCEPT !["controller"] = BeginReceive(b)]
              /\ call' = c
              /\ UNCHANGED <<faults, returned>>
           \/ /\ faults' = faults + 1
              /\ rx' = [rx EXCEPT !["controller"] = [buf |-> b, read |-> NoRead]]
              /\ Return(c, FALSE, NoTicket)
  BY Zenon DEF Handshake
<1>3. wire["worker"] \o words \in Seq(Words)
  BY <1>1, Types, SentType, ConcatProperties
<1>4. /\ wire' \in [Side -> Seq(Words)] /\ wire'["controller"] = wire["controller"]
      /\ wire'["worker"] = wire["worker"] \o words
  BY <1>1, <1>2, <1>3, SetWire, Types
<1>5. requests' \in Nat
  BY <1>1 DEF Handshake, TypeOK
<1>6. CASE /\ words = Frame(t)
           /\ rx' = [rx EXCEPT !["controller"] = BeginReceive(b)]
           /\ call' = c
           /\ UNCHANGED <<faults, returned>>
  <2> DEFINE r == [stage |-> "prefix", n |-> 1]
  <2>1. /\ r \in Reads /\ r.stage = "prefix" /\ r # NoRead
        /\ rx' = [rx EXCEPT !["controller"] = [buf |-> b, read |-> r]]
    BY <1>6, NoReadType
  <2> HIDE DEF r
  <2>2. /\ rx' \in [Side -> Sides] /\ rx'["controller"].buf = b
        /\ rx'["controller"].read = r /\ rx'["worker"] = rx["worker"]
    BY <1>1, <2>1, SetSide, Types
  <2>3. TypeOK'
    BY <1>1, <1>4, <1>5, <1>6, <2>1, <2>2 DEF TypeOK, Sides, Reads, Calls
  <2>4. ToController' /\ NoForgedResponse'
    BY <1>4, <1>6, <2>2 DEF Inv, ToController, NoForgedResponse
  <2>5. ASSUME faults' = 0 PROVE Flight' /\ Matches'
    <3>1. /\ faults = 0 /\ b = <<>> /\ wire["controller"] = <<>> /\ Silent("worker")
          /\ handling = NoTicket /\ t.id = c.id /\ t.id # 0 /\ Matches
      BY <1>6, <2>5 DEF Inv
    <3>2. Matches'
      BY <1>6, <3>1 DEF Matches
    <3>3. Silent("controller")'
      BY <1>4, <2>1, <2>2, <3>1 DEF Silent
    <3>4. Carries("worker", t)'
      <4>1. wire'["worker"] = Frame(t)
        BY <1>4, <1>6, <3>1, FrameType, ConcatEmptySeq DEF Silent
      <4>2. rx'["worker"].buf \o wire'["worker"] = Frame(t)
        BY <2>2, <3>1, <4>1, FrameType, ConcatEmptySeq DEF Silent
      <4>3. QED
        BY <2>2, <3>1, <4>2 DEF Carries, Flow, Silent
    <3>5. Flight'
      BY <1>6, <3>1, <3>3, <3>4 DEF Flight
    <3>6. QED
      BY <3>2, <3>5
  <2>6. QED
    BY <2>3, <2>4, <2>5 DEF Inv
<1>7. CASE /\ faults' = faults + 1
           /\ rx' = [rx EXCEPT !["controller"] = [buf |-> b, read |-> NoRead]]
           /\ Return(c, FALSE, NoTicket)
  <2>1. /\ rx' \in [Side -> Sides] /\ rx'["controller"].buf = b
        /\ rx'["controller"].read = NoRead /\ rx'["worker"] = rx["worker"]
    BY <1>1, <1>7, NoReadType, SetSide, Types
  <2>2. /\ returned' \in Returns /\ call' = NoCall /\ NoCall \in Calls
        /\ NoForgedResponse' /\ Matches'
    BY <1>7, NothingReturned
  <2>3. faults' \in Nat /\ faults' # 0
    BY <1>1, <1>7, Types
  <2>4. TypeOK'
    BY <1>1, <1>4, <1>5, <2>1, <2>2, <2>3 DEF TypeOK, Sides, Reads, Calls, Returns
  <2>5. ToController'
    BY <1>4, <2>1 DEF Inv, ToController
  <2>6. QED
    BY <2>2, <2>3, <2>4, <2>5 DEF Inv
<1>8. QED
  BY <1>2, <1>6, <1>7

LEMMA CallStep ==
  ASSUME Inv, NEW api \in Apis \ {"none"}, NEW id \in Nat \ {0}, NEW t \in Tickets,
         t.id = id, Call(api, id, t), counter' \in Nat
  PROVE  Inv'
<1> DEFINE c == [api |-> api, id |-> id]
<1>1. c \in Calls /\ c # NoCall /\ c.id = id
  BY DEF Calls, NoCall
<1>2. rx["controller"].buf \in Seq(Words)
  BY Types DEF Inv
<1>3. faults = 0 => /\ rx["controller"].buf = <<>> /\ wire["controller"] = <<>>
                    /\ Silent("worker") /\ handling = NoTicket
  BY DEF Inv, Flight, Silent, Call
<1>4. Handshake(c, t, rx["controller"].buf) /\ UNCHANGED <<open, handling, answered>>
  BY DEF Call
<1>5. Genuine(rx["controller"].buf, answered)
  BY DEF Inv, ToController
<1> HIDE DEF c
<1>6. QED
  BY <1>1, <1>2, <1>3, <1>4, <1>5, HandshakeStep

LEMMA SendStep ==
  ASSUME Inv, NEW api \in {"send", "long"}, NEW cmd \in Commands, Send(api, cmd)
  PROVE  Inv'
<1> DEFINE t == Ticket(counter + 1, "pending", cmd, FALSE)
<1>1. counter \in Nat
  BY Types DEF Inv
<1>2. t \in Tickets /\ t.id = counter + 1
  BY <1>1 DEF Ticket, Tickets, Status
<1>3. api \in Apis \ {"none"} /\ counter + 1 \in Nat \ {0}
  BY <1>1 DEF Apis
<1>4. Call(api, counter + 1, t) /\ counter' = counter + 1
  BY Zenon DEF Send
<1>5. counter' \in Nat
  BY <1>1, <1>4
<1> HIDE DEF t
<1>6. QED
  BY <1>2, <1>3, <1>4, <1>5, CallStep

LEMMA PollStep ==
  ASSUME Inv, NEW id \in 1 .. counter, Poll(id) \/ Cancel(id)
  PROVE  Inv'
<1>1. counter \in Nat
  BY Types DEF Inv
<1>2. id \in Nat \ {0}
  BY <1>1
<1>3. counter' \in Nat
  BY <1>1 DEF Poll, Cancel
<1>4. /\ "poll" \in Apis \ {"none"} /\ "cancel" \in Apis \ {"none"}
  BY DEF Apis
<1>5. CASE Poll(id)
  <2> DEFINE t == Ticket(id, "pending", "poll", FALSE)
  <2>1. t \in Tickets /\ t.id = id
    BY <1>2 DEF Ticket, Tickets, Status
  <2>2. Call("poll", id, t)
    BY <1>5 DEF Poll
  <2> HIDE DEF t
  <2>3. QED
    BY <1>2, <1>3, <1>4, <2>1, <2>2, CallStep
<1>6. CASE Cancel(id)
  <2> DEFINE t == Ticket(id, "cancelled", "cancel", FALSE)
  <2>1. t \in Tickets /\ t.id = id
    BY <1>2 DEF Ticket, Tickets, Status
  <2>2. Call("cancel", id, t)
    BY <1>6 DEF Cancel
  <2> HIDE DEF t
  <2>3. QED
    BY <1>2, <1>3, <1>4, <2>1, <2>2, CallStep
<1>7. QED
  BY <1>5, <1>6

\* The response that arrives while nothing has failed answers the call's ticket.
LEMMA ResponseArrives ==
  ASSUME Inv, faults = 0, BodyComplete("controller")
  PROVE  /\ handling = NoTicket /\ Silent("worker") /\ wire["controller"] = <<>>
         /\ IsDocument(Body("controller")) /\ TakeBody("controller").buf = <<>>
         /\ Body("controller")[1].ticket.id = call.id /\ call.id # 0
<1>1. ~Silent("controller")
  BY DEF Silent, BodyComplete
<1>2. PICK t \in Tickets :
        /\ t.id = call.id /\ t.id # 0
        /\ handling = NoTicket /\ Silent("worker") /\ Carries("controller", t)
  BY <1>1 DEF Inv, Flight
<1>3. QED
  BY <1>2, Arrived, Types DEF Inv

LEMMA ControllerReceivesStep ==
  ASSUME Inv, ControllerReceives
  PROVE  Inv'
<1> DEFINE t == Body("controller")[1].ticket
           after == TakeBody("controller")
<1>1. TypeOK /\ BodyComplete("controller") /\ Genuine(rx["controller"].buf, answered)
  BY DEF Inv, ToController, ControllerReceives
<1>2. /\ after.buf \in Seq(Words) /\ Genuine(after.buf, answered) /\ after.read = NoRead
      /\ IsDocument(Body("controller")) => t \in Tickets /\ t \in answered
  BY <1>1, DocumentGenuine, Types
<1>3. after = [buf |-> after.buf, read |-> NoRead]
  BY DEF TakeBody
<1>4. call # NoCall /\ call \in Calls
  <2>1. rx["controller"].read # NoRead
    BY <1>1 DEF BodyComplete, NoRead
  <2>2. QED
    BY <1>1, <2>1 DEF TypeOK, Calls
<1>5. UNCHANGED <<open, handling, counter, answered>>
  BY DEF ControllerReceives
<1>6. faults = 0 => /\ handling = NoTicket /\ Silent("worker") /\ wire["controller"] = <<>>
                    /\ after.buf = <<>> /\ t.id = call.id /\ call.id # 0
  BY <1>1, ResponseArrives
<1>7. CASE /\ IsDocument(Body("controller")) /\ MustPoll(call.api, t)
           /\ Handshake(call, Ticket(t.id, "pending", "poll", FALSE), after.buf)
  <2> DEFINE q == Ticket(t.id, "pending", "poll", FALSE)
  <2>1. t \in Tickets
    BY <1>2, <1>7
  <2> HIDE DEF t, after
  <2>2. q \in Tickets /\ q.id = t.id
    BY <2>1 DEF Ticket, Tickets, Status
  <2>3. counter' \in Nat
    BY <1>1, <1>5, Types
  <2>4. Handshake(call, q, after.buf)
    BY <1>7 DEF q
  <2> HIDE DEF q
  <2>5. QED
    BY <1>2, <1>4, <1>5, <1>6, <2>2, <2>3, <2>4, HandshakeStep
<1>8. ASSUME /\ rx' = [rx EXCEPT !["controller"] = after]
             /\ UNCHANGED <<wire, requests, faults>>
             /\ returned' \in Returns /\ call' = NoCall /\ NoCall \in Calls
             /\ NoForgedResponse' /\ (faults = 0 => Matches')
      PROVE  Inv'
  <2> HIDE DEF t, after
  <2>1. rx' = [rx EXCEPT !["controller"] = [buf |-> after.buf, read |-> NoRead]]
    BY <1>3, <1>8
  <2>2. /\ rx' \in [Side -> Sides] /\ rx'["controller"].buf = after.buf
        /\ rx'["controller"].read = NoRead /\ rx'["worker"] = rx["worker"]
    BY <1>1, <1>2, <2>1, NoReadType, SetSide, Types
  <2>3. TypeOK'
    BY <1>1, <1>5, <1>8, <2>2 DEF TypeOK, Sides, Reads, Calls, Returns
  <2>4. ToController'
    BY <1>2, <1>5, <1>8, <2>2 DEF Inv, ToController
  <2>5. ASSUME faults' = 0 PROVE Flight' /\ Matches'
    <3>1. Silent("controller")' /\ Silent("worker")'
      BY <1>6, <1>8, <2>2, <2>5, NoReadType DEF Silent
    <3>2. QED
      BY <1>5, <1>6, <1>8, <2>5, <3>1 DEF Flight
  <2>6. QED
    BY <1>8, <2>3, <2>4, <2>5 DEF Inv
<1>9. CASE /\ IsDocument(Body("controller"))
           /\ rx' = [rx EXCEPT !["controller"] = after]
           /\ Return(call, Accepts(call.api, t), t)
           /\ UNCHANGED <<wire, requests, faults>>
  <2>1. t \in Tickets /\ t \in answered
    BY <1>2, <1>9
  <2>2. Accepts(call.api, t) \in BOOLEAN
    BY DEF Accepts
  <2> HIDE DEF t, after
  <2>3. /\ returned' \in Returns /\ call' = NoCall /\ NoCall \in Calls
        /\ returned'.id = call.id /\ returned'.response = t
    BY <1>4, <1>9, <2>1, <2>2, ReturnType
  <2>4. NoForgedResponse' /\ (faults = 0 => Matches')
    BY <1>5, <1>6, <2>1, <2>3 DEF NoForgedResponse, Matches
  <2>5. QED
    BY <1>8, <1>9, <2>3, <2>4
<1>10. CASE /\ rx' = [rx EXCEPT !["controller"] = after]
            /\ Return(call, FALSE, NoTicket)
            /\ UNCHANGED <<wire, requests, faults>>
  BY <1>4, <1>8, <1>10, NothingReturned
<1>11. QED
  BY <1>7, <1>9, <1>10, Zenon DEF ControllerReceives

\* The buffer after a failed read is still made of words and of no body.
LEMMA AfterFailureType ==
  ASSUME TypeOK, NEW s \in Side, NEW R, Genuine(rx[s].buf, R)
  PROVE  /\ AfterFailure(s).buf \in Seq(Words) /\ Genuine(AfterFailure(s).buf, R)
         /\ AfterFailure(s) = [buf |-> AfterFailure(s).buf, read |-> NoRead]
<1> DEFINE zeros == [i \in 1 .. rx[s].read.n |-> Zero]
<1>1. rx[s].read.n \in Nat /\ rx[s].buf \in Seq(Words)
  BY Types
<1>2. NoTicket \in Tickets
  BY DEF NoTicket, Ticket, Tickets, Status
<1>3. Zero \in Words /\ Zero.part = 0
  BY <1>2 DEF Zero, Words
<1>4. zeros \in Seq(Words) /\ Len(zeros) = rx[s].read.n
  BY <1>1, <1>3, IsASeq
<1>5. Genuine(zeros, R)
  BY <1>3, <1>4 DEF Genuine
<1>6. AfterFailure(s) = [buf |-> rx[s].buf \o zeros, read |-> NoRead]
  BY DEF AfterFailure
<1> HIDE DEF zeros
<1>7. QED
  BY <1>1, <1>4, <1>5, <1>6, GenuineConcat

\* Whatever its tickets are, a buffer holds words of tickets.
LEMMA GenuineTickets ==
  ASSUME NEW b \in Seq(Words)
  PROVE  Genuine(b, Tickets)
<1>1. \A x \in Words : x.ticket \in Tickets
  BY DEF Words
<1>2. \A i \in 1 .. Len(b) : b[i] \in Words
  BY ElementOfSeq
<1>3. QED
  BY <1>1, <1>2 DEF Genuine

LEMMA ControllerReadFailsStep ==
  ASSUME Inv, ControllerReadFails
  PROVE  Inv'
<1> DEFINE b == AfterFailure("controller").buf
<1>1. TypeOK /\ Genuine(rx["controller"].buf, answered)
  BY DEF Inv, ToController
<1>2. /\ b \in Seq(Words) /\ Genuine(b, answered)
      /\ AfterFailure("controller") = [buf |-> b, read |-> NoRead]
  BY <1>1, AfterFailureType, Types
<1> HIDE DEF b
<1>3. rx' = [rx EXCEPT !["controller"] = [buf |-> b, read |-> NoRead]]
  BY <1>2 DEF ControllerReadFails
<1>4. /\ rx' \in [Side -> Sides] /\ rx'["controller"].buf = b
      /\ rx'["controller"].read = NoRead /\ rx'["worker"] = rx["worker"]
  BY <1>1, <1>2, <1>3, NoReadType, SetSide, Types
<1>5. /\ returned' \in Returns /\ call' = NoCall /\ NoCall \in Calls
      /\ NoForgedResponse' /\ Matches'
  BY <1>1, NothingReturned, Types DEF ControllerReadFails
<1>6. faults' \in Nat /\ faults' # 0
  BY <1>1, Types DEF ControllerReadFails
<1>7. UNCHANGED <<open, wire, handling, counter, requests, answered>>
  BY DEF ControllerReadFails
<1>8. TypeOK'
  BY <1>1, <1>4, <1>5, <1>6, <1>7 DEF TypeOK, Sides, Reads, Calls, Returns
<1>9. ToController'
  BY <1>2, <1>4, <1>7 DEF Inv, ToController
<1>10. QED
  BY <1>5, <1>6, <1>8, <1>9 DEF Inv

-----------------------------------------------------------------------------
(* The steps of either side, and of the worker.                            *)

\* Steps that move words inside one direction keep the one ticket in flight.
LEMMA FlightStep ==
  ASSUME Flight, UNCHANGED <<call, handling>>,
         \A x \in Side : /\ Silent(x) => Silent(x)'
                         /\ \A t \in Tickets : Carries(x, t) => Carries(x, t)'
  PROVE  Flight'
<1>1. "controller" \in Side /\ "worker" \in Side
  BY DEF Side
<1>2. CASE call = NoCall
  BY <1>1, <1>2 DEF Flight
<1>3. CASE call # NoCall
  <2>1. PICK t \in Tickets :
          /\ t.id = call.id /\ t.id # 0
          /\ \/ handling = NoTicket /\ Carries("worker", t) /\ Silent("controller")
             \/ handling = t /\ Silent("worker") /\ Silent("controller")
             \/ handling = NoTicket /\ Silent("worker") /\ Carries("controller", t)
    BY <1>3 DEF Flight
  <2>2. \/ handling = NoTicket /\ Carries("worker", t)' /\ Silent("controller")'
        \/ handling = t /\ Silent("worker")' /\ Silent("controller")'
        \/ handling = NoTicket /\ Silent("worker")' /\ Carries("controller", t)'
    BY <1>1, <2>1
  <2>3. QED
    BY <1>3, <2>1, <2>2 DEF Flight
<1>4. QED
  BY <1>2, <1>3

\* A side whose buffer, read and wire did not change.
LEMMA SideKept ==
  ASSUME NEW x, rx'[x] = rx[x], wire'[x] = wire[x]
  PROVE  /\ Silent(x) => Silent(x)'
         /\ \A t \in Tickets : Carries(x, t) => Carries(x, t)'
BY DEF Silent, Carries, Flow

LEMMA ReceiveWordsStep ==
  ASSUME Inv, NEW s \in Side, NEW k \in 1 .. Garbage, ReceiveWords(s, k)
  PROVE  Inv'
<1> DEFINE b == rx[s].buf
           c == wire[s]
           b1 == b \o SubSeq(c, 1, k)
           c1 == SubSeq(c, k + 1, Len(c))
           r == rx[s].read
<1>1. TypeOK
  BY DEF Inv
<1>2. b \in Seq(Words) /\ c \in Seq(Words) /\ r \in Reads /\ Len(c) \in Nat
  BY <1>1, Types
<1>3. k \in 1 .. Len(c) /\ r.stage # "none"
  BY <1>2, WordsAssumption DEF ReceiveWords
<1>4. b1 \in Seq(Words) /\ c1 \in Seq(Words) /\ b1 \o c1 = b \o c
  BY <1>2, <1>3, ReceiveFlow, ZenonT(60)
<1>5. rx' = [rx EXCEPT ![s] = [buf |-> b1, read |-> r]] /\ wire' = [wire EXCEPT ![s] = c1]
  <2>1. rx[s] \in Sides
    BY <1>1, Types
  <2>2. [rx[s] EXCEPT !.buf = b1] = [buf |-> b1, read |-> r]
    BY <2>1, SetBuf
  <2>3. rx' = [rx EXCEPT ![s] = [rx[s] EXCEPT !.buf = b1]]
    BY <1>1, Types DEF ReceiveWords
  <2>4. wire' = [wire EXCEPT ![s] = c1]
    BY DEF ReceiveWords
  <2>5. QED
    BY <2>2, <2>3, <2>4
<1>6. UNCHANGED <<open, call, handling, counter, requests, faults, returned, answered>>
  BY DEF ReceiveWords
<1>7. /\ Genuine(b, answered) /\ Genuine(c, answered)
         => Genuine(b1, answered) /\ Genuine(c1, answered)
  <2>1. k \in 0 .. Len(c) /\ 1 \in Nat \ {0} /\ k + 1 \in Nat \ {0} /\ Len(c) \in 0 .. Len(c)
    BY <1>2, <1>3
  <2> HIDE DEF b, c
  <2>2. Genuine(c, answered) => /\ SubSeq(c, 1, k) \in Seq(Words)
                                /\ Genuine(SubSeq(c, 1, k), answered)
    BY <1>2, <2>1, GenuineSubSeq
  <2>3. Genuine(c, answered) => Genuine(c1, answered)
    BY <1>2, <2>1, GenuineSubSeq
  <2>4. QED
    BY <1>2, <2>2, <2>3, GenuineConcat
<1> HIDE DEF b1, c1
<1>8. /\ rx' \in [Side -> Sides] /\ rx'[s].buf = b1 /\ rx'[s].read = r
      /\ \A x \in Side : x # s => rx'[x] = rx[x]
  BY <1>1, <1>2, <1>4, <1>5, SetSide
<1>9. /\ wire' \in [Side -> Seq(Words)] /\ wire'[s] = c1
      /\ \A x \in Side : x # s => wire'[x] = wire[x]
  BY <1>1, <1>4, <1>5, SetWire
<1>10. \A x \in Side : rx'[x].read = rx[x].read
  BY <1>8
<1>11. TypeOK'
  BY <1>1, <1>6, <1>8, <1>9, <1>10, Types DEF TypeOK, Sides, Reads
<1>12. ToController'
  BY <1>6, <1>7, <1>8, <1>9, <1>1, Types DEF Inv, ToController
<1>13. Flight => Flight'
  <2>1. ASSUME NEW x \in Side
        PROVE  /\ Silent(x) => Silent(x)'
               /\ \A t \in Tickets : Carries(x, t) => Carries(x, t)'
    <3>1. CASE x = s
      <4>1. ~Silent(x)
        BY <1>3, <3>1 DEF Silent
      <4>2. Flow(x)' = Flow(x)
        BY <1>4, <1>8, <1>9, <3>1 DEF Flow
      <4>3. QED
        BY <1>10, <4>1, <4>2 DEF Carries
    <3>2. CASE x # s
      BY <1>8, <1>9, <3>2, SideKept
    <3>3. QED
      BY <3>1, <3>2
  <2>2. QED
    BY <1>6, <2>1, FlightStep
<1>14. QED
  BY <1>6, <1>11, <1>12, <1>13 DEF Inv, NoForgedResponse, Matches

LEMMA ReadPrefixStep ==
  ASSUME Inv, NEW s \in Side, ReadPrefix(s)
  PROVE  Inv'
<1> DEFINE b == rx[s].buf
           c == wire[s]
           r1 == [stage |-> "body", n |-> Head(b).len]
<1>1. TypeOK
  BY DEF Inv
<1>2. b \in Seq(Words) /\ c \in Seq(Words) /\ Len(b) >= 1 /\ rx[s].read.stage = "prefix"
  BY <1>1, Types DEF ReadPrefix
<1>3. /\ Tail(b) \in Seq(Words) /\ Head(b) \in Words /\ Head(b) = (b \o c)[1]
      /\ Tail(b) \o c = Tail(b \o c)
  BY <1>2, TailFlow
<1>4. r1 \in Reads /\ r1.stage = "body" /\ r1 # NoRead /\ rx[s].read # NoRead
  <2>1. Head(b).len \in Nat
    BY <1>3 DEF Words
  <2>2. QED
    BY <1>2, <2>1 DEF Reads, NoRead
<1>5. /\ rx' = [rx EXCEPT ![s] = [buf |-> Tail(b), read |-> r1]]
      /\ UNCHANGED <<open, wire, call, handling, counter, requests, faults, returned, answered>>
  BY <1>1, Types DEF ReadPrefix
<1>6. Genuine(b, answered) => Genuine(Tail(b), answered)
  <2>1. /\ Len(b) \in Nat /\ Len(Tail(b)) = Len(b) - 1
        /\ \A i \in 1 .. Len(Tail(b)) : Tail(b)[i] = b[i + 1]
    BY <1>2, HeadTailProperties, LenProperties
  <2>2. QED
    BY <2>1 DEF Genuine
<1> HIDE DEF r1
<1>7. /\ rx' \in [Side -> Sides] /\ rx'[s].buf = Tail(b) /\ rx'[s].read = r1
      /\ \A x \in Side : x # s => rx'[x] = rx[x]
  BY <1>1, <1>3, <1>4, <1>5, SetSide
<1>8. TypeOK'
  BY <1>1, <1>4, <1>5, <1>7, Types DEF TypeOK, Sides, Reads
<1>9. ToController'
  BY <1>5, <1>6, <1>7, <1>1, Types DEF Inv, ToController
<1>10. Flight => Flight'
  <2>1. ASSUME NEW x \in Side
        PROVE  /\ Silent(x) => Silent(x)'
               /\ \A t \in Tickets : Carries(x, t) => Carries(x, t)'
    <3>1. CASE x = s
      <4>1. ~Silent(x)
        BY <1>2, <3>1 DEF Silent
      <4>2. ASSUME NEW t \in Tickets, Carries(x, t)
            PROVE  Carries(x, t)'
        <5>1. b \o c = Frame(t)
          <6>1. rx[x].read # [stage |-> "body", n |-> BodyWords]
            BY <1>2, <3>1
          <6>2. QED
            BY <3>1, <4>2, <6>1 DEF Carries, Flow
        <5>2. Head(b) = LengthWord
          BY <1>3, <5>1, FrameType
        <5>3. LengthWord.len = BodyWords
          BY DEF LengthWord
        <5>4. r1 = [stage |-> "body", n |-> BodyWords]
          BY <5>2, <5>3 DEF r1
        <5>5. Flow(x)' = Tail(Frame(t))
          BY <1>3, <1>5, <1>7, <3>1, <5>1 DEF Flow
        <5>6. QED
          BY <1>7, <3>1, <5>4, <5>5 DEF Carries
      <4>3. QED
        BY <4>1, <4>2
    <3>2. CASE x # s
      BY <1>5, <1>7, <3>2, SideKept
    <3>3. QED
      BY <3>1, <3>2
  <2>2. QED
    BY <1>5, <2>1, FlightStep
<1>11. QED
  BY <1>5, <1>8, <1>9, <1>10 DEF Inv, NoForgedResponse, Matches

LEMMA GoodbyeStep ==
  ASSUME Inv, NEW s \in Side, Goodbye(s)
  PROVE  Inv'
<1>1. UNCHANGED <<rx, wire, call, handling, counter, requests, faults, returned, answered>>
  BY DEF Goodbye
<1>2. open' \in [Side -> BOOLEAN]
  BY DEF Inv, TypeOK, Goodbye
<1>3. TypeOK'
  BY <1>1, <1>2 DEF Inv, TypeOK
<1>4. (\A x : Silent(x)' <=> Silent(x)) /\ (\A x, t : Carries(x, t)' <=> Carries(x, t))
  BY <1>1 DEF Silent, Carries, Flow
<1>5. Flight' <=> Flight
  BY <1>1, <1>4 DEF Flight
<1>6. QED
  BY <1>1, <1>3, <1>5 DEF Inv, ToController, NoForgedResponse, Matches

LEMMA HandleNextStep ==
  ASSUME Inv, HandleNext
  PROVE  Inv'
<1> DEFINE b == rx["worker"].buf
           r == [stage |-> "prefix", n |-> 1]
<1>1. TypeOK /\ b \in Seq(Words)
  BY Types DEF Inv
<1>2. r \in Reads /\ r.stage = "prefix"
  BY NoReadType
<1>3. /\ rx' = [rx EXCEPT !["worker"] = [buf |-> b, read |-> r]]
      /\ UNCHANGED <<open, wire, call, handling, counter, requests, faults, returned, answered>>
      /\ rx["worker"].read = NoRead /\ handling = NoTicket
  BY <1>1, Types DEF HandleNext, BeginReceive
<1> HIDE DEF r
<1>4. /\ rx' \in [Side -> Sides] /\ rx'["worker"].buf = b /\ rx'["worker"].read = r
      /\ rx'["controller"] = rx["controller"]
  BY <1>1, <1>2, <1>3, SetSide, Types
<1>5. TypeOK'
  BY <1>1, <1>3, <1>4 DEF TypeOK, Sides, Reads
<1>6. ToController'
  BY <1>3, <1>4 DEF Inv, ToController
<1>7. Flight => Flight'
  <2>1. Silent("worker") => Silent("worker")'
    BY <1>2, <1>3, <1>4 DEF Silent
  <2>2. ASSUME NEW t \in Tickets, Carries("worker", t)
        PROVE  Carries("worker", t)'
    <3>1. rx["worker"].read.stage # "body"
      BY <1>3, NoReadType
    <3>2. Flow("worker") = Frame(t)
      BY <2>2, <3>1 DEF Carries
    <3>3. QED
      BY <1>2, <1>3, <1>4, <3>2 DEF Carries, Flow
  <2>3. /\ Silent("controller") => Silent("controller")'
        /\ \A t \in Tickets : Carries("controller", t) => Carries("controller", t)'
    BY <1>3, <1>4, SideKept
  <2>4. QED
    BY <1>3, <2>1, <2>2, <2>3, FlightStep DEF Side
<1>8. QED
  BY <1>3, <1>5, <1>6, <1>7 DEF Inv, NoForgedResponse, Matches

LEMMA WorkerReceivesStep ==
  ASSUME Inv, WorkerReceives
  PROVE  Inv'
<1> DEFINE t == Body("worker")[1].ticket
           b == TakeBody("worker").buf
<1>1. /\ TypeOK /\ BodyComplete("worker") /\ "worker" \in Side
      /\ rx["worker"].buf \in Seq(Words) /\ Genuine(rx["worker"].buf, Tickets)
  BY Types, GenuineTickets DEF Inv, WorkerReceives
<1>2. /\ b \in Seq(Words) /\ TakeBody("worker").read = NoRead
      /\ IsDocument(Body("worker")) => t \in Tickets
  BY <1>1, DocumentGenuine
<1>3. TakeBody("worker") = [buf |-> b, read |-> NoRead]
  BY DEF TakeBody
<1>4. /\ rx' = [rx EXCEPT !["worker"] = [buf |-> b, read |-> NoRead]]
      /\ handling' = IF IsDocument(Body("worker")) THEN t ELSE NoTicket
      /\ UNCHANGED <<open, wire, call, counter, requests, faults, returned, answered>>
  BY <1>3 DEF WorkerReceives
<1>5. /\ rx' \in [Side -> Sides] /\ rx'["worker"].buf = b
      /\ rx'["worker"].read = NoRead /\ rx'["controller"] = rx["controller"]
  BY <1>1, <1>2, <1>4, NoReadType, SetSide, Types
<1>6. handling' \in Tickets
  <2>1. NoTicket \in Tickets
    BY DEF NoTicket, Ticket, Tickets, Status
  <2>2. QED
    BY <1>2, <1>4, <2>1
<1> HIDE DEF t, b
<1>7. TypeOK'
  BY <1>1, <1>4, <1>5, <1>6 DEF TypeOK, Sides, Reads
<1>8. ToController'
  BY <1>4, <1>5 DEF Inv, ToController
<1>9. Flight => Flight'
  <2> SUFFICES ASSUME Flight PROVE Flight'
    OBVIOUS
  <2>1. ~Silent("worker")
    BY <1>1 DEF Silent, BodyComplete
  <2>2. call # NoCall
    BY <2>1 DEF Flight
  <2>3. PICK q \in Tickets : /\ q.id = call.id /\ q.id # 0
                             /\ Carries("worker", q) /\ Silent("controller")
    BY <2>1, <2>2 DEF Flight
  <2>4. wire["worker"] = <<>> /\ IsDocument(Body("worker")) /\ t = q /\ b = <<>>
    BY <1>1, <2>3, Arrived DEF t, b
  <2>5. handling' = q
    BY <1>4, <2>4
  <2>6. Silent("worker")'
    BY <1>4, <1>5, <2>4, NoReadType DEF Silent
  <2>7. Silent("controller")'
    BY <1>4, <1>5, <2>3, SideKept
  <2>8. QED
    BY <1>4, <2>2, <2>3, <2>5, <2>6, <2>7 DEF Flight
<1>10. QED
  BY <1>4, <1>7, <1>8, <1>9 DEF Inv, NoForgedResponse, Matches

LEMMA WorkerReadFailsStep ==
  ASSUME Inv, WorkerReadFails
  PROVE  Inv'
<1> DEFINE b == AfterFailure("worker").buf
<1>1. /\ TypeOK /\ "worker" \in Side
      /\ rx["worker"].buf \in Seq(Words) /\ Genuine(rx["worker"].buf, Tickets)
  BY Types, GenuineTickets DEF Inv
<1>2. b \in Seq(Words) /\ AfterFailure("worker") = [buf |-> b, read |-> NoRead]
  BY <1>1, AfterFailureType
<1> HIDE DEF b
<1>3. rx' = [rx EXCEPT !["worker"] = [buf |-> b, read |-> NoRead]]
  BY <1>2 DEF WorkerReadFails
<1>4. /\ rx' \in [Side -> Sides] /\ rx'["worker"].read = NoRead
      /\ rx'["controller"] = rx["controller"]
  BY <1>1, <1>2, <1>3, NoReadType, SetSide, Types
<1>5. faults' \in Nat /\ faults' # 0
  BY <1>1, Types DEF WorkerReadFails
<1>6. UNCHANGED <<open, wire, call, handling, counter, requests, returned, answered>>
  BY DEF WorkerReadFails
<1>7. TypeOK'
  BY <1>1, <1>4, <1>5, <1>6 DEF TypeOK, Sides, Reads
<1>8. QED
  BY <1>4, <1>5, <1>6, <1>7 DEF Inv, ToController, NoForgedResponse

\* A response keeps the id of the ticket it answers.
LEMMA ResponseType ==
  ASSUME NEW t \in Tickets, NEW r \in Responses(t) \cup ForeignResponses(t)
  PROVE  r \in Tickets /\ r.id = t.id
<1>1. t.id \in Nat /\ t.cmd \in Commands \cup {"poll", "cancel", "none"}
  BY DEF Tickets
<1>2. ASSUME NEW st \in Status, NEW x \in BOOLEAN
      PROVE  Ticket(t.id, st, t.cmd, x) \in Tickets /\ Ticket(t.id, st, t.cmd, x).id = t.id
  BY <1>1 DEF Ticket, Tickets
<1>3. CASE r \in Responses(t)
  <2>1. r = Failed(t) \/ r = Completed(t)
    BY <1>3 DEF Responses
  <2>2. "failed" \in Status /\ "completed" \in Status
    BY DEF Status
  <2>3. TRUE \in BOOLEAN /\ FALSE \in BOOLEAN
    OBVIOUS
  <2>4. /\ Failed(t) \in Tickets /\ Failed(t).id = t.id
        /\ Completed(t) \in Tickets /\ Completed(t).id = t.id
    BY <1>2, <2>2, <2>3, Zenon DEF Failed, Completed
  <2>5. QED
    BY <2>1, <2>4
<1>4. CASE r \in ForeignResponses(t)
  <2>1. PICK st \in Status : r = Ticket(t.id, st, t.cmd, st = "completed")
    BY <1>4 DEF ForeignResponses
  <2>2. (st = "completed") \in BOOLEAN
    OBVIOUS
  <2>3. QED
    BY <1>2, <2>1, <2>2
<1>5. QED
  BY <1>3, <1>4

LEMMA ProcessTicketStep ==
  ASSUME Inv, ProcessTicket
  PROVE  Inv'
<1>1. TypeOK /\ handling # NoTicket /\ handling \in Tickets
  BY DEF Inv, TypeOK, ProcessTicket
<1>2. PICK r \in Responses(handling) \cup ForeignResponses(handling) :
        /\ answered' = answered \cup {r}
        /\ \E words \in SentWords(r) :
             /\ wire' = [wire EXCEPT !["controller"] = @ \o words]
             /\ faults' = IF words = Frame(r) THEN faults ELSE faults + 1
  BY Zenon DEF ProcessTicket
<1>3. PICK words \in SentWords(r) :
        /\ wire' = [wire EXCEPT !["controller"] = @ \o words]
        /\ faults' = IF words = Frame(r) THEN faults ELSE faults + 1
  BY <1>2
<1>4. handling' = NoTicket /\ UNCHANGED <<open, rx, call, counter, requests, returned>>
  BY DEF ProcessTicket
<1>5. r \in Tickets /\ r.id = handling.id /\ NoTicket \in Tickets
  BY <1>1, <1>2, ResponseType, WordTypes
<1> DEFINE c == wire["controller"]
<1>6. c \in Seq(Words) /\ words \in Seq(Words) /\ Genuine(words, {r}) /\ c \o words \in Seq(Words)
  BY <1>1, <1>5, SentType, Types, ConcatProperties
<1>7. /\ wire' \in [Side -> Seq(Words)] /\ wire'["controller"] = c \o words
      /\ wire'["worker"] = wire["worker"]
  BY <1>1, <1>3, <1>6, SetWire, Types
<1>8. faults' \in Nat /\ (faults' = 0 => faults = 0 /\ words = Frame(r))
  BY <1>1, <1>3, Types
<1>9. TypeOK'
  BY <1>1, <1>2, <1>4, <1>5, <1>7, <1>8 DEF TypeOK
<1>10. ToController'
  <2>1. /\ Genuine(c, answered') /\ Genuine(words, answered')
        /\ Genuine(rx["controller"].buf, answered')
    BY <1>2, <1>6 DEF Inv, ToController, Genuine
  <2>2. Genuine(c \o words, answered')
    BY <1>6, <2>1, GenuineConcat
  <2>3. QED
    BY <1>4, <1>7, <2>1, <2>2 DEF ToController
<1>11. NoForgedResponse'
  BY <1>2, <1>4 DEF Inv, NoForgedResponse
<1>12. ASSUME faults' = 0 PROVE Flight' /\ Matches'
  <2>1. faults = 0 /\ words = Frame(r) /\ Flight /\ Matches
    BY <1>8, <1>12 DEF Inv
  <2>2. call # NoCall
    BY <1>1, <2>1 DEF Flight
  <2>3. handling.id = call.id /\ handling.id # 0 /\ Silent("worker") /\ Silent("controller")
    BY <1>1, <2>1, <2>2 DEF Flight
  <2>4. Silent("worker")'
    BY <1>4, <1>7, <2>3 DEF Silent
  <2>5. Carries("controller", r)'
    <3>1. c = <<>> /\ rx["controller"].buf = <<>> /\ rx["controller"].read.stage # "body"
      BY <2>3 DEF Silent
    <3>2. wire'["controller"] = Frame(r)
      BY <1>5, <1>7, <2>1, <3>1, FrameType, ConcatEmptySeq
    <3>3. <<>> \o Frame(r) = Frame(r)
      BY <1>5, FrameType, ConcatEmptySeq
    <3>4. QED
      BY <1>4, <3>1, <3>2, <3>3 DEF Carries, Flow
  <2>6. QED
    BY <1>4, <1>5, <2>1, <2>2, <2>3, <2>4, <2>5 DEF Flight, Matches
<1>13. QED
  BY <1>9, <1>10, <1>11, <1>12 DEF Inv

-----------------------------------------------------------------------------
(* The theorems.                                                           *)

LEMMA InitInv == Init => Inv
<1> SUFFICES ASSUME Init PROVE Inv
  OBVIOUS
<1>1. NoTicket \in Tickets
  BY DEF NoTicket, Ticket, Tickets, Status
<1>2. <<>> \in Seq(Words) /\ Len(<<>>) = 0
  BY EmptySeq
<1>3. NoCall \in Calls /\ NoCall \in [api : Apis, id : Nat]
  BY DEF NoCall, Calls, Apis
<1>4. "none" \in Apis /\ FALSE \in BOOLEAN
  BY DEF Apis
<1>5. /\ rx \in [Side -> Sides] /\ rx["controller"].buf = <<>> /\ rx["worker"].buf = <<>>
      /\ rx["controller"].read = NoRead /\ rx["worker"].read = NoRead
      /\ wire["controller"] = <<>> /\ wire["worker"] = <<>>
  BY <1>2, NoReadType DEF Init, Sides, Side
<1>6. /\ returned \in [api : Apis, id : Nat, ok : BOOLEAN, response : Tickets]
      /\ returned.ok = FALSE
  BY <1>1, <1>4 DEF Init
<1>7. TypeOK
  BY <1>1, <1>2, <1>3, <1>5, <1>6 DEF Init, TypeOK, Sides, Reads
<1>8. ToController
  BY <1>2, <1>5 DEF ToController, Genuine
<1>9. NoForgedResponse /\ Matches
  BY <1>6 DEF NoForgedResponse, Matches
<1>10. Silent("controller") /\ Silent("worker")
  BY <1>5, NoReadType DEF Silent
<1>11. QED
  BY <1>7, <1>8, <1>9, <1>10 DEF Inv, Flight, Init

LEMMA InvStep ==
  ASSUME Inv, [Next]_vars
  PROVE  Inv'
<1>1. CASE UNCHANGED vars
  BY <1>1 DEF vars, Inv, TypeOK, ToController, NoForgedResponse, Flight, Silent, Carries,
              Flow, Matches
<1>2. CASE Next
  BY <1>2, ReceiveWordsStep, ReadPrefixStep, GoodbyeStep, SendStep, PollStep,
     ControllerReceivesStep, ControllerReadFailsStep, HandleNextStep, WorkerReceivesStep,
     WorkerReadFailsStep, ProcessTicketStep
  DEF Next
<1>3. QED
  BY <1>1, <1>2

\* The types, the origin of every body word and the one ticket in flight, as one
\* invariant of the two sides of TicketController, TicketPeer and TicketWorker.
THEOREM InvHolds == Spec => []Inv
<1>1. Init => Inv
  BY InitInv
<1>2. Inv /\ [Next]_vars => Inv'
  BY InvStep
<1>3. QED
  BY <1>1, <1>2, PTL DEF Spec

\* Every variable keeps its type; the controller reads exactly while a call is
\* outstanding and the worker does not read while it processes a ticket.
THEOREM TypeCorrect == Spec => []TypeOK
<1>1. Inv => TypeOK
  BY DEF Inv
<1>2. QED
  BY <1>1, InvHolds, PTL

\* Whatever fails and however often, a response that a successful call returns is
\* one the worker produced: neither the zero words a failed read leaves in the
\* buffer nor a part of a frame is ever taken for one.
THEOREM ResponsesAreReal == Spec => []NoForgedResponse
<1>1. Inv => NoForgedResponse
  BY DEF Inv
<1>2. QED
  BY <1>1, InvHolds, PTL

\* Until the first read or write that fails, a successful call returns the response
\* to its own ticket, although handshake() compares no ids.
THEOREM StaysInStep == Spec => []InStep
<1>1. Inv => InStep
  BY DEF Inv, InStep
<1>2. QED
  BY <1>1, InvHolds, PTL

-----------------------------------------------------------------------------
(* Counting frames.                                                        *)

Prefixes(words) == {i \in 1 .. Len(words) : words[i] = LengthWord}

\* The words of a flow, by position.
LEMMA FlowWords ==
  ASSUME NEW b \in Seq(Words), NEW c \in Seq(Words)
  PROVE  /\ Len(b) \in Nat /\ Len(c) \in Nat /\ Len(b \o c) = Len(b) + Len(c)
         /\ \A i \in 1 .. Len(b) : b[i] = (b \o c)[i]
         /\ \A i \in 1 .. Len(c) : c[i] = (b \o c)[Len(b) + i]
<1>1. Len(b) \in Nat /\ Len(c) \in Nat
  BY LenProperties
<1>2. /\ Len(b \o c) = Len(b) + Len(c)
      /\ \A i \in 1 .. Len(b) + Len(c) : (b \o c)[i] = IF i <= Len(b) THEN b[i]
                                                       ELSE c[i - Len(b)]
  BY ConcatProperties
<1>3. ASSUME NEW i \in 1 .. Len(b) PROVE b[i] = (b \o c)[i]
  BY <1>1, <1>2
<1>4. ASSUME NEW i \in 1 .. Len(c) PROVE c[i] = (b \o c)[Len(b) + i]
  <2>1. Len(b) + i \in 1 .. Len(b) + Len(c) /\ ~(Len(b) + i <= Len(b)) /\ Len(b) + i - Len(b) = i
    BY <1>1
  <2>2. QED
    BY <1>2, <2>1
<1>5. QED
  BY <1>1, <1>2, <1>3, <1>4

\* However its words are spread over the buffer and the wire, a frame that is on
\* its way counts once.
LEMMA OneFrameCounted ==
  ASSUME TypeOK, NEW s \in Side, NEW t \in Tickets, Carries(s, t)
  PROVE  FramesTo(s) = 1
<1> DEFINE b == rx[s].buf
           c == wire[s]
<1>1. b \in Seq(Words) /\ c \in Seq(Words)
  BY Types
<1>2. /\ Len(b) \in Nat /\ Len(c) \in Nat /\ Len(b \o c) = Len(b) + Len(c)
      /\ \A i \in 1 .. Len(b) : b[i] = (b \o c)[i]
      /\ \A i \in 1 .. Len(c) : c[i] = (b \o c)[Len(b) + i]
  BY <1>1, FlowWords
<1>3. FramesTo(s) = Cardinality(Prefixes(c)) + Cardinality(Prefixes(b))
                      + (IF rx[s].read.stage = "body" THEN 1 ELSE 0)
  BY DEF FramesTo, Prefixes
<1>4. BodyWords \in Nat /\ \A i \in 1 .. BodyWords : BodyWord(t, i) # LengthWord
  BY WordsAssumption, WordTypes
<1>5. Cardinality({}) = 0 /\ Cardinality({1}) = 1
  BY FS_EmptySet, FS_Singleton
<1>6. CASE rx[s].read.stage # "body" /\ b \o c = Frame(t)
  <2> DEFINE f == Frame(t)
  <2>1. /\ Len(f) = BodyWords + 1 /\ f[1] = LengthWord
        /\ \A i \in 1 .. BodyWords : f[i + 1] = BodyWord(t, i)
    BY FrameType
  <2>2. \A i \in 2 .. BodyWords + 1 : f[i] # LengthWord
    <3>1. ASSUME NEW i \in 2 .. BodyWords + 1 PROVE f[i] # LengthWord
      <4>1. i - 1 \in 1 .. BodyWords /\ (i - 1) + 1 = i
        BY <1>4
      <4>2. QED
        BY <1>4, <2>1, <4>1
    <3>2. QED
      BY <3>1
  <2>3. b \o c = f
    BY <1>6
  <2> HIDE DEF f, b, c
  <2>4. CASE Len(b) = 0
    <3>1. Prefixes(b) = {}
      BY <2>4 DEF Prefixes
    <3>2. Prefixes(c) = {1}
      BY <1>2, <1>4, <2>1, <2>2, <2>3, <2>4 DEF Prefixes
    <3>3. QED
      BY <1>3, <1>5, <1>6, <3>1, <3>2
  <2>5. CASE Len(b) >= 1
    <3>1. Prefixes(b) = {1}
      BY <1>2, <1>4, <2>1, <2>2, <2>3, <2>5 DEF Prefixes
    <3>2. Prefixes(c) = {}
      BY <1>2, <1>4, <2>1, <2>2, <2>3, <2>5 DEF Prefixes
    <3>3. QED
      BY <1>3, <1>5, <1>6, <3>1, <3>2
  <2>6. QED
    BY <1>2, <2>4, <2>5
<1>7. CASE rx[s].read = [stage |-> "body", n |-> BodyWords] /\ b \o c = Tail(Frame(t))
  <2> DEFINE f == Tail(Frame(t))
  <2>1. Len(f) = BodyWords /\ \A i \in 1 .. BodyWords : f[i] = BodyWord(t, i)
    BY BodyType
  <2>2. b \o c = f /\ rx[s].read.stage = "body"
    BY <1>7
  <2> HIDE DEF f, b, c
  <2>3. Prefixes(b) = {} /\ Prefixes(c) = {}
    BY <1>2, <1>4, <2>1, <2>2 DEF Prefixes
  <2>4. QED
    BY <1>3, <1>5, <2>2, <2>3
<1>8. QED
  BY <1>6, <1>7 DEF Carries, Flow

LEMMA NoFrameCounted ==
  ASSUME NEW s \in Side, Silent(s)
  PROVE  FramesTo(s) = 0
<1>1. Prefixes(<<>>) = {}
  BY EmptySeq DEF Prefixes
<1>2. FramesTo(s) = Cardinality(Prefixes(<<>>)) + Cardinality(Prefixes(<<>>)) + 0
  BY DEF Silent, FramesTo, Prefixes
<1>3. QED
  BY <1>1, <1>2, FS_EmptySet

\* While nothing has failed, a call has exactly one frame or ticket in flight and
\* no frame is in flight without a call: this is why TicketPeer may take the next
\* frame for the response.
THEOREM FlightIsOne == Spec => []OneTicketInFlight
<1>1. Inv => OneTicketInFlight
  <2> SUFFICES ASSUME Inv, faults = 0
               PROVE  FramesTo("controller") + FramesTo("worker")
                        + (IF handling # NoTicket THEN 1 ELSE 0)
                        = (IF call # NoCall THEN 1 ELSE 0)
    BY DEF OneTicketInFlight
  <2>1. TypeOK /\ Flight /\ "controller" \in Side /\ "worker" \in Side
    BY Types DEF Inv
  <2>2. CASE call = NoCall
    <3>1. FramesTo("controller") = 0 /\ FramesTo("worker") = 0 /\ handling = NoTicket
      BY <2>1, <2>2, NoFrameCounted DEF Flight
    <3>2. QED
      BY <2>2, <3>1
  <2>3. CASE call # NoCall
    <3>1. PICK t \in Tickets :
            /\ t.id # 0
            /\ \/ handling = NoTicket /\ Carries("worker", t) /\ Silent("controller")
               \/ handling = t /\ Silent("worker") /\ Silent("controller")
               \/ handling = NoTicket /\ Silent("worker") /\ Carries("controller", t)
      BY <2>1, <2>3 DEF Flight
    <3>2. t # NoTicket
      BY <3>1, WordTypes
    <3>3. \/ handling = NoTicket /\ FramesTo("worker") = 1 /\ FramesTo("controller") = 0
          \/ handling # NoTicket /\ FramesTo("worker") = 0 /\ FramesTo("controller") = 0
          \/ handling = NoTicket /\ FramesTo("worker") = 0 /\ FramesTo("controller") = 1
      BY <2>1, <3>1, <3>2, OneFrameCounted, NoFrameCounted
    <3>4. QED
      BY <2>3, <3>3
  <2>4. QED
    BY <2>2, <2>3
<1>2. QED
  BY <1>1, InvHolds, PTL

=============================================================================
