------------------------ MODULE BufferedSocket_proofs ------------------------
(***************************************************************************)
(* Proofs about BufferedSocket, for every set of bytes, buffer sizes and   *)
(* delimiters and for every bound.                                         *)
(***************************************************************************)
EXTENDS BufferedSocket, SequenceTheorems, FiniteSetTheorems, TLAPS

-----------------------------------------------------------------------------
(* Sequences.                                                              *)

\* move_data never moves more than the buffer holds, nor more than fits.
LEMMA MoveSizeRange ==
  ASSUME NEW buf \in Seq(Cell), NEW n \in Nat, NEW maxLen \in Nat
  PROVE  /\ MoveSize(buf, n, maxLen) \in 0..Len(buf)
         /\ MoveSize(buf, n, maxLen) <= n /\ MoveSize(buf, n, maxLen) <= maxLen
         /\ MoveSize(buf, n, maxLen) \in {maxLen, Len(buf), n}
<1> DEFINE S == {maxLen, Len(buf), n}
           a == IF maxLen <= Len(buf) THEN maxLen ELSE Len(buf)
           b == IF a <= n THEN a ELSE n
<1>1. Len(buf) \in Nat
  BY LenProperties
<1>2. b \in S /\ \A y \in S : b =< y
  BY <1>1
<1>3. Min(S) \in S /\ \A y \in S : Min(S) =< y
  BY <1>2 DEF Min
<1>4. QED
  BY <1>1, <1>3 DEF MoveSize

\* Cutting a sequence in two loses nothing.
LEMMA Cut ==
  ASSUME NEW S, NEW s \in Seq(S), NEW m \in 0..Len(s)
  PROVE  /\ SubSeq(s, 1, m) \in Seq(S)
         /\ SubSeq(s, m + 1, Len(s)) \in Seq(S)
         /\ Len(SubSeq(s, 1, m)) = m
         /\ SubSeq(s, 1, m) \o SubSeq(s, m + 1, Len(s)) = s
<1>1. Len(s) \in Nat /\ \A i \in 1..Len(s) : s[i] \in S
  BY LenProperties, ElementOfSeq
<1>2. SubSeq(s, 1, m) \in Seq(S) /\ Len(SubSeq(s, 1, m)) = m
  BY <1>1, SubSeqProperties
<1>3. SubSeq(s, m + 1, Len(s)) \in Seq(S)
  BY <1>1, SubSeqProperties
<1>4. SubSeq(s, 1, m) \o SubSeq(s, m + 1, Len(s)) = SubSeq(s, 1, Len(s))
  <2>1. 1 \in 1..Len(s) + 1 /\ m \in 1 - 1..Len(s) /\ Len(s) \in m..Len(s)
    BY <1>1
  <2>2. QED
    BY <2>1, ConcatAdjacentSubSeq, Zenon
<1>5. QED
  BY <1>2, <1>3, <1>4, SubSeqFull

LEMMA Assoc ==
  ASSUME NEW s \in Seq(Cell), NEW t \in Seq(Cell), NEW u \in Seq(Cell)
  PROVE  (s \o t) \o u = s \o (t \o u)
BY ConcatAssociative

\* The first part of a concatenation can be cut out again.
LEMMA ConcatPrefix ==
  ASSUME NEW s \in Seq(Cell), NEW t \in Seq(Cell)
  PROVE  SubSeq(s \o t, 1, Len(s)) = s
<1> DEFINE p == SubSeq(s \o t, 1, Len(s))
<1>1. Len(s) \in Nat /\ Len(t) \in Nat
  BY LenProperties
<1>2. /\ s \o t \in Seq(Cell)
      /\ Len(s \o t) = Len(s) + Len(t)
      /\ \A i \in 1..Len(s) : (s \o t)[i] = s[i]
  BY <1>1, ConcatProperties
<1>3. \A i \in 1..Len(s) : (s \o t)[i] \in Cell
  BY <1>2, ElementOfSeq
<1>4. /\ p \in Seq(Cell)
      /\ Len(p) = Len(s)
      /\ \A i \in 1..Len(s) : p[i] = (s \o t)[i]
  BY <1>1, <1>3, SubSeqProperties
<1>5. QED
  BY <1>2, <1>4, SeqEqual

\* prepare() keeps the bytes already buffered and appends n more.
LEMMA PrepareProperties ==
  ASSUME NEW buf \in Seq(Cell), NEW n \in Nat
  PROVE  /\ Prepare(buf, n) \in Seq(Cell)
         /\ Len(Prepare(buf, n)) = Len(buf) + n
         /\ SubSeq(Prepare(buf, n), 1, Len(buf)) = buf
         /\ \A i \in Len(buf) + 1..Len(buf) + n : Prepare(buf, n)[i] = Fill
<1> DEFINE z == [i \in 1..n |-> Fill]
<1>1. z \in Seq(Cell) /\ Len(z) = n
  BY DEF Cell
<1>2. buf \o z \in Seq(Cell) /\ Len(buf \o z) = Len(buf) + n
  BY <1>1, ConcatProperties
<1>3. SubSeq(buf \o z, 1, Len(buf)) = buf
  BY <1>1, ConcatPrefix
<1>4. \A i \in Len(buf) + 1..Len(buf) + n : (buf \o z)[i] = Fill
  <2>1. Len(buf) \in Nat /\ \A i \in 1..n : z[i] = Fill
    BY LenProperties
  <2>2. \A i \in 1..Len(buf) + n : (buf \o z)[i] = IF i <= Len(buf) THEN buf[i]
                                                   ELSE z[i - Len(buf)]
    BY <1>1, ConcatProperties
  <2> HIDE DEF z
  <2>3. ASSUME NEW i \in Len(buf) + 1..Len(buf) + n PROVE (buf \o z)[i] = Fill
    <3>1. /\ i \in 1..Len(buf) + n /\ ~(i <= Len(buf)) /\ i - Len(buf) \in 1..n
      BY <2>1
    <3>2. QED
      BY <2>1, <2>2, <3>1
  <2>4. QED
    BY <2>3
<1>5. QED
  BY <1>2, <1>3, <1>4 DEF Prepare

-----------------------------------------------------------------------------
(* Counting the peer's bytes and the padding of a stream.                  *)

\* The positions that Stream!Real counts, and those of the padding.
At(s, i) == {j \in 1..i : s[j] # Fill}
PadAt(s) == {j \in 1..Len(s) : s[j] = Fill}

LEMMA RealIsCount ==
  ASSUME NEW s, NEW i
  PROVE  Stream!Real(s, i) = Cardinality(At(s, i)) /\ Stream!Padding(s) = Cardinality(PadAt(s))
<1>1. \A S : Stream!Cardinality(S) = Cardinality(S)
  BY Zenon DEF Stream!Cardinality, Cardinality, Stream!IsFiniteSet, IsFiniteSet
<1>2. QED
  BY <1>1, Zenon DEF Stream!Real, Stream!Padding, At, PadAt

LEMMA RealType ==
  ASSUME NEW s, NEW i \in Nat
  PROVE  /\ IsFiniteSet(At(s, i)) /\ Stream!Real(s, i) \in Nat /\ Stream!Real(s, i) <= i
<1>1. IsFiniteSet(1..i) /\ Cardinality(1..i) = i
  BY FS_Interval
<1>2. At(s, i) \in SUBSET (1..i)
  BY DEF At
<1>3. QED
  BY <1>1, <1>2, FS_Subset, FS_CardinalityType, RealIsCount

LEMMA PaddingType ==
  ASSUME NEW s \in Seq(Cell)
  PROVE  IsFiniteSet(PadAt(s)) /\ Stream!Padding(s) \in Nat
<1>1. IsFiniteSet(1..Len(s))
  BY LenProperties, FS_Interval
<1>2. PadAt(s) \in SUBSET (1..Len(s))
  BY DEF PadAt
<1>3. QED
  BY <1>1, <1>2, FS_Subset, FS_CardinalityType, RealIsCount

\* What follows does not change the count in front of it.
LEMMA RealBefore ==
  ASSUME NEW s \in Seq(Cell), NEW t \in Seq(Cell), NEW i \in 0..Len(s)
  PROVE  Stream!Real(s \o t, i) = Stream!Real(s, i)
<1>1. Len(s) \in Nat /\ Len(t) \in Nat
  BY LenProperties
<1>2. \A j \in 1..Len(s) : (s \o t)[j] = s[j]
  BY <1>1, ConcatProperties
<1>3. At(s \o t, i) = At(s, i)
  BY <1>1, <1>2 DEF At
<1>4. QED
  BY <1>3, RealIsCount

\* The set of the positions behind Len(s) that are counted.
LEMMA CardinalityBehind ==
  ASSUME NEW S, IsFiniteSet(S), NEW m \in Nat, NEW k \in Nat, \A j \in S : j <= m,
         S \subseteq Nat
  PROVE  /\ IsFiniteSet(S \cup (m + 1..m + k))
         /\ Cardinality(S \cup (m + 1..m + k)) = Cardinality(S) + k
<1> DEFINE T == m + 1..m + k
<1>1. IsFiniteSet(T) /\ Cardinality(T) = k
  BY FS_Interval
<1>2. S \cap T = {}
  OBVIOUS
<1>3. Cardinality(S) \in Nat
  BY FS_CardinalityType
<1> HIDE DEF T
<1>4. IsFiniteSet(S \cup T) /\ Cardinality(S \cup T) = Cardinality(S) + Cardinality(T) - Cardinality(S \cap T)
  BY <1>1, FS_Union
<1>5. Cardinality(S \cap T) = 0
  BY <1>2, FS_EmptySet
<1>6. QED
  BY <1>1, <1>3, <1>4, <1>5 DEF T

\* The peer's bytes behind s are all counted, and none of them is padding.
LEMMA RealBehind ==
  ASSUME NEW s \in Seq(Cell), NEW t \in Seq(Byte)
  PROVE  /\ \A m \in 0..Len(t) : Stream!Real(s \o t, Len(s) + m) = Stream!Real(s, Len(s)) + m
         /\ Stream!Padding(s \o t) = Stream!Padding(s)
<1>1. Len(s) \in Nat /\ Len(t) \in Nat /\ t \in Seq(Cell)
  BY LenProperties, SeqMonotonic DEF Cell
<1>2. /\ Len(s \o t) = Len(s) + Len(t)
      /\ \A j \in 1..Len(s) + Len(t) : (s \o t)[j] = IF j <= Len(s) THEN s[j] ELSE t[j - Len(s)]
  BY <1>1, ConcatProperties
<1>3. \A j \in 1..Len(t) : t[j] # Fill
  BY ByteAssumption, ElementOfSeq
<1>4. \A j \in Len(s) + 1..Len(s) + Len(t) : (s \o t)[j] # Fill
  <2>1. ASSUME NEW j \in Len(s) + 1..Len(s) + Len(t) PROVE (s \o t)[j] # Fill
    <3>1. j \in 1..Len(s) + Len(t) /\ ~(j <= Len(s)) /\ j - Len(s) \in 1..Len(t)
      BY <1>1
    <3>2. QED
      BY <1>2, <1>3, <3>1
  <2>2. QED
    BY <2>1
<1>5. \A j \in 1..Len(s) : (s \o t)[j] = s[j]
  BY <1>1, <1>2
<1>6. ASSUME NEW m \in 0..Len(t)
      PROVE  Stream!Real(s \o t, Len(s) + m) = Stream!Real(s, Len(s)) + m
  <2>1. At(s \o t, Len(s) + m) = At(s, Len(s)) \cup (Len(s) + 1..Len(s) + m)
    BY <1>1, <1>4, <1>5 DEF At
  <2>2. IsFiniteSet(At(s, Len(s)))
    BY <1>1, RealType
  <2>3. At(s, Len(s)) \subseteq Nat /\ \A j \in At(s, Len(s)) : j <= Len(s)
    BY <1>1 DEF At
  <2>4. m \in Nat
    BY <1>1
  <2>5. Cardinality(At(s, Len(s)) \cup (Len(s) + 1..Len(s) + m)) = Cardinality(At(s, Len(s))) + m
    BY <1>1, <2>2, <2>3, <2>4, CardinalityBehind
  <2>6. QED
    BY <2>1, <2>5, RealIsCount
<1>7. PadAt(s \o t) = PadAt(s)
  BY <1>1, <1>2, <1>4, <1>5 DEF PadAt
<1>8. QED
  BY <1>6, <1>7, RealIsCount

\* Padding behind s is all padding.
LEMMA PaddingBehind ==
  ASSUME NEW s \in Seq(Cell), NEW z \in Seq(Cell), \A i \in 1..Len(z) : z[i] = Fill
  PROVE  /\ \A i \in Len(s)..Len(s) + Len(z) :
              Stream!Real(s \o z, i) = Stream!Real(s, Len(s))
         /\ \A i \in Len(s) + 1..Len(s) + Len(z) : (s \o z)[i] = Fill
         /\ Stream!Padding(s \o z) = Stream!Padding(s) + Len(z)
<1>1. Len(s) \in Nat /\ Len(z) \in Nat
  BY LenProperties
<1>2. /\ Len(s \o z) = Len(s) + Len(z)
      /\ \A j \in 1..Len(s) + Len(z) : (s \o z)[j] = IF j <= Len(s) THEN s[j] ELSE z[j - Len(s)]
  BY ConcatProperties
<1>3. \A j \in Len(s) + 1..Len(s) + Len(z) : (s \o z)[j] = Fill
  <2>1. ASSUME NEW j \in Len(s) + 1..Len(s) + Len(z) PROVE (s \o z)[j] = Fill
    <3>1. j \in 1..Len(s) + Len(z) /\ ~(j <= Len(s)) /\ j - Len(s) \in 1..Len(z)
      BY <1>1
    <3>2. QED
      BY <1>2, <3>1
  <2>2. QED
    BY <2>1
<1>4. \A j \in 1..Len(s) : (s \o z)[j] = s[j]
  BY <1>1, <1>2
<1>5. \A i \in Len(s)..Len(s) + Len(z) : At(s \o z, i) = At(s, Len(s))
  BY <1>1, <1>3, <1>4 DEF At
<1>6. PadAt(s \o z) = PadAt(s) \cup (Len(s) + 1..Len(s) + Len(z))
  BY <1>1, <1>2, <1>3, <1>4 DEF PadAt
<1>7. IsFiniteSet(PadAt(s))
  BY PaddingType
<1>8. PadAt(s) \subseteq Nat /\ \A j \in PadAt(s) : j <= Len(s)
  BY <1>1 DEF PadAt
<1>9. Cardinality(PadAt(s) \cup (Len(s) + 1..Len(s) + Len(z))) = Cardinality(PadAt(s)) + Len(z)
  BY <1>1, <1>7, <1>8, CardinalityBehind
<1>10. Stream!Padding(s \o z) = Stream!Padding(s) + Len(z)
  BY <1>6, <1>9, RealIsCount
<1>11. \A i \in Len(s)..Len(s) + Len(z) : Stream!Real(s \o z, i) = Stream!Real(s, Len(s))
  BY <1>5, RealIsCount
<1>12. QED
  BY <1>3, <1>10, <1>11

-----------------------------------------------------------------------------
(* The pieces of the read coroutines: each keeps the types, and each keeps *)
(* delivered \o Committed, the part of the stream the socket has taken.    *)

Taken == delivered \o Committed

ReadFrame == UNCHANGED <<open, wire, peer, sent>>

\* What a read has prepared and not received is still filling.
Prepared ==
  Pending => \A i \in op.base + op.got + 1..Len(readBuffer) : readBuffer[i] = Fill

\* Nothing that was delivered is taken back.
Grows == \E out \in Seq(Cell) : delivered' = delivered \o out

LEMMA NothingDelivered ==
  ASSUME TypeOK, UNCHANGED delivered
  PROVE  Grows
<1>1. delivered \in Seq(Cell) /\ <<>> \in Seq(Cell)
  BY EmptySeq DEF TypeOK
<1>2. delivered = delivered \o <<>>
  BY <1>1, ConcatEmptySeq
<1>3. QED
  BY <1>1, <1>2 DEF Grows

\* Suspending a read leaves the bytes already buffered committed.
LEMMA AwaitStep ==
  ASSUME TypeOK, NEW kind \in Kinds, NEW n \in Nat, NEW d \in Seq(Byte),
         NEW buf \in Seq(Cell), Await(kind, n, d, buf), ReadFrame
  PROVE  TypeOK' /\ Taken' = delivered \o buf /\ Prepared' /\ Grows
<1>1. /\ readBuffer' \in Seq(Cell)
      /\ Len(readBuffer') = Len(buf) + n
      /\ SubSeq(readBuffer', 1, Len(buf)) = buf
      /\ \A i \in Len(buf) + 1..Len(buf) + n : readBuffer'[i] = Fill
  BY PrepareProperties DEF Await
<1>2. Len(buf) \in Nat
  BY LenProperties
<1>3. /\ op' \in [kind : Kinds, size : Nat, delim : Seq(Byte), base : Nat,
                  st : {"starting", "waiting", "done"}, got : Nat,
                  ec : Errors \cup {"ok"}, timer : {"armed", "spent"}]
      /\ op'.base = Len(buf) /\ op'.size = n /\ op'.got = 0 /\ op'.kind = kind
  BY <1>2 DEF Await, Errors
<1>4. TypeOK'
  BY <1>1, <1>2, <1>3 DEF TypeOK, Await, ReadFrame
<1>5. Committed' = buf
  <2>1. kind # "none"
    BY DEF Kinds
  <2>2. QED
    BY <1>1, <1>2, <1>3, <2>1 DEF Committed, Pending
<1>6. Prepared'
  BY <1>1, <1>2, <1>3 DEF Prepared
<1>7. QED
  BY <1>4, <1>5, <1>6, NothingDelivered DEF Taken, Await

\* Returning an error leaves the given bytes in the buffer.
LEMMA FailStep ==
  ASSUME TypeOK, NEW kind \in Kinds, NEW n \in Nat, NEW d \in Seq(Byte),
         NEW buf \in Seq(Cell), NEW ec \in Errors,
         Fail(kind, n, d, buf, ec), phantom' \in Nat, ReadFrame
  PROVE  TypeOK' /\ Taken' = delivered \o buf /\ Prepared' /\ Grows
<1>1. TypeOK'
  BY DEF TypeOK, Fail, ReadFrame, Idle
<1>2. Committed' = buf
  <2>1. Committed' = SubSeq(buf, 1, Len(buf))
    BY DEF Committed, Pending, Fail, Idle
  <2>2. QED
    BY <2>1, SubSeqFull
<1>3. Prepared'
  BY DEF Prepared, Pending, Fail, Idle
<1>4. QED
  BY <1>1, <1>2, <1>3, NothingDelivered DEF Taken, Fail

\* Returning bytes moves them from the buffer to what was delivered.
LEMMA MoveDataStep ==
  ASSUME TypeOK, NEW kind \in Kinds, NEW n \in Nat, NEW d \in Seq(Byte),
         NEW buf \in Seq(Cell), NEW maxLen \in Nat,
         MoveData(kind, n, d, buf, maxLen), ReadFrame
  PROVE  TypeOK' /\ Taken' = delivered \o buf /\ Prepared' /\ Grows
<1> DEFINE m == MoveSize(buf, n, maxLen)
           out == SubSeq(buf, 1, m)
           rest == SubSeq(buf, m + 1, Len(buf))
<1>1. m \in 0..Len(buf)
  BY MoveSizeRange
<1>2. out \in Seq(Cell) /\ rest \in Seq(Cell) /\ out \o rest = buf
  BY <1>1, Cut
<1>3. /\ readBuffer' = rest /\ op' = Idle /\ delivered' = delivered \o out
      /\ phantom' = phantom
      /\ last' = [kind |-> kind, size |-> n, delim |-> d, ec |-> "ok", out |-> out]
  BY DEF MoveData, Erase
<1> HIDE DEF m, out, rest
<1>4. delivered \in Seq(Cell)
  BY DEF TypeOK
<1>5. delivered' \in Seq(Cell)
  BY <1>2, <1>3, <1>4, ConcatProperties
<1>6. TypeOK'
  BY <1>2, <1>3, <1>5 DEF TypeOK, ReadFrame, Idle
<1>7. Committed' = rest
  BY <1>2, <1>3, SubSeqFull DEF Committed, Pending, Idle
<1>8. (delivered \o out) \o rest = delivered \o (out \o rest)
  BY <1>2, <1>4, Assoc
<1>9. Prepared'
  BY <1>3 DEF Prepared, Pending, Idle
<1>10. Grows
  BY <1>2, <1>3 DEF Grows
<1>11. QED
  BY <1>2, <1>3, <1>6, <1>7, <1>8, <1>9, <1>10 DEF Taken

\* The loop of readExact, entered with buf, leaves the stream as it was.
LEMMA ReadExactLoopStep ==
  ASSUME TypeOK, NEW n \in Nat, NEW buf \in Seq(Cell),
         ReadExactLoop(n, buf), ReadFrame
  PROVE  TypeOK' /\ Taken' = delivered \o buf /\ Prepared' /\ Grows /\ phantom' = phantom
<1>1. "exact" \in Kinds /\ <<>> \in Seq(Byte) /\ Len(buf) \in Nat
  BY LenProperties, EmptySeq DEF Kinds
<1>2. CASE Await("exact", n, <<>>, buf)
  BY <1>1, <1>2, AwaitStep DEF Await
<1>3. CASE MoveData("exact", n, <<>>, buf, Len(buf))
  BY <1>1, <1>3, MoveDataStep DEF MoveData
<1>4. QED
  BY <1>2, <1>3 DEF ReadExactLoop

\* So does the loop of readUntil.
LEMMA ReadUntilLoopStep ==
  ASSUME TypeOK, NEW n \in Nat, NEW d \in Seq(Byte), NEW buf \in Seq(Cell),
         ReadUntilLoop(n, d, buf), ReadFrame
  PROVE  TypeOK' /\ Taken' = delivered \o buf /\ Prepared' /\ Grows /\ phantom' = phantom
<1>1. "until" \in Kinds /\ Len(buf) \in Nat /\ Len(d) \in Nat
  BY LenProperties DEF Kinds
<1>2. ASSUME Await("until", n, d, buf)
      PROVE  TypeOK' /\ Taken' = delivered \o buf /\ Prepared' /\ Grows /\ phantom' = phantom
  BY <1>1, <1>2, AwaitStep DEF Await
<1>3. ASSUME Fail("until", n, d, buf, "protocol_error"), phantom' = phantom
      PROVE  TypeOK' /\ Taken' = delivered \o buf /\ Prepared' /\ Grows /\ phantom' = phantom
  <2>1. "protocol_error" \in Errors /\ phantom' \in Nat
    BY <1>3 DEF Errors, TypeOK
  <2>2. QED
    BY <1>1, <1>3, <2>1, FailStep
<1>4. ASSUME NEW i \in Occurrences(d, buf), MoveData("until", n, d, buf, UntilLen(i) + 1)
      PROVE  TypeOK' /\ Taken' = delivered \o buf /\ Prepared' /\ Grows /\ phantom' = phantom
  <2>1. UntilLen(i) + 1 \in Nat
    BY <1>1 DEF Occurrences, UntilLen
  <2>2. QED
    BY <1>1, <1>4, <2>1, MoveDataStep DEF MoveData
<1>5. QED
  BY <1>2, <1>3, <1>4 DEF ReadUntilLoop

-----------------------------------------------------------------------------
(* The actions.                                                            *)

\* With no read outstanding the whole buffer is committed.
LEMMA TakenWhenIdle ==
  ASSUME TypeOK, ~Pending
  PROVE  Taken = delivered \o readBuffer
<1>1. readBuffer \in Seq(Cell)
  BY DEF TypeOK
<1>2. QED
  BY <1>1, SubSeqFull DEF Taken, Committed

\* Starting a read.
LEMMA StartStep ==
  ASSUME TypeOK, Start
  PROVE  /\ TypeOK' /\ Taken' = Taken /\ Prepared' /\ Grows
         /\ phantom' = phantom /\ wire' = wire /\ sent' = sent
<1>1. ReadFrame /\ ~Pending
  BY DEF Start, ReadFrame
<1>2. Taken = delivered \o readBuffer
  BY <1>1, TakenWhenIdle
<1>3. /\ readBuffer \in Seq(Cell) /\ <<>> \in Seq(Byte) /\ Len(readBuffer) \in Nat
      /\ "some" \in Kinds /\ "exact" \in Kinds /\ "until" \in Kinds
      /\ "not_connected" \in Errors
  BY LenProperties, EmptySeq DEF TypeOK, Kinds, Errors
<1>4. ASSUME NEW kind \in Kinds, NEW n \in Nat, NEW d \in Seq(Byte),
             NotConnected(kind, n, d)
      PROVE  TypeOK' /\ Taken' = Taken /\ Prepared' /\ Grows /\ phantom' = phantom
  <2>1. Fail(kind, n, d, readBuffer, "not_connected") /\ phantom' = phantom
    BY <1>4 DEF NotConnected
  <2>2. phantom' \in Nat
    BY <2>1 DEF TypeOK
  <2>3. QED
    BY <1>1, <1>2, <1>3, <2>1, <2>2, FailStep
<1>5. ASSUME NEW n \in OutSizes, StartReadSome(n)
      PROVE  TypeOK' /\ Taken' = Taken /\ Prepared' /\ Grows /\ phantom' = phantom
  <2>1. n \in Nat
    BY OutSizesAssumption
  <2>2. CASE NotConnected("some", n, <<>>)
    BY <1>3, <1>4, <2>1, <2>2
  <2>3. CASE MoveData("some", n, <<>>, readBuffer, Len(readBuffer))
    BY <1>1, <1>2, <1>3, <2>1, <2>3, MoveDataStep DEF MoveData
  <2>4. CASE Await("some", n, <<>>, readBuffer)
    BY <1>1, <1>2, <1>3, <2>1, <2>4, AwaitStep DEF Await
  <2>5. QED
    BY <1>5, <2>2, <2>3, <2>4 DEF StartReadSome
<1>6. ASSUME NEW n \in OutSizes, StartReadExact(n)
      PROVE  TypeOK' /\ Taken' = Taken /\ Prepared' /\ Grows /\ phantom' = phantom
  <2>1. n \in Nat
    BY OutSizesAssumption
  <2>2. CASE NotConnected("exact", n, <<>>)
    BY <1>3, <1>4, <2>1, <2>2
  <2>3. CASE ReadExactLoop(n, readBuffer)
    BY <1>1, <1>2, <1>3, <2>1, <2>3, ReadExactLoopStep
  <2>4. QED
    BY <1>6, <2>2, <2>3 DEF StartReadExact
<1>7. ASSUME NEW n \in OutSizes, NEW d \in Delims, StartReadUntil(n, d)
      PROVE  TypeOK' /\ Taken' = Taken /\ Prepared' /\ Grows /\ phantom' = phantom
  <2>1. n \in Nat /\ d \in Seq(Byte)
    BY OutSizesAssumption, DelimsAssumption
  <2>2. CASE NotConnected("until", n, d)
    BY <1>3, <1>4, <2>1, <2>2
  <2>3. CASE ReadUntilLoop(n, d, readBuffer)
    BY <1>1, <1>2, <1>3, <2>1, <2>3, ReadUntilLoopStep
  <2>4. QED
    BY <1>7, <2>2, <2>3 DEF StartReadUntil
<1>8. QED
  BY <1>5, <1>6, <1>7 DEF Start


\* An outstanding read has taken the bytes in front of base + got.
LEMMA TakenWhenPending ==
  ASSUME TypeOK, Pending
  PROVE  /\ op.base + op.got \in 0..Len(readBuffer)
         /\ Taken = delivered \o SubSeq(readBuffer, 1, op.base + op.got)
         /\ SubSeq(readBuffer, 1, op.base + op.got) \in Seq(Cell)
<1>1. op # Idle
  BY DEF Pending, Idle
<1>2. /\ op.base \in Nat /\ op.got \in Nat /\ op.size \in Nat
      /\ Len(readBuffer) = op.base + op.size /\ op.got <= op.size
  BY <1>1 DEF TypeOK
<1>3. readBuffer \in Seq(Cell)
  BY DEF TypeOK
<1>4. op.base + op.got \in 0..Len(readBuffer)
  BY <1>2
<1>5. SubSeq(readBuffer, 1, op.base + op.got) \in Seq(Cell)
  BY <1>3, <1>4, Cut
<1>6. QED
  BY <1>4, <1>5 DEF Taken, Committed

\* Resuming a read.  A read that fails gives its whole prepared area to the
\* stream as padding, and phantom counts it.
Pads ==
  /\ UNCHANGED delivered
  /\ \E z \in Seq(Cell) : /\ \A i \in 1..Len(z) : z[i] = Fill
                          /\ Taken' = Taken \o z /\ phantom' = phantom + Len(z)

LEMMA ResumeStep ==
  ASSUME TypeOK, Prepared, Resume
  PROVE  /\ TypeOK' /\ Prepared' /\ wire' = wire /\ sent' = sent
         /\ (Grows /\ Taken' = Taken /\ phantom' = phantom) \/ Pads
<1> DEFINE buf == SubSeq(readBuffer, 1, op.base + op.got)
<1>1. ReadFrame /\ op.st = "done" /\ op # Idle
  BY DEF Resume, ReadFrame, Idle
<1>2. /\ op.kind \in Kinds /\ op.size \in Nat /\ op.delim \in Seq(Byte)
      /\ op.base \in Nat /\ op.got \in Nat /\ op.ec \in Errors \cup {"ok"}
      /\ Len(readBuffer) = op.base + op.size /\ op.got <= op.size
      /\ readBuffer \in Seq(Cell) /\ phantom \in Nat
  BY <1>1 DEF TypeOK
<1>3. Pending
  BY <1>2 DEF Pending, Kinds
<1>4. Taken = delivered \o buf /\ buf \in Seq(Cell)
  BY <1>3, TakenWhenPending
<1>5. CASE ReadFailed
  <2> DEFINE ec == IF op.ec # "ok" THEN op.ec ELSE "eof"
  <2>1. Fail(op.kind, op.size, op.delim, readBuffer, ec) /\ phantom' = phantom + op.size
    BY <1>5 DEF Resume
  <2>2. ec \in Errors /\ phantom' \in Nat
    BY <1>2, <2>1 DEF Errors
  <2>3. TypeOK' /\ Taken' = delivered \o readBuffer /\ Prepared'
    <3> HIDE DEF ec
    <3>1. QED
      BY <1>1, <1>2, <2>1, <2>2, FailStep
  <2> DEFINE z == SubSeq(readBuffer, op.base + 1, Len(readBuffer))
  <2>4. op.got = 0
    BY <1>1, <1>5 DEF TypeOK, ReadFailed
  <2>5. op.base \in 0..Len(readBuffer)
    BY <1>2
  <2>6. z \in Seq(Cell) /\ buf \o z = readBuffer
    <3>1. buf = SubSeq(readBuffer, 1, op.base)
      BY <1>2, <2>4
    <3> HIDE DEF buf
    <3>2. QED
      BY <1>2, <2>5, <3>1, Cut
  <2>7. Len(z) = op.size /\ \A i \in 1..Len(z) : z[i] = Fill
    <3>1. \A i \in op.base + 1..Len(readBuffer) : readBuffer[i] = Fill
      BY <1>2, <1>3, <2>4 DEF Prepared
    <3>2. \A i \in op.base + 1..Len(readBuffer) : readBuffer[i] \in Cell
      BY <3>1 DEF Cell
    <3>3. op.base + 1 \in Int /\ Len(readBuffer) \in Int
      BY <1>2
    <3>4. /\ Len(z) = IF op.base + 1 <= Len(readBuffer)
                      THEN Len(readBuffer) - (op.base + 1) + 1 ELSE 0
          /\ \A i \in 1..Len(readBuffer) - (op.base + 1) + 1 :
               z[i] = readBuffer[op.base + 1 + i - 1]
      BY <3>2, <3>3, SubSeqProperties
    <3> HIDE DEF z
    <3>5. Len(z) = op.size
      BY <1>2, <3>4
    <3>6. ASSUME NEW i \in 1..Len(z) PROVE z[i] = Fill
      <4>1. /\ i \in 1..Len(readBuffer) - (op.base + 1) + 1
            /\ op.base + 1 + i - 1 \in op.base + 1..Len(readBuffer)
        BY <1>2, <3>5
      <4>2. QED
        BY <3>1, <3>4, <4>1
    <3>7. QED
      BY <3>5, <3>6
  <2>8. Taken' = Taken \o z
    <3> HIDE DEF buf, z
    <3>1. delivered \in Seq(Cell)
      BY DEF TypeOK
    <3>2. QED
      BY <1>4, <2>3, <2>6, <3>1, Assoc
  <2> HIDE DEF z
  <2>9. Pads
    BY <2>1, <2>6, <2>7, <2>8 DEF Pads, Fail
  <2>10. QED
    BY <1>1, <2>3, <2>9 DEF ReadFrame
<1>6. CASE ~ReadFailed
  <2> HIDE DEF buf
  <2>1. \/ op.kind = "some" /\ MoveData("some", op.size, <<>>, buf, Len(buf))
        \/ ReadExactLoop(op.size, buf)
        \/ ReadUntilLoop(op.size, op.delim, buf)
    BY <1>6 DEF Resume, Commit, buf
  <2>2. <<>> \in Seq(Byte) /\ Len(buf) \in Nat
    BY <1>4, LenProperties, EmptySeq
  <2>3. CASE op.kind = "some" /\ MoveData("some", op.size, <<>>, buf, Len(buf))
    BY <1>1, <1>2, <1>4, <2>2, <2>3, MoveDataStep DEF MoveData, ReadFrame
  <2>4. CASE ReadExactLoop(op.size, buf)
    BY <1>1, <1>2, <1>4, <2>4, ReadExactLoopStep DEF ReadFrame
  <2>5. CASE ReadUntilLoop(op.size, op.delim, buf)
    BY <1>1, <1>2, <1>4, <2>5, ReadUntilLoopStep DEF ReadFrame
  <2>6. QED
    BY <2>1, <2>3, <2>4, <2>5
<1>7. QED
  BY <1>5, <1>6

\* A completion that carries no bytes changes neither the buffer nor the wire.
LEMMA CompleteWithStep ==
  ASSUME TypeOK, NEW ec \in Errors, CompleteWith(ec), open' \in BOOLEAN
  PROVE  /\ TypeOK' /\ Taken' = Taken /\ (Prepared => Prepared')
         /\ UNCHANGED <<wire, sent, delivered, phantom>>
<1>1. op # Idle /\ op.st = "waiting"
  BY DEF CompleteWith, Waiting, Idle
<1>2. /\ op \in [kind : Kinds, size : Nat, delim : Seq(Byte), base : Nat,
                 st : {"starting", "waiting", "done"}, got : Nat,
                 ec : Errors \cup {"ok"}, timer : {"armed", "spent"}]
      /\ Len(readBuffer) = op.base + op.size /\ op.got = 0
  BY <1>1 DEF TypeOK
<1>3. /\ op' \in [kind : Kinds, size : Nat, delim : Seq(Byte), base : Nat,
                  st : {"starting", "waiting", "done"}, got : Nat,
                  ec : Errors \cup {"ok"}, timer : {"armed", "spent"}]
      /\ op'.base = op.base /\ op'.size = op.size /\ op'.got = op.got
      /\ op'.kind = op.kind
  BY <1>2 DEF CompleteWith
<1>4. TypeOK'
  BY <1>2, <1>3 DEF TypeOK, CompleteWith
<1>5. Committed' = Committed
  BY <1>3 DEF Committed, Pending, CompleteWith
<1>6. Prepared => Prepared'
  BY <1>3 DEF Prepared, Pending, CompleteWith
<1>7. QED
  BY <1>4, <1>5, <1>6 DEF Taken, CompleteWith

\* Starting the wait and losing its timer change nothing the application sees.
LEMMA StartingStep ==
  ASSUME TypeOK, Initiate \/ TimerLost
  PROVE  /\ TypeOK' /\ Taken' = Taken /\ (Prepared => Prepared')
         /\ UNCHANGED <<wire, sent, delivered, phantom, last>>
<1>1. op # Idle /\ op.st # "done"
  BY DEF Initiate, TimerLost, Waiting, Idle
<1>2. /\ op \in [kind : Kinds, size : Nat, delim : Seq(Byte), base : Nat,
                 st : {"starting", "waiting", "done"}, got : Nat,
                 ec : Errors \cup {"ok"}, timer : {"armed", "spent"}]
      /\ Len(readBuffer) = op.base + op.size /\ op.got = 0 /\ op.ec = "ok"
  BY <1>1 DEF TypeOK
<1>3. UNCHANGED <<open, readBuffer, wire, peer, last, sent, delivered, phantom>>
  BY DEF Initiate, TimerLost
<1>4. \/ op' = [op EXCEPT !.st = "waiting"]
      \/ op' = [op EXCEPT !.st = "done", !.ec = "bad_descriptor"]
      \/ op' = [op EXCEPT !.timer = "spent"]
  BY DEF Initiate, TimerLost
<1>5. /\ op' \in [kind : Kinds, size : Nat, delim : Seq(Byte), base : Nat,
                  st : {"starting", "waiting", "done"}, got : Nat,
                  ec : Errors \cup {"ok"}, timer : {"armed", "spent"}]
      /\ op'.base = op.base /\ op'.size = op.size /\ op'.got = 0
      /\ op'.kind = op.kind /\ (op'.st # "done" => op'.ec = "ok")
  BY <1>1, <1>2, <1>4 DEF Errors
<1>6. TypeOK'
  BY <1>2, <1>3, <1>5 DEF TypeOK
<1>7. Committed' = Committed
  BY <1>2, <1>3, <1>5 DEF Committed, Pending
<1>8. Prepared => Prepared'
  BY <1>2, <1>3, <1>5 DEF Prepared, Pending
<1>9. QED
  BY <1>3, <1>6, <1>7, <1>8 DEF Taken

\* async_read_some moves bytes from the wire into the prepared area; the bytes
\* taken and the bytes in flight are together what they were.
LEMMA KernelReadStep ==
  ASSUME TypeOK, NEW k \in Nat, KernelRead(k)
  PROVE  /\ TypeOK' /\ (Prepared => Prepared') /\ UNCHANGED <<sent, delivered, phantom>>
         /\ \E new \in Seq(Byte) : wire = new \o wire' /\ Taken' = Taken \o new
         /\ Taken' \o wire' = Taken \o wire
<1> DEFINE head == SubSeq(readBuffer, 1, op.base)
           new == SubSeq(wire, 1, k)
           rest == SubSeq(readBuffer, op.base + k + 1, Len(readBuffer))
           left == SubSeq(wire, k + 1, Len(wire))
<1>1. op # Idle /\ op.st = "waiting"
  BY DEF KernelRead, Waiting, Idle
<1>2. /\ op \in [kind : Kinds, size : Nat, delim : Seq(Byte), base : Nat,
                 st : {"starting", "waiting", "done"}, got : Nat,
                 ec : Errors \cup {"ok"}, timer : {"armed", "spent"}]
      /\ Len(readBuffer) = op.base + op.size /\ op.got = 0
      /\ readBuffer \in Seq(Cell) /\ wire \in Seq(Byte) /\ delivered \in Seq(Cell)
  BY <1>1 DEF TypeOK
<1>3. k <= op.size /\ k \in 0..Len(wire)
  BY <1>2, LenProperties DEF KernelRead
<1>4. new \in Seq(Byte) /\ left \in Seq(Byte) /\ Len(new) = k /\ new \o left = wire
  BY <1>2, <1>3, Cut, ZenonT(60)
<1>5. new \in Seq(Cell) /\ left \in Seq(Cell)
  BY <1>4, SeqMonotonic DEF Cell
<1>6. head \in Seq(Cell) /\ Len(head) = op.base
  <2>1. op.base \in 0..Len(readBuffer)
    BY <1>2
  <2>2. QED
    BY <1>2, <2>1, Cut
<1>7. rest \in Seq(Cell) /\ Len(rest) = op.size - k
  <2>1. \A i \in 1..Len(readBuffer) : readBuffer[i] \in Cell
    BY <1>2, ElementOfSeq
  <2>2. \A i \in op.base + k + 1..Len(readBuffer) : readBuffer[i] \in Cell
    BY <1>2, <2>1
  <2>3. QED
    BY <1>2, <1>3, <2>2, SubSeqProperties
<1>8. /\ readBuffer' = (head \o new) \o rest /\ wire' = left
      /\ op' = [op EXCEPT !.st = "done", !.got = k]
      /\ UNCHANGED <<open, peer, last, sent, delivered, phantom>>
  BY DEF KernelRead
<1> HIDE DEF head, new, rest, left
<1>9. head \o new \in Seq(Cell) /\ Len(head \o new) = op.base + k
  BY <1>4, <1>5, <1>6, ConcatProperties, ZenonT(60)
<1>10. readBuffer' \in Seq(Cell) /\ Len(readBuffer') = op.base + op.size
  <2>1. /\ (head \o new) \o rest \in Seq(Cell)
        /\ Len((head \o new) \o rest) = Len(head \o new) + Len(rest)
    BY <1>7, <1>9, ConcatProperties
  <2>2. QED
    BY <1>2, <1>3, <1>7, <1>8, <1>9, <2>1
<1>11. /\ op' \in [kind : Kinds, size : Nat, delim : Seq(Byte), base : Nat,
                   st : {"starting", "waiting", "done"}, got : Nat,
                   ec : Errors \cup {"ok"}, timer : {"armed", "spent"}]
       /\ op'.base = op.base /\ op'.size = op.size /\ op'.got = k
       /\ op'.kind = op.kind /\ op'.st = "done" /\ op'.ec = "ok"
  BY <1>1, <1>2, <1>8 DEF TypeOK
<1>12. TypeOK'
  BY <1>3, <1>4, <1>8, <1>10, <1>11 DEF TypeOK
<1>13. Taken = delivered \o head
  BY <1>2, <1>6, TakenWhenPending DEF Pending, Kinds, head
<1>14. Taken' = delivered \o (head \o new)
  <2>1. SubSeq(readBuffer', 1, op.base + k) = head \o new
    BY <1>7, <1>8, <1>9, ConcatPrefix
  <2>2. op'.kind # "none"
    BY <1>11 DEF Kinds
  <2>3. QED
    BY <1>8, <1>11, <2>1, <2>2 DEF Taken, Committed, Pending
<1>15. (delivered \o (head \o new)) \o left = (delivered \o head) \o wire
  <2>1. delivered \o (head \o new) = (delivered \o head) \o new
    BY <1>2, <1>5, <1>6, Assoc
  <2>2. delivered \o head \in Seq(Cell)
    BY <1>2, <1>6, ConcatProperties
  <2>3. ((delivered \o head) \o new) \o left = (delivered \o head) \o (new \o left)
    BY <1>5, <2>2, Assoc
  <2>4. QED
    BY <1>4, <2>1, <2>3
<1>16. Taken' = Taken \o new
  BY <1>2, <1>5, <1>6, <1>13, <1>14, Assoc
<1>17. Prepared => Prepared'
  <2> SUFFICES ASSUME Prepared, NEW i \in op.base + k + 1..Len(readBuffer')
               PROVE  readBuffer'[i] = Fill
    BY <1>11 DEF Prepared
  <2>1. readBuffer[i] = Fill
    BY <1>2, <1>3, <1>10 DEF Prepared, Pending, Kinds
  <2>2. readBuffer'[i] = rest[i - (op.base + k)]
    <3>1. \A j \in 1..Len(head \o new) + Len(rest) :
            ((head \o new) \o rest)[j] = IF j <= Len(head \o new) THEN (head \o new)[j]
                                         ELSE rest[j - Len(head \o new)]
      BY <1>7, <1>9, ConcatProperties
    <3>2. /\ i \in 1..Len(head \o new) + Len(rest) /\ ~(i <= Len(head \o new))
      BY <1>2, <1>3, <1>7, <1>9, <1>10
    <3>3. QED
      BY <1>8, <1>9, <3>1, <3>2
  <2>3. rest[i - (op.base + k)] = readBuffer[i]
    <3>1. \A j \in 1..Len(readBuffer) : readBuffer[j] \in Cell
      BY <1>2, ElementOfSeq
    <3>2. \A j \in op.base + k + 1..Len(readBuffer) : readBuffer[j] \in Cell
      BY <1>2, <3>1
    <3>3. op.base + k + 1 \in Int /\ Len(readBuffer) \in Int
      BY <1>2
    <3>4. \A j \in 1..Len(readBuffer) - (op.base + k + 1) + 1 :
            rest[j] = readBuffer[op.base + k + 1 + j - 1]
      BY <3>2, <3>3, SubSeqProperties DEF rest
    <3>5. /\ i - (op.base + k) \in 1..Len(readBuffer) - (op.base + k + 1) + 1
          /\ op.base + k + 1 + (i - (op.base + k)) - 1 = i
      BY <1>2, <1>3, <1>10
    <3>6. QED
      BY <3>4, <3>5
  <2>4. QED
    BY <2>1, <2>2, <2>3
<1>18. wire = new \o wire'
  BY <1>4, <1>8
<1>19. QED
  BY <1>4, <1>8, <1>12, <1>13, <1>14, <1>15, <1>16, <1>17, <1>18

-----------------------------------------------------------------------------
(* Theorems.                                                               *)

\* What the stream promises, and what the results promise.
StreamInv == StreamConserved /\ NoByteLost /\ PhantomAccounted
ResultInv == ResultFits /\ UntilTwoByteDelim

\* Without its padding, s is the front of t, and c is all the rest of it.
InFlight(s, c, t) ==
  LET n == Stream!Real(s, Len(s))
  IN n + Len(c) = Len(t) /\ \A j \in 1..Len(c) : c[j] = t[n + j]

Intact(s, c, t) == Stream!RealPrefix(s, t) /\ InFlight(s, c, t)

Inv == TypeOK /\ Prepared /\ StreamInv /\ ResultInv

LEMMA TakenType ==
  ASSUME TypeOK
  PROVE  Taken \in Seq(Cell) /\ Len(Taken) \in Nat
<1>1. delivered \in Seq(Cell) /\ readBuffer \in Seq(Cell)
  BY DEF TypeOK
<1>2. CASE Pending
  <2>1. PICK b \in Seq(Cell) : Taken = delivered \o b
    BY <1>2, TakenWhenPending
  <2>2. QED
    BY <1>1, <2>1, ConcatProperties, LenProperties
<1>3. CASE ~Pending
  BY <1>1, <1>3, TakenWhenIdle, ConcatProperties, LenProperties
<1>4. QED
  BY <1>2, <1>3

\* NoByteLost, by position.
LEMMA IntactForm ==
  ASSUME NEW s \in Seq(Cell), NEW c \in Seq(Byte), NEW t \in Seq(Byte)
  PROVE  LET n == Stream!Real(s, Len(s))
         IN Intact(s, c, t) <=> /\ Stream!RealPrefix(s, t)
                                /\ n + Len(c) = Len(t)
                                /\ c = SubSeq(t, n + 1, Len(t))
<1> DEFINE n == Stream!Real(s, Len(s))
<1>1. n \in Nat /\ Len(c) \in Nat /\ Len(t) \in Nat
  BY RealType, LenProperties
<1>2. InFlight(s, c, t) <=> n + Len(c) = Len(t) /\ \A j \in 1..Len(c) : c[j] = t[n + j]
  BY DEF InFlight
<1> HIDE DEF n
<1>3. ASSUME n + Len(c) = Len(t)
      PROVE  (c = SubSeq(t, n + 1, Len(t))) <=> (\A j \in 1..Len(c) : c[j] = t[n + j])
  <2>1. \A j \in n + 1..Len(t) : t[j] \in Byte
    BY <1>1, ElementOfSeq
  <2>2. n + 1 \in Int /\ Len(t) \in Int
    BY <1>1
  <2> DEFINE u == SubSeq(t, n + 1, Len(t))
  <2>3. /\ u \in Seq(Byte)
        /\ Len(u) = IF n + 1 <= Len(t) THEN Len(t) - (n + 1) + 1 ELSE 0
        /\ \A j \in 1..Len(t) - (n + 1) + 1 : u[j] = t[n + 1 + j - 1]
    BY <2>1, <2>2, SubSeqProperties
  <2> HIDE DEF u
  <2>4. Len(u) = Len(c)
    BY <1>1, <1>3, <2>3
  <2>5. ASSUME NEW j \in 1..Len(c) PROVE u[j] = t[n + j]
    <3>1. j \in 1..Len(t) - (n + 1) + 1 /\ n + 1 + j - 1 = n + j
      BY <1>1, <1>3
    <3>2. QED
      BY <2>3, <3>1
  <2>6. c = u <=> \A j \in 1..Len(c) : c[j] = u[j]
    BY <2>3, <2>4, SeqEqual
  <2>7. QED
    BY <2>5, <2>6 DEF u
<1>4. QED
  BY <1>2, <1>3 DEF Intact, n

\* A byte of the peer that was taken has a place in what was sent.
LEMMA RealPlace ==
  ASSUME NEW s \in Seq(Cell), NEW i \in 1..Len(s), s[i] # Fill
  PROVE  Stream!Real(s, i) \in Nat \ {0}
<1>1. i \in Nat /\ i \in At(s, i)
  BY LenProperties DEF At
<1>2. IsFiniteSet(At(s, i)) /\ Stream!Real(s, i) \in Nat
  BY <1>1, RealType
<1>3. QED
  BY <1>1, <1>2, RealIsCount, FS_EmptySet

\* The peer sends: the byte is the last one sent and the last one in flight.
LEMMA SentIntact ==
  ASSUME NEW s \in Seq(Cell), NEW c \in Seq(Byte), NEW t \in Seq(Byte), NEW b \in Byte,
         Intact(s, c, t)
  PROVE  Intact(s, Append(c, b), Append(t, b))
<1> DEFINE n == Stream!Real(s, Len(s))
           c1 == Append(c, b)
           t1 == Append(t, b)
<1>1. Len(c) \in Nat /\ Len(t) \in Nat /\ n \in Nat
  BY RealType, LenProperties
<1>2. /\ Len(t1) = Len(t) + 1 /\ Len(c1) = Len(c) + 1
      /\ \A j \in 1..Len(t) : t1[j] = t[j]
      /\ \A j \in 1..Len(c) : c1[j] = c[j]
      /\ t1[Len(t) + 1] = b /\ c1[Len(c) + 1] = b
  BY AppendProperties
<1>3. n + Len(c) = Len(t) /\ \A j \in 1..Len(c) : c[j] = t[n + j]
  BY DEF Intact, InFlight
<1> HIDE DEF n, c1, t1
<1>4. ASSUME NEW i \in 1..Len(s), s[i] # Fill
      PROVE  Stream!Real(s, i) <= Len(t1) /\ s[i] = t1[Stream!Real(s, i)]
  <2>1. Stream!Real(s, i) <= Len(t) /\ s[i] = t[Stream!Real(s, i)]
    BY <1>4 DEF Intact, Stream!RealPrefix
  <2>2. Stream!Real(s, i) \in 1..Len(t)
    BY <1>1, <1>4, <2>1, RealPlace
  <2>3. QED
    BY <1>1, <1>2, <2>1, <2>2
<1>5. ASSUME NEW j \in 1..Len(c1) PROVE c1[j] = t1[n + j]
  <2>1. CASE j = Len(c) + 1
    <3>1. n + j = Len(t) + 1
      BY <1>1, <1>3, <2>1
    <3>2. QED
      BY <1>2, <2>1, <3>1
  <2>2. CASE j # Len(c) + 1
    <3>1. j \in 1..Len(c) /\ n + j \in 1..Len(t)
      BY <1>1, <1>2, <1>3, <2>2
    <3>2. QED
      BY <1>2, <1>3, <3>1
  <2>3. QED
    BY <2>1, <2>2
<1>6. n + Len(c1) = Len(t1)
  <2>1. n + Len(c) = Len(t) /\ Len(t1) = Len(t) + 1 /\ Len(c1) = Len(c) + 1
    BY <1>2, <1>3
  <2>2. QED
    BY <1>1, <2>1
<1>7. Stream!RealPrefix(s, t1)
  BY <1>4 DEF Stream!RealPrefix
<1>8. InFlight(s, c1, t1)
  BY <1>5, <1>6 DEF InFlight, n
<1>9. QED
  BY <1>7, <1>8 DEF Intact, c1, t1

\* The kernel moves bytes from the wire to what was taken.
LEMMA ReceivedIntact ==
  ASSUME NEW s \in Seq(Cell), NEW new \in Seq(Byte), NEW c \in Seq(Byte),
         NEW t \in Seq(Byte), Intact(s, new \o c, t)
  PROVE  Intact(s \o new, c, t)
<1> DEFINE n == Stream!Real(s, Len(s))
           s1 == s \o new
           w == new \o c
<1>1. /\ Len(s) \in Nat /\ Len(new) \in Nat /\ Len(c) \in Nat /\ Len(t) \in Nat /\ n \in Nat
      /\ new \in Seq(Cell)
  BY RealType, LenProperties, SeqMonotonic DEF Cell
<1>2. /\ Len(s1) = Len(s) + Len(new)
      /\ \A j \in 1..Len(s) + Len(new) : s1[j] = IF j <= Len(s) THEN s[j] ELSE new[j - Len(s)]
  BY <1>1, ConcatProperties
<1>3. /\ Len(w) = Len(new) + Len(c)
      /\ \A j \in 1..Len(new) + Len(c) : w[j] = IF j <= Len(new) THEN new[j] ELSE c[j - Len(new)]
  BY ConcatProperties
<1>4. n + Len(w) = Len(t) /\ \A j \in 1..Len(w) : w[j] = t[n + j]
  BY DEF Intact, InFlight
<1>5. \A i \in 0..Len(s) : Stream!Real(s1, i) = Stream!Real(s, i)
  BY <1>1, RealBefore
<1>6. \A m \in 0..Len(new) : Stream!Real(s1, Len(s) + m) = n + m
  BY RealBehind
<1> HIDE DEF n, s1, w
<1>7. ASSUME NEW i \in 1..Len(s1), s1[i] # Fill
      PROVE  Stream!Real(s1, i) <= Len(t) /\ s1[i] = t[Stream!Real(s1, i)]
  <2>1. CASE i <= Len(s)
    <3>1. i \in 1..Len(s) /\ s1[i] = s[i] /\ Stream!Real(s1, i) = Stream!Real(s, i)
      BY <1>1, <1>2, <1>5, <2>1
    <3>2. QED
      BY <1>7, <3>1 DEF Intact, Stream!RealPrefix
  <2>2. CASE ~(i <= Len(s))
    <3>1. PICK m \in 1..Len(new) : m = i - Len(s)
      BY <1>1, <1>2, <2>2
    <3>2. i = Len(s) + m /\ Stream!Real(s1, i) = n + m /\ s1[i] = new[m]
      BY <1>1, <1>2, <1>6, <2>2, <3>1
    <3>3. m \in 1..Len(w) /\ w[m] = new[m]
      BY <1>1, <1>3, <3>1
    <3>4. n + Len(w) = Len(t) /\ w[m] = t[n + m]
      BY <1>4, <3>3
    <3>5. n + m <= Len(t)
      <4>1. n + Len(w) = Len(t) /\ Len(w) = Len(new) + Len(c)
        BY <1>3, <3>4
      <4>2. QED
        BY <1>1, <3>1, <4>1
    <3>6. QED
      BY <3>2, <3>3, <3>4, <3>5
  <2>3. QED
    BY <2>1, <2>2
<1>8. Stream!Real(s1, Len(s1)) = n + Len(new)
  BY <1>1, <1>2, <1>6
<1>9. ASSUME NEW j \in 1..Len(c) PROVE c[j] = t[(n + Len(new)) + j]
  <2>1. /\ Len(new) + j \in 1..Len(w) /\ ~(Len(new) + j <= Len(new))
        /\ (Len(new) + j) - Len(new) = j /\ n + (Len(new) + j) = (n + Len(new)) + j
    BY <1>1, <1>3
  <2>2. w[Len(new) + j] = c[j] /\ w[Len(new) + j] = t[n + (Len(new) + j)]
    BY <1>3, <1>4, <2>1
  <2>3. QED
    BY <2>1, <2>2
<1>10. (n + Len(new)) + Len(c) = Len(t)
  BY <1>1, <1>3, <1>4
<1>11. InFlight(s1, c, t)
  BY <1>8, <1>9, <1>10 DEF InFlight
<1>12. Stream!RealPrefix(s1, t)
  BY <1>7 DEF Stream!RealPrefix
<1>13. QED
  BY <1>11, <1>12 DEF Intact, s1

\* A failed read pads what was taken.
LEMMA PaddedIntact ==
  ASSUME NEW s \in Seq(Cell), NEW z \in Seq(Cell), \A i \in 1..Len(z) : z[i] = Fill,
         NEW c \in Seq(Byte), NEW t \in Seq(Byte), Intact(s, c, t)
  PROVE  Intact(s \o z, c, t)
<1> DEFINE n == Stream!Real(s, Len(s))
           s1 == s \o z
<1>1. Len(s) \in Nat /\ Len(z) \in Nat
  BY LenProperties
<1>2. Len(s1) = Len(s) + Len(z) /\ \A j \in 1..Len(s) : s1[j] = s[j]
  BY <1>1, ConcatProperties
<1>3. /\ \A i \in Len(s)..Len(s) + Len(z) : Stream!Real(s1, i) = n
      /\ \A i \in Len(s) + 1..Len(s) + Len(z) : s1[i] = Fill
  BY PaddingBehind
<1>4. \A i \in 0..Len(s) : Stream!Real(s1, i) = Stream!Real(s, i)
  BY RealBefore
<1> HIDE DEF n, s1
<1>5. ASSUME NEW i \in 1..Len(s1), s1[i] # Fill
      PROVE  Stream!Real(s1, i) <= Len(t) /\ s1[i] = t[Stream!Real(s1, i)]
  <2>1. i \in 1..Len(s)
    BY <1>1, <1>2, <1>3, <1>5
  <2>2. s1[i] = s[i] /\ Stream!Real(s1, i) = Stream!Real(s, i)
    BY <1>1, <1>2, <1>4, <2>1
  <2>3. QED
    BY <1>5, <2>1, <2>2 DEF Intact, Stream!RealPrefix
<1>6. Stream!Real(s1, Len(s1)) = n
  BY <1>1, <1>2, <1>3
<1>7. InFlight(s1, c, t)
  BY <1>6 DEF Intact, InFlight, n
<1>8. QED
  BY <1>5, <1>7 DEF Intact, Stream!RealPrefix, s1

-----------------------------------------------------------------------------
(* The stream.                                                             *)

LEMMA StreamForm ==
  ASSUME TypeOK
  PROVE  /\ NoByteLost <=> Intact(Taken, wire, sent)
         /\ PhantomAccounted <=> Stream!Padding(Taken) = phantom
         /\ StreamConserved <=> (phantom = 0 => Taken \o wire = sent)
<1>1. Taken \in Seq(Cell) /\ wire \in Seq(Byte) /\ sent \in Seq(Byte)
  BY TakenType DEF TypeOK
<1>2. NoByteLost <=> Intact(Taken, wire, sent)
  BY <1>1, IntactForm DEF NoByteLost, Taken
<1>3. QED
  BY <1>2 DEF PhantomAccounted, StreamConserved, Taken

LEMMA StreamFormNext ==
  ASSUME TypeOK', Taken' \in Seq(Cell)
  PROVE  /\ NoByteLost' <=> Intact(Taken', wire', sent')
         /\ PhantomAccounted' <=> Stream!Padding(Taken') = phantom'
         /\ StreamConserved' <=> (phantom' = 0 => Taken' \o wire' = sent')
<1>1. wire' \in Seq(Byte) /\ sent' \in Seq(Byte)
  BY DEF TypeOK
<1>2. NoByteLost' <=> Intact(Taken', wire', sent')
  BY <1>1, IntactForm DEF NoByteLost, Taken
<1>3. QED
  BY <1>2 DEF PhantomAccounted, StreamConserved, Taken

\* Steps that leave the stream alone.
LEMMA QuietStream ==
  ASSUME StreamInv, Taken' = Taken, UNCHANGED <<wire, sent, phantom>>
  PROVE  StreamInv'
BY DEF StreamInv, StreamConserved, NoByteLost, PhantomAccounted, Taken

LEMMA PeerSendStream ==
  ASSUME TypeOK, StreamInv, TypeOK', NEW b \in Byte, Taken' = Taken, UNCHANGED phantom,
         sent' = Append(sent, b), wire' = Append(wire, b)
  PROVE  StreamInv'
<1>1. Taken \in Seq(Cell) /\ wire \in Seq(Byte) /\ sent \in Seq(Byte)
  BY TakenType DEF TypeOK
<1>2. Intact(Taken', wire', sent')
  BY <1>1, StreamForm, SentIntact DEF StreamInv
<1>3. Taken \o Append(wire, b) = Append(Taken \o wire, b)
  BY <1>1
<1>4. QED
  BY <1>1, <1>2, <1>3, StreamForm, StreamFormNext DEF StreamInv

LEMMA KernelReadStream ==
  ASSUME TypeOK, StreamInv, TypeOK', UNCHANGED <<sent, phantom>>,
         NEW new \in Seq(Byte), wire = new \o wire', Taken' = Taken \o new,
         Taken' \o wire' = Taken \o wire
  PROVE  StreamInv'
<1>1. /\ Taken \in Seq(Cell) /\ wire' \in Seq(Byte) /\ sent \in Seq(Byte) /\ new \in Seq(Cell)
  BY TakenType, SeqMonotonic DEF TypeOK, Cell
<1>2. Taken' \in Seq(Cell)
  BY <1>1, ConcatProperties
<1>3. Intact(Taken', wire', sent)
  BY <1>1, StreamForm, ReceivedIntact DEF StreamInv
<1>4. Stream!Padding(Taken') = Stream!Padding(Taken)
  BY <1>1, RealBehind
<1>5. QED
  BY <1>2, <1>3, <1>4, StreamForm, StreamFormNext DEF StreamInv

LEMMA PadsStream ==
  ASSUME TypeOK, StreamInv, TypeOK', Pads, UNCHANGED <<wire, sent>>
  PROVE  StreamInv'
<1>1. PICK z \in Seq(Cell) : /\ \A i \in 1..Len(z) : z[i] = Fill
                             /\ Taken' = Taken \o z /\ phantom' = phantom + Len(z)
  BY DEF Pads
<1>2. Taken \in Seq(Cell) /\ wire \in Seq(Byte) /\ sent \in Seq(Byte) /\ phantom \in Nat
  BY TakenType DEF TypeOK
<1>3. Taken' \in Seq(Cell) /\ Len(z) \in Nat
  BY <1>1, <1>2, ConcatProperties, LenProperties
<1>4. Intact(Taken', wire', sent')
  BY <1>1, <1>2, StreamForm, PaddedIntact DEF StreamInv
<1>5. Stream!Padding(Taken') = phantom'
  BY <1>1, <1>2, StreamForm, PaddingBehind DEF StreamInv
<1>6. ASSUME phantom' = 0 PROVE Taken' \o wire' = sent'
  <2>1. phantom = 0 /\ Len(z) = 0
    BY <1>1, <1>2, <1>3, <1>6
  <2>2. Taken' = Taken
    BY <1>1, <1>2, <2>1, EmptySeq, ConcatEmptySeq
  <2>3. QED
    BY <2>1, <2>2, StreamForm DEF StreamInv
<1>7. QED
  BY <1>3, <1>4, <1>5, <1>6, StreamFormNext DEF StreamInv

-----------------------------------------------------------------------------
(* The results.                                                            *)

\* An error is no result.
LEMMA FailResult ==
  ASSUME NEW kind, NEW n, NEW d, NEW buf, NEW ec \in Errors, Fail(kind, n, d, buf, ec)
  PROVE  ResultInv'
<1>1. last'.ec # "ok"
  BY DEF Fail, Errors
<1>2. QED
  BY <1>1 DEF ResultInv, ResultFits, UntilTwoByteDelim

\* move_data: how much it returns.
LEMMA MoveSizeResult ==
  ASSUME NEW n \in Nat, NEW buf \in Seq(Cell), NEW maxLen \in Nat
  PROVE  LET m == MoveSize(buf, n, maxLen)
             out == SubSeq(buf, 1, m)
         IN /\ m \in 0..Len(buf) /\ m <= n /\ m <= maxLen /\ m \in {maxLen, Len(buf), n}
            /\ out \in Seq(Cell) /\ Len(out) = m
<1> DEFINE m == MoveSize(buf, n, maxLen)
<1>1. m \in 0..Len(buf) /\ m <= n /\ m <= maxLen /\ m \in {maxLen, Len(buf), n}
  BY MoveSizeRange
<1> HIDE DEF m
<1>2. SubSeq(buf, 1, m) \in Seq(Cell) /\ Len(SubSeq(buf, 1, m)) = m
  BY <1>1, Cut
<1>3. QED
  BY <1>1, <1>2 DEF m

LEMMA SomeResult ==
  ASSUME NEW n \in Nat, NEW buf \in Seq(Cell), n = 0 \/ buf # <<>>,
         MoveData("some", n, <<>>, buf, Len(buf))
  PROVE  ResultInv'
<1> DEFINE m == MoveSize(buf, n, Len(buf))
           out == SubSeq(buf, 1, m)
<1>1. Len(buf) \in Nat /\ (buf # <<>> => Len(buf) > 0)
  BY LenProperties, EmptySeq
<1>2. /\ m \in 0..Len(buf) /\ m <= n /\ m \in {Len(buf), Len(buf), n}
      /\ last' = [kind |-> "some", size |-> n, delim |-> <<>>, ec |-> "ok", out |-> out]
      /\ out \in Seq(Cell) /\ Len(out) = m
  BY <1>1, MoveSizeResult DEF MoveData
<1> HIDE DEF m, out
<1>3. n > 0 => m > 0
  BY <1>1, <1>2
<1>4. /\ last'.kind = "some" /\ last'.size = n /\ last'.out = out
      /\ (n > 0 => out # <<>>) /\ Len(out) <= n
  BY <1>2, <1>3, EmptySeq
<1>5. QED
  BY <1>4 DEF ResultInv, ResultFits, UntilTwoByteDelim

LEMMA ExactResult ==
  ASSUME NEW n \in Nat, NEW buf \in Seq(Cell), Len(buf) >= n,
         MoveData("exact", n, <<>>, buf, Len(buf))
  PROVE  ResultInv'
<1> DEFINE m == MoveSize(buf, n, Len(buf))
           out == SubSeq(buf, 1, m)
<1>1. Len(buf) \in Nat
  BY LenProperties
<1>2. /\ m \in 0..Len(buf) /\ m <= n /\ m \in {Len(buf), Len(buf), n}
      /\ last' = [kind |-> "exact", size |-> n, delim |-> <<>>, ec |-> "ok", out |-> out]
      /\ out \in Seq(Cell) /\ Len(out) = m
  BY <1>1, MoveSizeResult DEF MoveData
<1> HIDE DEF m, out
<1>3. m = n
  BY <1>1, <1>2
<1>4. QED
  BY <1>2, <1>3 DEF ResultInv, ResultFits, UntilTwoByteDelim

\* Where a two-byte delimiter occurs.
LEMMA TwoByteOccurrences ==
  ASSUME NEW d \in Seq(Byte), Len(d) = 2, NEW s \in Seq(Cell)
  PROVE  Occurrences(d, s) = {i \in 1..Len(s) - 1 : s[i] = d[1] /\ s[i + 1] = d[2]}
<1>1. Len(s) \in Nat /\ d \in Seq(Cell)
  BY LenProperties, SeqMonotonic DEF Cell
<1>2. ASSUME NEW i \in 1..Len(s) - 1
      PROVE  SubSeq(s, i, i + 1) = d <=> s[i] = d[1] /\ s[i + 1] = d[2]
  <2> DEFINE u == SubSeq(s, i, i + 1)
  <2>1. \A j \in i..i + 1 : s[j] \in Cell
    BY <1>1, ElementOfSeq
  <2>2. /\ u \in Seq(Cell)
        /\ Len(u) = IF i <= i + 1 THEN i + 1 - i + 1 ELSE 0
        /\ \A j \in 1..i + 1 - i + 1 : u[j] = s[i + j - 1]
    BY <1>1, <2>1, SubSeqProperties
  <2> HIDE DEF u
  <2>3. Len(u) = 2 /\ u[1] = s[i] /\ u[2] = s[i + 1]
    BY <2>2
  <2>4. u = d <=> u[1] = d[1] /\ u[2] = d[2]
    <3>1. (\A j \in 1..Len(u) : u[j] = d[j]) <=> u[1] = d[1] /\ u[2] = d[2]
      BY <2>3
    <3>2. (\A j \in 1..Len(u) : u[j] = d[j]) => u = d
      BY <1>1, <2>2, <2>3, SeqEqual
    <3>3. QED
      BY <3>1, <3>2
  <2>5. QED
    BY <2>3, <2>4 DEF u
<1>3. Occurrences(d, s) = {i \in 1..Len(s) - 1 : SubSeq(s, i, i + 1) = d}
  <2>1. Len(s) - Len(d) + 1 = Len(s) - 1 /\ \A i \in Int : i + Len(d) - 1 = i + 1
    BY <1>1
  <2>2. QED
    BY <1>1, <2>1 DEF Occurrences
<1>4. QED
  BY <1>2, <1>3

\* readUntil stops right behind a two-byte delimiter, or one byte short of that if
\* its buffer ends there.
LEMMA UntilResult ==
  ASSUME NEW n \in Nat, NEW d \in Seq(Byte), NEW buf \in Seq(Cell),
         NEW i \in Occurrences(d, buf), \A j \in Occurrences(d, buf) : i <= j,
         UntilLen(i) <= n, MoveData("until", n, d, buf, UntilLen(i) + 1)
  PROVE  ResultInv'
<1>1. Len(buf) \in Nat /\ Len(d) \in Nat
  BY LenProperties
<1>2. i \in Nat /\ i >= 1 /\ i <= n
  BY <1>1 DEF Occurrences, UntilLen
<1>3. i + 1 \in Nat /\ MoveData("until", n, d, buf, i + 1)
  BY <1>2 DEF UntilLen
<1> DEFINE m == MoveSize(buf, n, i + 1)
           out == SubSeq(buf, 1, m)
<1>4. /\ m \in 0..Len(buf) /\ m <= n /\ m <= i + 1 /\ m \in {i + 1, Len(buf), n}
      /\ last' = [kind |-> "until", size |-> n, delim |-> d, ec |-> "ok", out |-> out]
      /\ out \in Seq(Cell) /\ Len(out) = m
  BY <1>3, MoveSizeResult DEF MoveData
<1> HIDE DEF m
<1>5. \A j \in 1..m : out[j] = buf[j]
  <2>1. \A j \in 1..m : buf[j] \in Cell
    BY <1>1, <1>4, ElementOfSeq
  <2>2. m \in Int /\ 1 \in Int
    BY <1>1, <1>4
  <2>3. \A j \in 1..m - 1 + 1 : SubSeq(buf, 1, m)[j] = buf[1 + j - 1]
    BY <2>1, <2>2, SubSeqProperties
  <2>4. QED
    BY <1>1, <1>4, <2>3
<1>6. /\ last'.kind = "until" /\ last'.size = n /\ last'.delim = d /\ last'.out = out
      /\ out \in Seq(Cell) /\ Len(out) = m
  BY <1>4
<1> HIDE DEF out
<1>7. ResultFits'
  BY <1>4, <1>6 DEF ResultFits
<1>8. ASSUME Len(d) = 2
      PROVE  \/ Occurrences(d, out) = {m - 1}
             \/ m = n /\ Occurrences(d, out) = {} /\ out[m] = d[1]
  <2>1. Occurrences(d, buf) = {j \in 1..Len(buf) - 1 : buf[j] = d[1] /\ buf[j + 1] = d[2]}
    BY <1>8, TwoByteOccurrences
  <2>2. Occurrences(d, out) = {j \in 1..m - 1 : out[j] = d[1] /\ out[j + 1] = d[2]}
    BY <1>6, <1>8, TwoByteOccurrences
  <2>3. i \in 1..Len(buf) - 1 /\ buf[i] = d[1] /\ buf[i + 1] = d[2]
    BY <2>1
  <2>4. \A j \in Occurrences(d, out) : j \in Occurrences(d, buf)
    <3>1. ASSUME NEW j \in 1..m - 1
          PROVE  /\ j \in 1..Len(buf) - 1 /\ out[j] = buf[j] /\ out[j + 1] = buf[j + 1]
      <4>1. j \in 1..m /\ j + 1 \in 1..m /\ j \in 1..Len(buf) - 1
        BY <1>1, <1>4
      <4>2. QED
        BY <1>5, <4>1
    <3>2. QED
      BY <2>1, <2>2, <3>1
  <2>5. m = i + 1 \/ (m = i /\ m = n)
    BY <1>1, <1>2, <1>4, <2>3
  <2>6. CASE m = i + 1
    <3>1. i \in Occurrences(d, out)
      <4>1. i \in 1..m - 1 /\ i \in 1..m /\ i + 1 \in 1..m
        BY <1>2, <2>6
      <4>2. out[i] = d[1] /\ out[i + 1] = d[2]
        BY <1>5, <2>3, <4>1
      <4>3. QED
        BY <2>2, <4>1, <4>2
    <3>2. \A j \in Occurrences(d, out) : j = i
      <4>1. \A j \in Occurrences(d, out) : j \in Int /\ j <= i /\ i <= j
        BY <1>2, <2>2, <2>4, <2>6
      <4>2. QED
        BY <1>2, <4>1
    <3>3. m - 1 = i
      BY <1>2, <2>6
    <3>4. QED
      BY <3>1, <3>2, <3>3, Zenon
  <2>7. CASE m = i /\ m = n
    <3>1. ASSUME NEW j \in Occurrences(d, out) PROVE FALSE
      <4>1. j \in 1..m - 1 /\ i <= j
        BY <2>2, <2>4
      <4>2. QED
        BY <1>2, <2>7, <4>1
    <3>2. Occurrences(d, out) = {}
      BY <3>1, Zenon
    <3>3. QED
      BY <1>2, <1>5, <2>3, <2>7, <3>2
  <2>8. QED
    BY <2>5, <2>6, <2>7
<1>9. UntilTwoByteDelim'
  <2>1. ASSUME Len(d) = 2
        PROVE  /\ Occurrences(d, out) \subseteq {m - 1}
               /\ m < n => Occurrences(d, out) = {m - 1}
    BY <1>2, <1>4, <1>8, <2>1
  <2>2. QED
    BY <1>6, <2>1 DEF UntilTwoByteDelim
<1>10. QED
  BY <1>7, <1>9 DEF ResultInv

LEMMA ExactLoopResult ==
  ASSUME ResultInv, NEW n \in Nat, NEW buf \in Seq(Cell), ReadExactLoop(n, buf)
  PROVE  ResultInv'
<1>1. Len(buf) \in Nat
  BY LenProperties
<1>2. CASE Len(buf) < n
  BY <1>2 DEF ReadExactLoop, Await, ResultInv, ResultFits, UntilTwoByteDelim
<1>3. CASE ~(Len(buf) < n)
  BY <1>1, <1>3, ExactResult DEF ReadExactLoop
<1>4. QED
  BY <1>2, <1>3

LEMMA UntilLoopResult ==
  ASSUME ResultInv, NEW n \in Nat, NEW d \in Seq(Byte), NEW buf \in Seq(Cell),
         ReadUntilLoop(n, d, buf)
  PROVE  ResultInv'
<1>1. "protocol_error" \in Errors
  BY DEF Errors
<1>2. CASE Await("until", n, d, buf)
  BY <1>2 DEF Await, ResultInv, ResultFits, UntilTwoByteDelim
<1>3. CASE Fail("until", n, d, buf, "protocol_error")
  BY <1>1, <1>3, FailResult
<1>4. ASSUME NEW i \in Occurrences(d, buf), \A j \in Occurrences(d, buf) : i <= j,
             UntilLen(i) <= n, MoveData("until", n, d, buf, UntilLen(i) + 1)
      PROVE  ResultInv'
  BY <1>4, UntilResult
<1>5. QED
  BY <1>2, <1>3, <1>4, Zenon DEF ReadUntilLoop

LEMMA StartResult ==
  ASSUME TypeOK, ResultInv, Start
  PROVE  ResultInv'
<1>1. readBuffer \in Seq(Cell) /\ OutSizes \subseteq Nat /\ Delims \subseteq Seq(Byte)
  BY OutSizesAssumption, DelimsAssumption DEF TypeOK
<1>2. ASSUME NEW kind, NEW n, NEW d, NotConnected(kind, n, d)
      PROVE  ResultInv'
  <2>1. "not_connected" \in Errors
    BY DEF Errors
  <2>2. Fail(kind, n, d, readBuffer, "not_connected")
    BY <1>2 DEF NotConnected
  <2>3. QED
    BY <2>1, <2>2, FailResult
<1>3. ASSUME NEW n \in OutSizes, StartReadSome(n)
      PROVE  ResultInv'
  <2>1. n \in Nat
    BY <1>1
  <2>2. CASE NotConnected("some", n, <<>>)
    BY <1>2, <2>2
  <2>3. CASE /\ n = 0 \/ readBuffer # <<>>
             /\ MoveData("some", n, <<>>, readBuffer, Len(readBuffer))
    BY <1>1, <2>1, <2>3, SomeResult
  <2>4. CASE Await("some", n, <<>>, readBuffer)
    BY <2>4 DEF Await, ResultInv, ResultFits, UntilTwoByteDelim
  <2>5. QED
    BY <1>3, <2>2, <2>3, <2>4, Zenon DEF StartReadSome
<1>4. ASSUME NEW n \in OutSizes, StartReadExact(n)
      PROVE  ResultInv'
  BY <1>1, <1>2, <1>4, ExactLoopResult DEF StartReadExact
<1>5. ASSUME NEW n \in OutSizes, NEW d \in Delims, StartReadUntil(n, d)
      PROVE  ResultInv'
  BY <1>1, <1>2, <1>5, UntilLoopResult DEF StartReadUntil
<1>6. QED
  BY <1>3, <1>4, <1>5 DEF Start

LEMMA ResumeResult ==
  ASSUME TypeOK, ResultInv, Resume
  PROVE  ResultInv'
<1> DEFINE buf == SubSeq(readBuffer, 1, op.base + op.got)
<1>1. op.st = "done" /\ op # Idle
  BY DEF Resume, Idle
<1>2. /\ op.kind \in Kinds /\ op.size \in Nat /\ op.delim \in Seq(Byte)
      /\ op.base \in Nat /\ op.got \in Nat /\ op.ec \in Errors \cup {"ok"}
      /\ Len(readBuffer) = op.base + op.size /\ op.got <= op.size
      /\ readBuffer \in Seq(Cell)
  BY <1>1 DEF TypeOK
<1>3. op.base + op.got \in 0..Len(readBuffer)
  BY <1>2
<1>4. buf \in Seq(Cell) /\ Len(buf) = op.base + op.got
  BY <1>2, <1>3, Cut
<1>5. CASE ReadFailed
  <2> DEFINE ec == IF op.ec # "ok" THEN op.ec ELSE "eof"
  <2>1. Fail(op.kind, op.size, op.delim, readBuffer, ec)
    BY <1>5 DEF Resume
  <2>2. ec \in Errors
    BY <1>2 DEF Errors
  <2> HIDE DEF ec
  <2>3. QED
    BY <2>1, <2>2, FailResult
<1>6. CASE ~ReadFailed
  <2>1. buf # <<>>
    <3>1. Len(buf) > 0
      BY <1>2, <1>4, <1>6 DEF ReadFailed
    <3> HIDE DEF buf
    <3>2. QED
      BY <1>4, <3>1, EmptySeq
  <2> HIDE DEF buf
  <2>2. \/ MoveData("some", op.size, <<>>, buf, Len(buf))
        \/ ReadExactLoop(op.size, buf)
        \/ ReadUntilLoop(op.size, op.delim, buf)
    BY <1>6 DEF Resume, Commit, buf
  <2>3. QED
    BY <1>2, <1>4, <2>1, <2>2, SomeResult, ExactLoopResult, UntilLoopResult
<1>7. QED
  BY <1>5, <1>6

-----------------------------------------------------------------------------
(* Theorems.                                                               *)

LEMMA InitInv == Init => Inv
<1> SUFFICES ASSUME Init PROVE Inv
  OBVIOUS
<1>1. TypeOK
  BY DEF Init, TypeOK, Idle
<1>2. Committed = <<>> /\ ~Pending
  BY DEF Init, Committed, Pending, Idle
<1>3. Taken = <<>> /\ wire = <<>> /\ sent = <<>> /\ phantom = 0
  BY <1>2 DEF Init, Taken
<1>4. <<>> \in Seq(Cell) /\ <<>> \in Seq(Byte) /\ Len(<<>>) = 0
  BY EmptySeq
<1>5. Stream!Real(<<>>, 0) = 0 /\ Stream!Padding(<<>>) = 0
  <2>1. At(<<>>, 0) = {} /\ PadAt(<<>>) = {}
    BY <1>4 DEF At, PadAt
  <2>2. QED
    BY <2>1, RealIsCount, FS_EmptySet
<1>6. Intact(<<>>, <<>>, <<>>)
  BY <1>4, <1>5 DEF Intact, InFlight, Stream!RealPrefix
<1>7. <<>> \o <<>> = <<>>
  BY <1>4, ConcatEmptySeq
<1>8. StreamInv
  BY <1>1, <1>3, <1>5, <1>6, <1>7, StreamForm DEF StreamInv
<1>9. ResultInv
  BY DEF Init, ResultInv, ResultFits, UntilTwoByteDelim
<1>10. QED
  BY <1>1, <1>2, <1>8, <1>9 DEF Inv, Prepared

\* What a step does to the stream the application sees: the peer sends, bytes are
\* delivered, a read fails and pads the stream, or nothing.
Visible ==
  \/ \E b \in Byte : sent' = Append(sent, b) /\ UNCHANGED <<delivered, phantom>>
  \/ Grows /\ UNCHANGED <<sent, phantom>>
  \/ Pads /\ UNCHANGED sent

LEMMA ActionStep ==
  ASSUME Inv, [Next]_vars
  PROVE  Inv' /\ Visible
<1> USE DEF Inv
<1>0. ASSUME UNCHANGED <<delivered, sent, phantom>> PROVE Visible
  BY <1>0, NothingDelivered DEF Visible
<1>1. ASSUME NEW b \in Byte, PeerSend(b)
      PROVE  Inv' /\ Visible
  <2>1. /\ sent' = Append(sent, b) /\ wire' = Append(wire, b)
        /\ UNCHANGED <<open, readBuffer, op, peer, last, delivered, phantom>>
    BY <1>1 DEF PeerSend
  <2>2. TypeOK'
    BY <2>1 DEF TypeOK
  <2>3. Taken' = Taken /\ Prepared'
    BY <2>1 DEF Taken, Committed, Pending, Prepared
  <2>4. StreamInv'
    BY <2>1, <2>2, <2>3, PeerSendStream
  <2>5. ResultInv'
    BY <2>1 DEF ResultInv, ResultFits, UntilTwoByteDelim
  <2>6. Visible
    BY <2>1 DEF Visible
  <2>7. QED
    BY <2>2, <2>3, <2>4, <2>5, <2>6
<1>2. ASSUME UNCHANGED <<readBuffer, op, wire, last, sent, delivered, phantom>>,
             open' \in BOOLEAN, peer' \in {"open", "closed", "reset"}
      PROVE  Inv' /\ Visible
  <2>1. TypeOK'
    BY <1>2 DEF TypeOK
  <2>2. Taken' = Taken /\ Prepared'
    BY <1>2 DEF Taken, Committed, Pending, Prepared
  <2>3. ResultInv'
    BY <1>2 DEF ResultInv, ResultFits, UntilTwoByteDelim
  <2>4. QED
    BY <1>0, <1>2, <2>1, <2>2, <2>3, QuietStream
<1>3. ASSUME NEW how \in {"closed", "reset"}, PeerEnd(how)
      PROVE  Inv' /\ Visible
  <2>1. open' \in BOOLEAN /\ peer' \in {"open", "closed", "reset"}
    BY <1>3 DEF PeerEnd, TypeOK
  <2>2. QED
    BY <1>2, <1>3, <2>1 DEF PeerEnd
<1>4. CASE Start
  <2>1. /\ TypeOK' /\ Taken' = Taken /\ Prepared' /\ Grows
        /\ phantom' = phantom /\ wire' = wire /\ sent' = sent
    BY <1>4, StartStep
  <2>2. ResultInv'
    BY <1>4, StartResult
  <2>3. QED
    BY <2>1, <2>2, QuietStream DEF Visible
<1>5. ASSUME NEW k \in 0..op.size, KernelRead(k)
      PROVE  Inv' /\ Visible
  <2>1. k \in Nat
    OBVIOUS
  <2>2. /\ TypeOK' /\ Prepared' /\ UNCHANGED <<sent, delivered, phantom>>
        /\ \E new \in Seq(Byte) : wire = new \o wire' /\ Taken' = Taken \o new
        /\ Taken' \o wire' = Taken \o wire
    BY <1>5, <2>1, KernelReadStep
  <2>3. StreamInv'
    BY <2>2, KernelReadStream
  <2>4. ResultInv'
    BY <1>5 DEF KernelRead, ResultInv, ResultFits, UntilTwoByteDelim
  <2>5. QED
    BY <1>0, <2>2, <2>3, <2>4
<1>6. ASSUME NEW ec \in Errors, CompleteWith(ec), open' \in BOOLEAN
      PROVE  Inv' /\ Visible
  <2>1. /\ TypeOK' /\ Taken' = Taken /\ Prepared'
        /\ UNCHANGED <<wire, sent, delivered, phantom>>
    BY <1>6, CompleteWithStep
  <2>2. ResultInv'
    BY <1>6 DEF CompleteWith, ResultInv, ResultFits, UntilTwoByteDelim
  <2>3. QED
    BY <1>0, <2>1, <2>2, QuietStream
<1>a. CASE Initiate \/ TimerLost
  <2>1. /\ TypeOK' /\ Taken' = Taken /\ Prepared'
        /\ UNCHANGED <<wire, sent, delivered, phantom, last>>
    BY <1>a, StartingStep
  <2>2. ResultInv'
    BY <2>1 DEF ResultInv, ResultFits, UntilTwoByteDelim
  <2>3. QED
    BY <1>0, <2>1, <2>2, QuietStream
<1>7. CASE KernelError \/ TimerExpires \/ CancelSocket
  <2>1. open' \in BOOLEAN
    BY <1>7 DEF KernelError, TimerExpires, CancelSocket, TypeOK
  <2>2. \E ec \in Errors : CompleteWith(ec)
    BY <1>7 DEF KernelError, TimerExpires, CancelSocket, Errors
  <2>3. QED
    BY <1>6, <2>1, <2>2
<1>8. CASE CloseSocket
  <2>1. open' \in BOOLEAN
    BY <1>8 DEF CloseSocket
  <2>2. CASE CompleteWith("aborted")
    BY <1>6, <2>1, <2>2 DEF Errors
  <2>3. CASE UNCHANGED <<readBuffer, op, wire, peer, last, sent, delivered, phantom>>
    BY <1>2, <2>1, <2>3 DEF TypeOK
  <2>4. QED
    BY <1>8, <2>2, <2>3 DEF CloseSocket
<1>9. CASE Resume
  <2>1. /\ TypeOK' /\ Prepared' /\ wire' = wire /\ sent' = sent
        /\ (Grows /\ Taken' = Taken /\ phantom' = phantom) \/ Pads
    BY <1>9, ResumeStep
  <2>2. ResultInv'
    BY <1>9, ResumeResult
  <2>3. StreamInv'
    BY <2>1, QuietStream, PadsStream
  <2>4. QED
    BY <2>1, <2>2, <2>3 DEF Visible
<1>10. CASE UNCHANGED vars
  BY <1>2, <1>10 DEF vars, TypeOK
<1>11. QED
  BY <1>1, <1>3, <1>4, <1>5, <1>a, <1>7, <1>8, <1>9, <1>10 DEF Next, Timer

\* The types, the prepared area, the stream and the results, as one invariant.
THEOREM InvHolds == Spec => []Inv
<1>1. Inv /\ [Next]_vars => Inv'
  BY ActionStep
<1>2. QED
  BY InitInv, <1>1, PTL DEF Spec

\* The variables keep their types, and an outstanding read owns exactly the
\* bytes its prepare() appended to the read buffer.
THEOREM TypeCorrect == Spec => []TypeOK
<1>1. Inv => TypeOK
  BY DEF Inv
<1>2. QED
  BY InvHolds, <1>1, PTL

\* As long as no read has failed with bytes prepared for it, the bytes the
\* reads returned, the bytes buffered and the bytes in flight are the bytes
\* the peer sent, in order: nothing lost, duplicated, reordered or invented.
THEOREM Conservation == Spec => []StreamConserved
<1>1. Inv => StreamConserved
  BY DEF Inv, StreamInv
<1>2. QED
  BY InvHolds, <1>1, PTL

\* Failed reads included, the peer's bytes come out once and in order: whatever
\* timers, cancellations, closes and resets do to the reads of SocketBaseDetail.h.
THEOREM EveryByteKept == Spec => []NoByteLost
<1>1. Inv => NoByteLost
  BY DEF Inv, StreamInv
<1>2. QED
  BY InvHolds, <1>1, PTL

\* The read buffer gains exactly the bytes that failed reads had prepared and
\* never committed.
THEOREM PaddingIsCounted == Spec => []PhantomAccounted
<1>1. Inv => PhantomAccounted
  BY DEF Inv, StreamInv
<1>2. QED
  BY InvHolds, <1>1, PTL

\* readExact returns all it was asked for, readSome something, and no read more
\* than its buffer holds.
THEOREM ResultsFit == Spec => []ResultFits
<1>1. Inv => ResultFits
  BY DEF Inv, ResultInv
<1>2. QED
  BY InvHolds, <1>1, PTL

\* readUntil with a two-byte delimiter returns no byte behind the first delimiter of
\* the stream, and none of it is missing unless the result fills the buffer.
THEOREM UntilStops == Spec => []UntilTwoByteDelim
<1>1. Inv => UntilTwoByteDelim
  BY DEF Inv, ResultInv
<1>2. QED
  BY InvHolds, <1>1, PTL

-----------------------------------------------------------------------------
(* The refinement of ByteStream.                                           *)

\* What is true of the stream that was taken is true of the part delivered.
LEMMA PrefixIntact ==
  ASSUME NEW s \in Seq(Cell), NEW u \in Seq(Cell), NEW t, Stream!RealPrefix(s \o u, t)
  PROVE  Stream!RealPrefix(s, t) /\ Stream!Padding(s) <= Stream!Padding(s \o u)
<1>1. Len(s) \in Nat /\ Len(u) \in Nat /\ s \o u \in Seq(Cell) /\ Len(s \o u) = Len(s) + Len(u)
  BY LenProperties, ConcatProperties
<1>2. \A i \in 1..Len(s) : (s \o u)[i] = s[i]
  BY <1>1, ConcatProperties
<1>3. \A i \in 1..Len(s) : Stream!Real(s \o u, i) = Stream!Real(s, i)
  BY <1>1, RealBefore
<1>4. Stream!RealPrefix(s, t)
  BY <1>1, <1>2, <1>3 DEF Stream!RealPrefix
<1>5. IsFiniteSet(PadAt(s \o u))
  BY <1>1, PaddingType
<1>6. PadAt(s) \in SUBSET PadAt(s \o u)
  BY <1>1, <1>2 DEF PadAt
<1>7. Stream!Padding(s) <= Stream!Padding(s \o u)
  BY <1>5, <1>6, FS_Subset, RealIsCount
<1>8. QED
  BY <1>4, <1>7

\* In every state the part delivered is what ByteStream allows.
Delivered == Stream!RealPrefix(delivered, sent) /\ Stream!Padding(delivered) <= phantom

LEMMA DeliveredIntact ==
  ASSUME Inv
  PROVE  Delivered
<1>1. TypeOK /\ delivered \in Seq(Cell)
  BY DEF Inv, TypeOK
<1>2. PICK u \in Seq(Cell) : Taken = delivered \o u
  <2>1. readBuffer \in Seq(Cell)
    BY <1>1 DEF TypeOK
  <2>2. CASE Pending
    BY <1>1, <2>2, TakenWhenPending
  <2>3. CASE ~Pending
    BY <1>1, <2>1, <2>3, TakenWhenIdle
  <2>4. QED
    BY <2>2, <2>3
<1>3. Stream!RealPrefix(Taken, sent) /\ Stream!Padding(Taken) = phantom
  BY <1>1, StreamForm DEF Inv, StreamInv, Intact
<1>4. QED
  BY <1>1, <1>2, <1>3, PrefixIntact DEF Delivered

\* Each visible step is a step of the stream: the peer's send is Send, what a read
\* returns is Deliver, and a read that fails with bytes prepared is ReadFails.
LEMMA StreamStep ==
  ASSUME TypeOK, TypeOK', Delivered', Visible
  PROVE  [Stream!Next]_(Stream!svars)
<1>1. CASE \E b \in Byte : sent' = Append(sent, b) /\ UNCHANGED <<delivered, phantom>>
  BY <1>1 DEF Stream!Next, Stream!Send
<1>2. CASE Grows /\ UNCHANGED <<sent, phantom>>
  <2>1. PICK out \in Seq(Cell) : delivered' = delivered \o out
    BY <1>2 DEF Grows
  <2>2. delivered \in Seq(Cell)
    BY DEF TypeOK
  <2>3. Len(delivered) <= Len(delivered')
    <3>1. /\ Len(delivered \o out) = Len(delivered) + Len(out)
          /\ Len(delivered) \in Nat /\ Len(out) \in Nat
      BY <2>2, ConcatProperties, LenProperties
    <3>2. QED
      BY <2>1, <3>1
  <2>4. SubSeq(delivered', 1, Len(delivered)) = delivered
    BY <2>1, <2>2, ConcatPrefix
  <2>5. Stream!IsPrefixOf(delivered, delivered')
    BY <2>3, <2>4 DEF Stream!IsPrefixOf
  <2>6. Stream!RealPrefix(delivered', sent) /\ Stream!Padding(delivered') <= phantom
    BY <1>2 DEF Delivered
  <2>7. QED
    BY <1>2, <2>5, <2>6 DEF Stream!Next, Stream!Deliver
<1>3. CASE Pads /\ UNCHANGED sent
  <2>1. PICK z \in Seq(Cell) : phantom' = phantom + Len(z) /\ delivered' = delivered
    BY <1>3 DEF Pads
  <2>2. phantom \in Nat /\ Len(z) \in Nat
    BY LenProperties DEF TypeOK
  <2>3. CASE Len(z) = 0
    BY <1>3, <2>1, <2>2, <2>3 DEF Stream!svars
  <2>4. CASE Len(z) > 0
    BY <1>3, <2>1, <2>2, <2>4 DEF Stream!Next, Stream!ReadFails
  <2>5. QED
    BY <2>2, <2>3, <2>4
<1>4. QED
  BY <1>1, <1>2, <1>3 DEF Visible

\* The buffered socket implements the byte stream: seen through what the peer sent,
\* what the reads returned and how much padding failed reads left, every step of
\* the buffer, the timers and the close is a step of the stream or invisible.
THEOREM Implements == Spec => ImplementsByteStream
<1>1. Init => Stream!Init
  BY DEF Init, Stream!Init
<1>2. Inv => TypeOK /\ Delivered
  BY DeliveredIntact DEF Inv
<1>3. Inv /\ [Next]_vars => Visible
  BY ActionStep
<1>4. TypeOK /\ TypeOK' /\ Delivered' /\ Visible => [Stream!Next]_(Stream!svars)
  BY StreamStep
<1>5. QED
  BY <1>1, <1>2, <1>3, <1>4, InvHolds, PTL DEF Spec, ImplementsByteStream, Stream!Spec

=============================================================================
