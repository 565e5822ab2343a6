----------------------------- MODULE ByteStream -----------------------------
(***************************************************************************)
(* What a socket's reads promise the application, without buffers, waits   *)
(* or threads: the bytes the peer sent come out once and in order.  The    *)
(* stream may be padded: a read that fails may add as many Fill bytes to   *)
(* what later reads return as it had room for.  A stream on which no read  *)
(* has failed is not padded.                                               *)
(***************************************************************************)
EXTENDS Integers, Sequences, FiniteSets

CONSTANTS
  Byte,   \* values of the bytes the peer sends
  Fill    \* the padding value

VARIABLES
  sent,       \* what the peer sent
  delivered,  \* what the reads returned
  phantom     \* padding the failed reads allow

svars == <<sent, delivered, phantom>>

IsPrefixOf(s, t) == Len(s) <= Len(t) /\ SubSeq(t, 1, Len(s)) = s

\* How many of the first i bytes of s are the peer's, and how much of s is padding.
Real(s, i) == Cardinality({j \in 1..i : s[j] # Fill})
Padding(s) == Cardinality({j \in 1..Len(s) : s[j] = Fill})

\* Without its padding, s is a prefix of t.
RealPrefix(s, t) ==
  \A i \in 1..Len(s) : s[i] # Fill => Real(s, i) <= Len(t) /\ s[i] = t[Real(s, i)]

Init ==
  /\ sent = <<>>
  /\ delivered = <<>>
  /\ phantom = 0

Send ==
  /\ \E b \in Byte : sent' = Append(sent, b)
  /\ UNCHANGED <<delivered, phantom>>

Deliver ==
  /\ IsPrefixOf(delivered, delivered')
  /\ RealPrefix(delivered', sent)
  /\ Padding(delivered') <= phantom
  /\ UNCHANGED <<sent, phantom>>

ReadFails ==
  /\ phantom' > phantom
  /\ UNCHANGED <<sent, delivered>>

Next == Send \/ Deliver \/ ReadFails

Spec == Init /\ [][Next]_svars

=============================================================================
