------------------------- MODULE FtpNavigator_proofs -------------------------
(***************************************************************************)
(* Proofs about FtpNavigator, for every tree of directories, every set of  *)
(* paths and any number of calls.                                          *)
(***************************************************************************)
EXTENDS FtpNavigator, SequenceTheorems, TLAPS

Part == Names \cup Drives \cup {""}

-----------------------------------------------------------------------------
(* Sequences.                                                              *)

\* What a prefix is.
LEMMA Prefix ==
  ASSUME NEW S, NEW s \in Seq(S), NEW n \in 0..Len(s)
  PROVE  /\ SubSeq(s, 1, n) \in Seq(S)
         /\ Len(SubSeq(s, 1, n)) = n
         /\ \A i \in 1..n : SubSeq(s, 1, n)[i] = s[i]
<1>1. Len(s) \in Nat /\ \A i \in 1..Len(s) : s[i] \in S
  BY LenProperties, ElementOfSeq
<1>2. QED
  BY <1>1, SubSeqProperties

\* A prefix of a prefix is a prefix of the whole.
LEMMA PrefixOfPrefix ==
  ASSUME NEW S, NEW s \in Seq(S), NEW m \in 0..Len(s), NEW n \in 0..m
  PROVE  SubSeq(SubSeq(s, 1, m), 1, n) = SubSeq(s, 1, n)
<1> DEFINE p == SubSeq(s, 1, m)
<1>1. Len(s) \in Nat
  BY LenProperties
<1>2. p \in Seq(S) /\ Len(p) = m /\ \A i \in 1..m : p[i] = s[i]
  BY Prefix
<1>3. n \in 0..Len(s) /\ n \in 0..Len(p)
  BY <1>1, <1>2
<1>4. /\ SubSeq(s, 1, n) \in Seq(S) /\ Len(SubSeq(s, 1, n)) = n
      /\ \A i \in 1..n : SubSeq(s, 1, n)[i] = s[i]
  BY <1>3, Prefix
<1> HIDE DEF p
<1>5. /\ SubSeq(p, 1, n) \in Seq(S) /\ Len(SubSeq(p, 1, n)) = n
      /\ \A i \in 1..n : SubSeq(p, 1, n)[i] = p[i]
  BY <1>2, <1>3, Prefix
<1>6. \A i \in 1..n : SubSeq(p, 1, n)[i] = SubSeq(s, 1, n)[i]
  BY <1>1, <1>2, <1>4, <1>5
<1>7. SubSeq(p, 1, n) = SubSeq(s, 1, n)
  BY <1>4, <1>5, <1>6, SeqEqual
<1>8. QED
  BY <1>7 DEF p

\* Appending is undone by cutting the last element off.
LEMMA FrontAppended ==
  ASSUME NEW S, NEW s \in Seq(S), NEW e \in S
  PROVE  /\ Append(s, e) # <<>>
         /\ SubSeq(Append(s, e), 1, Len(Append(s, e)) - 1) = s
<1> DEFINE a == Append(s, e)
           f == SubSeq(a, 1, Len(s))
<1>1. /\ Len(s) \in Nat /\ a \in Seq(S) /\ Len(a) = Len(s) + 1
      /\ \A i \in 1..Len(s) : a[i] = s[i]
  BY LenProperties, AppendProperties
<1> HIDE DEF a
<1>2. Len(s) \in 0..Len(a)
  BY <1>1
<1>3. f \in Seq(S) /\ Len(f) = Len(s) /\ \A i \in 1..Len(s) : f[i] = a[i]
  BY <1>1, <1>2, Prefix
<1> HIDE DEF f
<1>4. f = s
  BY <1>1, <1>3, SeqEqual
<1>5. Len(a) - 1 = Len(s)
  BY <1>1
<1>6. a # <<>>
  BY <1>1, EmptySeq
<1>7. QED
  BY <1>4, <1>5, <1>6 DEF f, a

LEMMA MinusZero ==
  ASSUME NEW n \in Nat
  PROVE  n - 0 = n /\ 0 <= n
OBVIOUS

LEMMA LessOne ==
  ASSUME NEW a \in Nat, NEW b \in Nat, a <= b
  PROVE  a - 1 <= b - 1
OBVIOUS

\* One ".." less to send, from one directory higher.
LEMMA UpStep ==
  ASSUME NEW S, NEW dir \in Seq(S), NEW ups \in Nat, 0 < ups, ups <= Len(dir)
  PROVE  /\ Up(dir) = SubSeq(dir, 1, Len(dir) - 1)
         /\ Up(dir) \in Seq(S)
         /\ Len(Up(dir)) = Len(dir) - 1
         /\ SubSeq(Up(dir), 1, Len(Up(dir)) - (ups - 1)) = SubSeq(dir, 1, Len(dir) - ups)
<1>1. Len(dir) \in Nat /\ Len(dir) > 0 /\ dir # <<>>
  BY LenProperties, EmptySeq
<1>2. Up(dir) = SubSeq(dir, 1, Len(dir) - 1)
  BY <1>1 DEF Up
<1>3. Len(dir) - 1 \in 0..Len(dir) /\ Len(dir) - ups \in 0..(Len(dir) - 1)
  BY <1>1
<1>4. Up(dir) \in Seq(S) /\ Len(Up(dir)) = Len(dir) - 1
  BY <1>2, <1>3, Prefix
<1>5. SubSeq(Up(dir), 1, Len(dir) - ups) = SubSeq(dir, 1, Len(dir) - ups)
  BY <1>2, <1>3, PrefixOfPrefix
<1>6. Len(Up(dir)) - (ups - 1) = Len(dir) - ups
  BY <1>1, <1>4
<1>7. QED
  BY <1>2, <1>4, <1>5, <1>6

\* One component less to send, from one directory lower.
LEMMA DownStep ==
  ASSUME NEW S, NEW dir \in Seq(S), NEW downs \in Seq(S), downs # <<>>
  PROVE  /\ Append(dir, Head(downs)) \in Seq(S)
         /\ Append(dir, Head(downs)) \o Tail(downs) = dir \o downs
         /\ Head(downs) = (dir \o downs)[Len(dir) + 1]
         /\ Len(dir) + 1 \in 1..Len(dir \o downs)
<1>1. /\ Len(dir) \in Nat /\ Len(downs) \in Nat /\ Len(downs) > 0
      /\ \A i \in 1..Len(dir) : dir[i] \in S
      /\ \A i \in 1..Len(downs) : downs[i] \in S
  BY LenProperties, EmptySeq, ElementOfSeq
<1>2. /\ Head(downs) = downs[1] /\ Head(downs) \in S
      /\ Tail(downs) \in Seq(S) /\ Len(Tail(downs)) = Len(downs) - 1
      /\ \A i \in 1..Len(Tail(downs)) : Tail(downs)[i] = downs[i + 1]
  BY HeadTailProperties
<1> DEFINE a == Append(dir, Head(downs))
<1>3. /\ a \in Seq(S) /\ Len(a) = Len(dir) + 1
      /\ \A i \in 1..Len(a) : a[i] = IF i <= Len(dir) THEN dir[i] ELSE Head(downs)
  BY <1>1, <1>2, AppendProperties
<1>4. /\ dir \o downs \in Seq(S) /\ Len(dir \o downs) = Len(dir) + Len(downs)
      /\ \A i \in 1..Len(dir) + Len(downs) :
           (dir \o downs)[i] = IF i <= Len(dir) THEN dir[i] ELSE downs[i - Len(dir)]
  BY ConcatProperties
<1> HIDE DEF a
<1>5. /\ a \o Tail(downs) \in Seq(S) /\ Len(a \o Tail(downs)) = Len(a) + Len(Tail(downs))
      /\ \A i \in 1..Len(a) + Len(Tail(downs)) :
           (a \o Tail(downs))[i] = IF i <= Len(a) THEN a[i] ELSE Tail(downs)[i - Len(a)]
  BY <1>2, <1>3, ConcatProperties
<1>6. Len(a \o Tail(downs)) = Len(dir \o downs)
  BY <1>1, <1>2, <1>3, <1>4, <1>5
<1>7. \A i \in 1..Len(dir \o downs) : (a \o Tail(downs))[i] = (dir \o downs)[i]
  BY <1>1, <1>2, <1>3, <1>4, <1>5
<1>8. a \o Tail(downs) = dir \o downs
  BY <1>4, <1>5, <1>6, <1>7, SeqEqual
<1>9. QED
  BY <1>1, <1>2, <1>3, <1>4, <1>8 DEF a

\* A common prefix followed by the rest of the target is the target.
LEMMA CommonThenRest ==
  ASSUME NEW S, NEW s \in Seq(S), NEW t \in Seq(S), NEW n \in 0..Len(s),
         n <= Len(t), \A i \in 1..n : s[i] = t[i]
  PROVE  /\ SubSeq(t, n + 1, Len(t)) \in Seq(S)
         /\ SubSeq(s, 1, n) \o SubSeq(t, n + 1, Len(t)) = t
<1>1. /\ Len(s) \in Nat /\ \A i \in 1..Len(s) : s[i] \in S
      /\ Len(t) \in Nat /\ \A i \in 1..Len(t) : t[i] \in S
  BY LenProperties, ElementOfSeq
<1>2. n \in Nat /\ n <= Len(t) /\ \A i \in 1..n : s[i] = t[i]
  BY <1>1
<1>3. /\ SubSeq(s, 1, n) \in Seq(S) /\ Len(SubSeq(s, 1, n)) = n
      /\ \A i \in 1..n : SubSeq(s, 1, n)[i] = s[i]
  BY <1>1, SubSeqProperties
<1>4. /\ SubSeq(t, 1, n) \in Seq(S) /\ Len(SubSeq(t, 1, n)) = n
      /\ \A i \in 1..n : SubSeq(t, 1, n)[i] = t[i]
  BY <1>1, <1>2, SubSeqProperties
<1>5. SubSeq(s, 1, n) = SubSeq(t, 1, n)
  BY <1>2, <1>3, <1>4, SeqEqual
<1>6. SubSeq(t, n + 1, Len(t)) \in Seq(S)
  BY <1>1, <1>2, SubSeqProperties
<1>7. SubSeq(t, 1, n) \o SubSeq(t, n + 1, Len(t)) = SubSeq(t, 1, Len(t))
  <2>1. 1 \in 1..Len(t) + 1 /\ n \in 1 - 1..Len(t) /\ Len(t) \in n..Len(t)
    BY <1>1, <1>2
  <2>2. QED
    BY <2>1, ConcatAdjacentSubSeq, Zenon
<1>8. QED
  BY <1>5, <1>6, <1>7, SubSeqFull

-----------------------------------------------------------------------------
(* Types.                                                                  *)

\* What the commands of a call are made of.
LEMMA PathParts ==
  ASSUME NEW p \in Path
  PROVE  /\ Split(p) \in Seq(Part)
         /\ Descent(p) \in Seq(Part)
         /\ ExtractDrive(p) \in Drives \cup {""}
<1>1. p.parts \in Seq(Names \cup {""}) /\ p.root \in {"/", ""} \cup Drives
  BY DEF Path
<1>2. Names \cup {""} \subseteq Part
  BY DEF Part
<1>3. p.parts \in Seq(Part)
  BY <1>1, <1>2, SeqMonotonic
<1>4. Split(p) \in Seq(Part)
  <2>1. CASE p.root \in Drives
    <3>1. p.root \in Part
      BY <2>1 DEF Part
    <3>2. <<p.root>> \in Seq(Part)
      BY <3>1
    <3>3. QED
      BY <1>3, <2>1, <3>2, ConcatProperties DEF Split
  <2>2. QED
    BY <1>3, <2>1 DEF Split
<1>5. Descent(p) \in Seq(Part)
  <2>1. CASE TrailingSlash(p)
    <3>1. Len(p.parts) \in Nat \ {0}
      BY <1>3, <2>1, EmptySeq, Zenon DEF TrailingSlash
    <3>2. Len(p.parts) - 1 \in 0..Len(p.parts)
      BY <3>1
    <3>3. SubSeq(p.parts, 1, Len(p.parts) - 1) \in Seq(Part)
      BY <1>3, <3>2, Prefix, Zenon
    <3>4. QED
      BY <2>1, <3>3, Zenon DEF Descent
  <2>2. QED
    BY <1>3, <2>1 DEF Descent
<1>6. QED
  BY <1>4, <1>5 DEF ExtractDrive

\* Directories are sequences of components.
LEMMA DirParts ==
  ASSUME NEW d \in Dirs
  PROVE  d \in Seq(Part)
<1>1. d \in Seq(Names \cup Drives) /\ Names \cup Drives \subseteq Part
  BY DirsAssumption DEF Part
<1>2. QED
  BY <1>1, SeqMonotonic

Call == [pc : {"idle", "moving", "restoring"}, target : Path,
         select : Drives \cup {""}, ups : Nat, downs : Seq(Part),
         result : {"none", "ok", "error", "probed"}]

\* The commands planned by a call are well formed.
LEMMA PlanType ==
  ASSUME TypeOK, NEW target \in Targets, ChangeDirectory(target)
  PROVE  nav' \in Call
<1>1. current \in Path /\ target \in Path
  BY TargetsAssumption DEF TypeOK
<1> DEFINE s == Split(current)
           t == Split(target)
<1>2. /\ s \in Seq(Part) /\ t \in Seq(Part) /\ Descent(target) \in Seq(Part)
      /\ ExtractDrive(target) \in Drives \cup {""}
  BY <1>1, PathParts
<1>3. CASE JumpTo(target)
  BY <1>1, <1>2, <1>3 DEF JumpTo, Moving, Call
<1>4. CASE WalkTo(target)
  <2> HIDE DEF s, t
  <2>1. PICK common \in 0..Len(s) :
          /\ CommonPrefix(s, t, common)
          /\ Moving(target, "", Len(s) - common, SubSeq(t, common + 1, Len(t)))
    BY <1>4 DEF WalkTo, s, t
  <2>2. SubSeq(t, common + 1, Len(t)) \in Seq(Part)
    <3>1. common <= Len(t) /\ \A i \in 1..common : s[i] = t[i]
      BY <2>1 DEF CommonPrefix
    <3>2. QED
      BY <1>2, <3>1, CommonThenRest
  <2>3. Len(s) - common \in Nat
    <3>1. Len(s) \in Nat
      BY <1>2, LenProperties
    <3>2. QED
      BY <3>1
  <2>4. QED
    BY <1>1, <2>1, <2>2, <2>3 DEF Moving, Call
<1>5. QED
  BY <1>3, <1>4 DEF ChangeDirectory

LEMMA TypeInit ==
  Init => TypeOK
<1> SUFFICES ASSUME Init
             PROVE  TypeOK
  OBVIOUS
<1>1. <<>> \in Seq(Names \cup {""}) /\ <<>> \in Seq(Names \cup Drives \cup {""})
  BY EmptySeq
<1>2. StartPath \in Path
  BY <1>1 DEF Path, StartPath
<1>3. <<>> \in Dirs
  BY DirsAssumption
<1>4. nav \in Call
  BY <1>1, <1>2 DEF Init, Call, Part
<1>5. /\ current \in Path /\ cwd \in Dirs
      /\ failed \in BOOLEAN /\ plain \in BOOLEAN /\ tidy \in BOOLEAN /\ calls \in Nat
  BY <1>2, <1>3 DEF Init
<1>6. QED
  BY <1>4, <1>5 DEF TypeOK, Call, Part

\* What every call, and every probe, starts with.
LEMMA CalledType ==
  ASSUME TypeOK, NEW target, Called(target)
  PROVE  /\ calls' \in Nat /\ plain' \in BOOLEAN /\ tidy' \in BOOLEAN
         /\ UNCHANGED <<current, cwd, failed>>
<1>1. calls \in Nat
  BY DEF TypeOK
<1>2. calls' = calls + 1 /\ UNCHANGED <<current, cwd, failed>>
  BY Zenon DEF Called
<1>3. plain' \in BOOLEAN /\ tidy' \in BOOLEAN
  BY Zenon DEF Called
<1>4. QED
  BY <1>1, <1>2, <1>3

LEMMA ProbingType ==
  ASSUME TypeOK, Probing
  PROVE  calls' \in Nat /\ UNCHANGED <<current, plain, tidy>>
<1>1. calls \in Nat
  BY DEF TypeOK
<1>2. calls' = calls + 1 /\ UNCHANGED <<current, plain, tidy>>
  BY Zenon DEF Probing
<1>3. QED
  BY <1>1, <1>2

LEMMA TypeNext ==
  TypeOK /\ [Next]_vars => TypeOK'
<1> SUFFICES ASSUME TypeOK, [Next]_vars
             PROVE  TypeOK'
  OBVIOUS
<1>1. ASSUME NEW target \in Targets, ChangeDirectory(target)
      PROVE  TypeOK'
  <2>1. nav' \in Call
    BY <1>1, PlanType
  <2>2. Called(target)
    BY <1>1, Zenon DEF ChangeDirectory, JumpTo, WalkTo
  <2>3. /\ calls' \in Nat /\ plain' \in BOOLEAN /\ tidy' \in BOOLEAN
        /\ UNCHANGED <<current, cwd, failed>>
    BY <2>2, CalledType
  <2>4. QED
    BY <2>1, <2>3 DEF TypeOK, Call, Part
<1>2. CASE FtpSelectDrive
  BY <1>2 DEF FtpSelectDrive, Moved, TypeOK
<1>3. CASE FtpCdUp
  <2>1. nav.ups \in Nat
    BY DEF TypeOK
  <2>2. nav.ups > 0
    BY <1>3 DEF FtpCdUp, UpNext
  <2>3. nav.ups - 1 \in Nat
    BY <2>1, <2>2
  <2>4. QED
    BY <1>3, <2>3 DEF FtpCdUp, Moved, TypeOK
<1>4. CASE FtpCdDown
  <2>1. Tail(nav.downs) \in Seq(Names \cup Drives \cup {""})
    BY <1>4, HeadTailProperties DEF FtpCdDown, DownNext, TypeOK
  <2>2. QED
    BY <1>4, <2>1 DEF FtpCdDown, Moved, TypeOK
<1>5. CASE Arrive
  BY <1>5 DEF Arrive, TypeOK
<1>6. CASE CommandFails
  BY <1>6 DEF CommandFails, TypeOK
<1>7. ASSUME NEW name \in Names, ProbeEnters(name)
      PROVE  TypeOK'
  <2>1. Probing
    BY <1>7 DEF ProbeEnters
  <2>2. calls' \in Nat /\ UNCHANGED <<current, plain, tidy>>
    BY <2>1, ProbingType
  <2>3. QED
    BY <1>7, <2>2 DEF ProbeEnters, TypeOK
<1>8. CASE ProbeRefused
  <2>1. Probing
    BY <1>8 DEF ProbeRefused
  <2>2. calls' \in Nat /\ UNCHANGED <<current, plain, tidy>>
    BY <2>1, ProbingType
  <2>3. QED
    BY <1>8, <2>2 DEF ProbeRefused, TypeOK
<1>9. ASSUME NEW name \in Names, ProbeLost(name)
      PROVE  TypeOK'
  <2>1. Probing
    BY <1>9 DEF ProbeLost
  <2>2. calls' \in Nat /\ UNCHANGED <<current, plain, tidy>>
    BY <2>1, ProbingType
  <2>3. QED
    BY <1>9, <2>2 DEF ProbeLost, TypeOK
<1>10. CASE Restore
  BY <1>10 DEF Restore, Moved, TypeOK
<1>11. CASE RestoreFails
  BY <1>11 DEF RestoreFails, TypeOK
<1>12. CASE UNCHANGED vars
  BY <1>12 DEF vars, TypeOK
<1>13. QED
  BY <1>1, <1>2, <1>3, <1>4, <1>5, <1>6, <1>7, <1>8, <1>9, <1>10, <1>11, <1>12 DEF Next

\* The navigator's counts of ".." never run below zero, and the session is always
\* in a directory of the server, whatever fails.
THEOREM TypeCorrect == Spec => []TypeOK
BY TypeInit, TypeNext, PTL DEF Spec

-----------------------------------------------------------------------------
(* The navigator and the server agree.                                     *)

\* With plain targets, _current and the target of a call are plain as well.
PlainCall == plain => current.root = "/" /\ IsPlain(nav.target)

\* No component is empty: the path has no trailing slash.
Whole(p) == \A i \in DOMAIN p.parts : p.parts[i] # ""

\* With tidy targets, so are _current and the target of a call, if on a drive.
TidyCall ==
  tidy => /\ current.root \in Drives => Whole(current)
          /\ nav.target.root \in Drives => Whole(nav.target)

\* The commands that are left take the session to the target of the call.
OnCourse ==
  /\ nav.ups <= Len(cwd)
  /\ SubSeq(cwd, 1, Len(cwd) - nav.ups) \o nav.downs = Split(nav.target)

\* What InSync says of plain paths, for paths on a drive: also when a drive has yet
\* to be selected, wherever the session is before that.
DriveSync ==
  tidy /\ ~failed =>
    /\ nav.pc = "idle" /\ current.root \in Drives => cwd = Split(current)
    /\ nav.pc = "restoring" /\ current.root \in Drives =>
         cwd # <<>> /\ SubSeq(cwd, 1, Len(cwd) - 1) = Split(current)
    /\ nav.pc = "moving" /\ nav.target.root \in Drives =>
         IF nav.select = "" THEN OnCourse
         ELSE nav.ups = 0 /\ <<nav.select>> \o nav.downs = Split(nav.target)

\* As long as there are ".." to send the session is above its start.
Climbing ==
  plain /\ ~failed /\ nav.pc = "moving" /\ nav.ups > 0 => IsAncestor(cwd, Split(current))

\* The ".." that are left do not take the session above the common ancestor.
Turning ==
  plain /\ ~failed /\ nav.pc = "moving" =>
    \A n \in 0..Len(Split(current)) :
      Shared(Split(current), Split(nav.target), n) => n <= Len(cwd) - nav.ups

\* The inductive invariant.
Inv == TypeOK /\ PlainCall /\ TidyCall /\ InSync /\ DriveSync /\ Climbing /\ Turning

\* A target that lexically_normal returned is whole unless it ends in a slash.
LEMMA WholeTarget ==
  ASSUME NEW target \in Targets, ~TrailingSlash(target)
  PROVE  Whole(target)
<1>1. target.parts \in Seq(Names \cup {""})
  BY TargetsAssumption DEF Path
<1>2. /\ Len(target.parts) \in Nat /\ DOMAIN target.parts = 1..Len(target.parts)
      /\ target.parts # <<>> \/ Len(target.parts) = 0
  BY <1>1, LenProperties, EmptySeq
<1>3. ASSUME NEW i \in 1..Len(target.parts) PROVE target.parts[i] # ""
  <2>1. CASE i = Len(target.parts)
    <3>1. target.parts # <<>>
      BY <1>2
    <3>2. QED
      BY <2>1, <3>1, Zenon DEF TrailingSlash
  <2>2. CASE i # Len(target.parts)
    <3>1. i \in 1..(Len(target.parts) - 1)
      BY <1>2, <2>2
    <3>2. QED
      BY <3>1, TargetsAssumption
  <2>3. QED
    BY <2>1, <2>2
<1>4. QED
  BY <1>2, <1>3 DEF Whole

LEMMA CallsNext ==
  TypeOK /\ PlainCall /\ TidyCall /\ [Next]_vars => PlainCall' /\ TidyCall'
<1> SUFFICES ASSUME TypeOK, PlainCall, TidyCall, [Next]_vars
             PROVE  PlainCall' /\ TidyCall'
  OBVIOUS
<1>1. ASSUME NEW target \in Targets, ChangeDirectory(target)
      PROVE  PlainCall' /\ TidyCall'
  <2>1. Called(target)
    BY <1>1, Zenon DEF ChangeDirectory, JumpTo, WalkTo
  <2>2. /\ current' = current /\ (plain' => plain /\ IsPlain(target))
        /\ tidy' => tidy /\ (target.root \in Drives => ~TrailingSlash(target))
    BY <2>1, Zenon DEF Called
  <2>3. PICK select, ups, downs : Moving(target, select, ups, downs)
    BY <1>1, Zenon DEF ChangeDirectory, JumpTo, WalkTo
  <2>4. nav'.target = target
    BY <2>3 DEF Moving
  <2>5. PlainCall'
    BY <2>2, <2>4, Zenon DEF PlainCall
  <2>6. TidyCall'
    BY <2>2, <2>4, WholeTarget, Zenon DEF TidyCall, Whole
  <2>7. QED
    BY <2>5, <2>6
<1>2. CASE Arrive
  <2>1. /\ plain' = plain /\ tidy' = tidy
        /\ current' = nav.target /\ nav'.target = nav.target
    BY <1>2 DEF Arrive, TypeOK
  <2>2. PlainCall'
    BY <2>1, Zenon DEF PlainCall, IsPlain
  <2>3. TidyCall'
    BY <2>1, Zenon DEF TidyCall, Whole
  <2>4. QED
    BY <2>2, <2>3
<1>3. ASSUME nav'.target = nav.target, UNCHANGED <<current, plain, tidy>>
      PROVE  PlainCall' /\ TidyCall'
  <2>1. current' = current /\ plain' = plain /\ tidy' = tidy
    BY <1>3
  <2>2. ASSUME plain' PROVE (current.root = "/" /\ IsPlain(nav.target))'
    <3>1. current.root = "/" /\ IsPlain(nav.target)
      BY <2>1, <2>2, Zenon DEF PlainCall
    <3>2. QED
      BY <1>3, <2>1, <3>1 DEF IsPlain
  <2>3. ASSUME tidy'
        PROVE  /\ (current.root \in Drives => Whole(current))'
               /\ (nav.target.root \in Drives => Whole(nav.target))'
    <3>1. /\ current.root \in Drives => Whole(current)
          /\ nav.target.root \in Drives => Whole(nav.target)
      BY <2>1, <2>3, Zenon DEF TidyCall
    <3>2. QED
      BY <1>3, <2>1, <3>1 DEF Whole
  <2>4. QED
    BY <2>2, <2>3, Zenon DEF PlainCall, TidyCall
<1>4. ASSUME NEW name \in Names, ProbeEnters(name) \/ ProbeLost(name)
      PROVE  nav'.target = nav.target /\ UNCHANGED <<current, plain, tidy>>
  BY <1>4 DEF ProbeEnters, ProbeLost, Probing, TypeOK
<1>5. CASE FtpSelectDrive \/ FtpCdUp \/ FtpCdDown \/ Restore
  BY <1>3, <1>5 DEF FtpSelectDrive, FtpCdUp, FtpCdDown, Restore, Moved, TypeOK
<1>6. CASE CommandFails \/ RestoreFails
  BY <1>3, <1>6 DEF CommandFails, RestoreFails, TypeOK
<1>7. CASE ProbeRefused
  BY <1>3, <1>7 DEF ProbeRefused, Probing, TypeOK
<1>8. CASE UNCHANGED vars
  BY <1>3, <1>8 DEF vars
<1>9. QED
  BY <1>1, <1>2, <1>3, <1>4, <1>5, <1>6, <1>7, <1>8 DEF Next

-----------------------------------------------------------------------------
(* The course of a call, one command at a time.                            *)

\* The commands of a call that starts where _current says lead to its target.
LEMMA WalkCourse ==
  ASSUME TypeOK, NEW target \in Targets, WalkTo(target), cwd = Split(current)
  PROVE  /\ OnCourse' /\ nav'.pc = "moving" /\ nav'.select = ""
         /\ nav'.target = target /\ cwd' = cwd
<1> DEFINE s == Split(current)
           t == Split(target)
<1>1. current \in Path /\ target \in Path
  BY TargetsAssumption DEF TypeOK
<1>2. s \in Seq(Part) /\ t \in Seq(Part) /\ s = cwd
  BY <1>1, PathParts
<1>3. PICK common \in 0..Len(s) :
        /\ CommonPrefix(s, t, common)
        /\ Moving(target, "", Len(s) - common, SubSeq(t, common + 1, Len(t)))
  BY DEF WalkTo
<1> HIDE DEF s, t
<1>4. SubSeq(s, 1, common) \o SubSeq(t, common + 1, Len(t)) = t
  <2>1. common <= Len(t) /\ \A i \in 1..common : s[i] = t[i]
    BY <1>3 DEF CommonPrefix
  <2>2. s \in Seq(Part) /\ t \in Seq(Part)
    BY <1>2
  <2>3. QED
    BY <2>1, <2>2, CommonThenRest, ZenonT(60)
<1>5. Len(s) \in Nat /\ common \in Nat /\ common <= Len(s)
  BY <1>2, LenProperties
<1>6. /\ nav'.pc = "moving" /\ nav'.select = "" /\ nav'.ups = Len(s) - common
      /\ nav'.downs = SubSeq(t, common + 1, Len(t)) /\ nav'.target = target
  BY <1>3 DEF Moving
<1>7. cwd' = s /\ cwd' = cwd
  BY <1>2 DEF WalkTo, Called
<1>8. Len(s) - nav'.ups = common /\ nav'.ups <= Len(s)
  <2>1. Len(s) - (Len(s) - common) = common /\ Len(s) - common <= Len(s)
    BY <1>5
  <2>2. QED
    BY <1>6, <2>1, Zenon
<1>9. QED
  BY <1>4, <1>6, <1>7, <1>8 DEF OnCourse, t

\* A jump to a path on a drive selects the drive and descends from there.
LEMMA JumpCourse ==
  ASSUME NEW target \in Targets, target.root \in Drives, Whole(target), JumpTo(target)
  PROVE  /\ nav'.pc = "moving" /\ nav'.target = target /\ nav'.select # "" /\ nav'.ups = 0
         /\ <<nav'.select>> \o nav'.downs = Split(target)
<1>1. target.root # "/" /\ target.root # ""
  BY NamesAssumption
<1>2. ExtractDrive(target) = target.root /\ ExtractDrive(current) # ExtractDrive(target)
  BY <1>1 DEF JumpTo, RootJump, ExtractDrive
<1>3. Moving(target, target.root, 0, Descent(target))
  BY <1>2, Zenon DEF JumpTo
<1>4. ~TrailingSlash(target)
  <2>1. target.parts \in Seq(Names \cup {""})
    BY TargetsAssumption DEF Path
  <2>2. target.parts # <<>> => Len(target.parts) \in DOMAIN target.parts
    <3>1. /\ Len(target.parts) \in Nat /\ DOMAIN target.parts = 1..Len(target.parts)
          /\ target.parts # <<>> => Len(target.parts) # 0
      BY <2>1, LenProperties, EmptySeq
    <3>2. QED
      BY <3>1
  <2>3. QED
    BY <2>2, Zenon DEF TrailingSlash, Whole
<1>5. Descent(target) = target.parts
  BY <1>4 DEF Descent
<1>6. /\ nav'.pc = "moving" /\ nav'.target = target /\ nav'.select = target.root
      /\ nav'.ups = 0 /\ nav'.downs = target.parts
  BY <1>3, <1>5 DEF Moving
<1>7. QED
  BY <1>1, <1>6 DEF Split

LEMMA UpCourse ==
  ASSUME TypeOK, OnCourse, FtpCdUp
  PROVE  /\ OnCourse' /\ nav'.pc = "moving" /\ nav'.select = "" /\ nav'.target = nav.target
         /\ cwd' = SubSeq(cwd, 1, Len(cwd) - 1) /\ cwd # <<>>
<1>0. nav.select = "" /\ nav.pc = "moving"
  BY DEF FtpCdUp, UpNext
<1>1. nav.ups \in Nat /\ 0 < nav.ups
  BY DEF FtpCdUp, UpNext, TypeOK
<1>2. /\ nav.ups <= Len(cwd)
      /\ SubSeq(cwd, 1, Len(cwd) - nav.ups) \o nav.downs = Split(nav.target)
  BY DEF OnCourse
<1>3. cwd \in Seq(Part) /\ Len(cwd) \in Nat
  BY DirParts, LenProperties DEF TypeOK
<1>4. nav.ups <= Len(cwd)
  BY <1>2
<1>5. /\ Up(cwd) = SubSeq(cwd, 1, Len(cwd) - 1)
      /\ Len(Up(cwd)) = Len(cwd) - 1
      /\ SubSeq(Up(cwd), 1, Len(Up(cwd)) - (nav.ups - 1)) = SubSeq(cwd, 1, Len(cwd) - nav.ups)
  BY <1>1, <1>3, <1>4, UpStep
<1>6. cwd' = Up(cwd)
  <2>1. nav.ups # 0
    BY <1>1
  <2>2. QED
    BY <1>0, <2>1, Zenon DEF FtpCdUp, Moved, Destination, SelectNext, DownNext
<1>7. /\ nav'.ups = nav.ups - 1 /\ nav'.pc = "moving" /\ nav'.select = ""
      /\ nav'.downs = nav.downs /\ nav'.target = nav.target
  BY <1>0 DEF FtpCdUp, TypeOK
<1>8. nav.ups - 1 <= Len(Up(cwd))
  <2>1. nav.ups - 1 <= Len(cwd) - 1
    BY <1>1, <1>3, <1>4, LessOne
  <2>2. QED
    BY <1>5, <2>1, Zenon
<1>9. SubSeq(Up(cwd), 1, Len(Up(cwd)) - (nav.ups - 1)) \o nav.downs = Split(nav.target)
  BY <1>2, <1>5, Zenon
<1>10. cwd # <<>>
  BY <1>1, <1>3, <1>4, EmptySeq
<1>11. QED
  BY <1>5, <1>6, <1>7, <1>8, <1>9, <1>10 DEF OnCourse

LEMMA DownCourse ==
  ASSUME TypeOK, OnCourse, FtpCdDown,
         \A i \in DOMAIN Split(nav.target) : Split(nav.target)[i] # ""
  PROVE  /\ OnCourse' /\ nav'.pc = "moving" /\ nav'.select = "" /\ nav'.target = nav.target
         /\ nav'.ups = 0
<1>1. /\ nav.pc = "moving" /\ nav.select = "" /\ nav.ups = 0 /\ nav.downs # <<>>
      /\ SubSeq(cwd, 1, Len(cwd) - 0) \o nav.downs = Split(nav.target)
  BY DEF FtpCdDown, DownNext, OnCourse
<1>2. cwd \in Seq(Part) /\ nav.downs \in Seq(Part) /\ Len(cwd) \in Nat
  BY DirParts, LenProperties DEF TypeOK, Part
<1>3. cwd \o nav.downs = Split(nav.target)
  <2>1. Len(cwd) - 0 = Len(cwd)
    BY <1>2, MinusZero, Zenon
  <2>2. SubSeq(cwd, 1, Len(cwd)) = cwd
    BY <1>2, SubSeqFull
  <2>3. QED
    BY <1>1, <2>1, <2>2, Zenon
<1> DEFINE d == Append(cwd, Head(nav.downs))
<1>4. /\ d \in Seq(Part) /\ d \o Tail(nav.downs) = cwd \o nav.downs
      /\ Head(nav.downs) = (cwd \o nav.downs)[Len(cwd) + 1]
      /\ Len(cwd) + 1 \in 1..Len(cwd \o nav.downs)
  BY <1>1, <1>2, DownStep
<1>5. Head(nav.downs) # ""
  <2>1. cwd \o nav.downs \in Seq(Part)
    BY <1>2, ConcatProperties
  <2>2. Len(cwd) + 1 \in DOMAIN (cwd \o nav.downs)
    BY <1>4, <2>1, LenProperties
  <2>3. QED
    BY <1>3, <1>4, <2>2
<1>6. cwd' = d
  BY <1>1, <1>5 DEF FtpCdDown, Moved, Destination, SelectNext, DownNext, Into
<1>7. /\ nav'.ups = 0 /\ nav'.pc = "moving" /\ nav'.select = ""
      /\ nav'.downs = Tail(nav.downs) /\ nav'.target = nav.target
  BY <1>1 DEF FtpCdDown, TypeOK
<1> HIDE DEF d
<1>8. Len(d) - 0 = Len(d) /\ SubSeq(d, 1, Len(d)) = d
  BY <1>4, LenProperties, SubSeqFull, MinusZero, Zenon
<1>9. 0 <= Len(d)
  BY <1>4, LenProperties, MinusZero, Zenon
<1>10. SubSeq(d, 1, Len(d) - 0) \o Tail(nav.downs) = Split(nav.target)
  BY <1>3, <1>4, <1>8, Zenon
<1>11. QED
  BY <1>6, <1>7, <1>9, <1>10 DEF OnCourse

\* With nothing left to send the session is at the target.
LEMMA ArriveCourse ==
  ASSUME TypeOK, OnCourse, Arrive
  PROVE  cwd = Split(nav.target)
<1>1. SubSeq(cwd, 1, Len(cwd) - 0) \o <<>> = Split(nav.target)
  BY DEF Arrive, OnCourse
<1>2. cwd \in Seq(Part) /\ Len(cwd) \in Nat
  BY DirParts, LenProperties DEF TypeOK
<1>3. SubSeq(cwd, 1, Len(cwd) - 0) = cwd
  BY <1>2, SubSeqFull
<1>4. cwd \o <<>> = cwd
  BY <1>2, ConcatEmptySeq
<1>5. QED
  BY <1>1, <1>3, <1>4

LEMMA Single ==
  ASSUME NEW S, NEW e \in S
  PROVE  <<e>> \in Seq(S) /\ Len(<<e>>) = 1 /\ <<e>>[1] = e
OBVIOUS

\* A name in front of names.
LEMMA ConsNames ==
  ASSUME NEW S, NEW none, NEW e \in S, NEW s \in Seq(S), e # none, \A i \in DOMAIN s : s[i] # none
  PROVE  \A i \in DOMAIN (<<e>> \o s) : (<<e>> \o s)[i] # none
<1> DEFINE q == <<e>>
<1>1. q \in Seq(S) /\ Len(q) = 1 /\ q[1] = e
  BY Single, Zenon
<1> HIDE DEF q
<1>2. /\ q \o s \in Seq(S) /\ Len(q \o s) = 1 + Len(s)
      /\ \A i \in 1..1 + Len(s) : (q \o s)[i] = IF i <= 1 THEN q[i] ELSE s[i - 1]
  BY <1>1, ConcatProperties, SMTT(30)
<1>3. Len(s) \in Nat /\ DOMAIN s = 1..Len(s) /\ DOMAIN (q \o s) = 1..1 + Len(s)
  BY <1>2, LenProperties
<1>4. ASSUME NEW i \in 1..1 + Len(s) PROVE (q \o s)[i] # none
  <2>1. CASE i = 1
    BY <1>1, <1>2, <1>3, <2>1
  <2>2. CASE i # 1
    <3>1. i - 1 \in 1..Len(s) /\ ~(i <= 1)
      BY <1>3, <2>2
    <3>2. QED
      BY <1>2, <1>3, <3>1
  <2>3. QED
    BY <2>1, <2>2
<1>5. QED
  BY <1>3, <1>4 DEF q

\* A path without empty components is split into non-empty ones.
LEMMA WholeSplit ==
  ASSUME NEW p \in Path, Whole(p)
  PROVE  \A i \in DOMAIN Split(p) : Split(p)[i] # ""
<1>1. p.parts \in Seq(Names \cup {""}) /\ Names \cup {""} \subseteq Part
  BY DEF Path, Part
<1>2. p.parts \in Seq(Part)
  BY <1>1, SeqMonotonic
<1>3. \A i \in DOMAIN p.parts : p.parts[i] # ""
  BY DEF Whole
<1>4. CASE p.root \in Drives
  <2>1. p.root \in Part /\ p.root # ""
    BY <1>4, NamesAssumption DEF Part
  <2>2. \A i \in DOMAIN (<<p.root>> \o p.parts) : (<<p.root>> \o p.parts)[i] # ""
    BY <1>2, <1>3, <2>1, ConsNames, Zenon
  <2>3. QED
    BY <1>4, <2>2, Zenon DEF Split
<1>5. CASE p.root \notin Drives
  BY <1>3, <1>5, Zenon DEF Split
<1>6. QED
  BY <1>4, <1>5

\* A probe goes one level down ...
LEMMA ProbeCourse ==
  ASSUME TypeOK, NEW name \in Names, ProbeEnters(name)
  PROVE  /\ cwd' # <<>> /\ SubSeq(cwd', 1, Len(cwd') - 1) = cwd
         /\ nav.pc = "idle" /\ nav'.pc = "restoring" /\ current' = current
<1>1. name # "" /\ name \in Part
  BY NamesAssumption DEF Part
<1>2. cwd \in Seq(Part) /\ Len(cwd) \in Nat
  BY DirParts, LenProperties DEF TypeOK
<1> DEFINE d == Append(cwd, name)
<1>3. d # <<>> /\ SubSeq(d, 1, Len(d) - 1) = cwd
  BY <1>1, <1>2, FrontAppended, Zenon
<1>4. cwd' = d /\ nav.pc = "idle" /\ nav'.pc = "restoring" /\ current' = current
  BY <1>1 DEF ProbeEnters, Probing, Into, TypeOK
<1> HIDE DEF d
<1>5. QED
  BY <1>3, <1>4

\* ... and the ".." after it comes back.
LEMMA RestoreCourse ==
  ASSUME TypeOK, cwd # <<>>, Restore
  PROVE  /\ cwd' = SubSeq(cwd, 1, Len(cwd) - 1)
         /\ nav.pc = "restoring" /\ nav'.pc = "idle" /\ current' = current
<1>1. nav.pc = "restoring"
  BY DEF Restore, Restoring
<1>2. cwd' = Up(cwd) /\ nav'.pc = "idle" /\ current' = current
  BY <1>1 DEF Restore, Moved, Destination, SelectNext, DownNext, TypeOK
<1>3. QED
  BY <1>1, <1>2 DEF Up

\* Going up from an ancestor leads to an ancestor.
LEMMA AncestorUp ==
  ASSUME NEW S, NEW dir \in Seq(S), NEW of \in Seq(S), dir # <<>>, IsAncestor(dir, of)
  PROVE  IsAncestor(SubSeq(dir, 1, Len(dir) - 1), of)
<1>1. /\ Len(dir) \in Nat /\ Len(of) \in Nat /\ Len(dir) # 0
      /\ Len(dir) <= Len(of) /\ SubSeq(of, 1, Len(dir)) = dir
  BY LenProperties, EmptySeq DEF IsAncestor
<1> DEFINE m == Len(dir)
           n == Len(dir) - 1
           up == SubSeq(dir, 1, n)
<1>2. m \in 0..Len(of) /\ n \in 0..m /\ n <= Len(of)
  BY <1>1
<1>3. Len(up) = n
  BY <1>2, Prefix
<1> HIDE DEF m, n
<1>4. SubSeq(SubSeq(of, 1, m), 1, n) = SubSeq(of, 1, n)
  BY <1>2, PrefixOfPrefix
<1>5. up = SubSeq(of, 1, n)
  BY <1>1, <1>4 DEF m
<1> HIDE DEF up
<1>6. IsAncestor(up, of)
  BY <1>2, <1>3, <1>5 DEF IsAncestor
<1>7. QED
  BY <1>6 DEF up, n

-----------------------------------------------------------------------------
(* Plain paths.                                                            *)

\* A call between plain paths is a walk.
LEMMA PlainWalk ==
  ASSUME TypeOK, PlainCall, InSync, plain', ~failed,
         NEW target \in Targets, ChangeDirectory(target)
  PROVE  WalkTo(target) /\ cwd = Split(current) /\ current' = current
<1>1. Called(target)
  BY Zenon DEF ChangeDirectory, JumpTo, WalkTo
<1>2. plain /\ target.root = "/" /\ nav.pc = "idle" /\ current' = current
  BY <1>1, Zenon DEF Called, IsPlain
<1>3. cwd = Split(current) /\ current.root = "/" /\ "/" \notin Drives
  BY <1>2, NamesAssumption DEF PlainCall, InSync
<1>4. ~RootJump(target)
  BY <1>2, <1>3 DEF RootJump, ExtractDrive
<1>5. QED
  BY <1>2, <1>3, <1>4 DEF ChangeDirectory, JumpTo

LEMMA SyncNext ==
  TypeOK /\ PlainCall /\ InSync /\ [Next]_vars => InSync'
<1> SUFFICES ASSUME TypeOK, PlainCall, InSync, [Next]_vars, plain', ~failed'
             PROVE  InSync'
  BY DEF InSync
<1>1. CASE CommandFails \/ RestoreFails
  BY <1>1 DEF CommandFails, RestoreFails
<1>2. ASSUME NEW name \in Names, ProbeLost(name)
      PROVE  InSync'
  BY <1>2 DEF ProbeLost
<1>3. CASE UNCHANGED vars
  BY <1>3 DEF vars, InSync
<1>4. ASSUME NEW target \in Targets, ChangeDirectory(target)
      PROVE  InSync'
  <2>1. ~failed
    BY <1>4 DEF ChangeDirectory, JumpTo, WalkTo, Called
  <2>2. OnCourse' /\ nav'.pc = "moving" /\ nav'.select = ""
    BY <1>4, <2>1, PlainWalk, WalkCourse
  <2>3. QED
    BY <2>2 DEF InSync, OnCourse
<1>5. CASE FtpSelectDrive
  <2>1. nav.pc = "moving" /\ nav.select # "" /\ plain /\ ~failed
    BY <1>5 DEF FtpSelectDrive, SelectNext, Moved
  <2>2. QED
    BY <2>1 DEF InSync
<1>6. CASE FtpCdUp
  <2>1. plain /\ ~failed /\ nav.pc = "moving"
    BY <1>6 DEF FtpCdUp, UpNext, Moved
  <2>2. OnCourse
    BY <2>1 DEF InSync, OnCourse
  <2>3. OnCourse' /\ nav'.pc = "moving" /\ nav'.select = ""
    BY <1>6, <2>2, UpCourse
  <2>4. QED
    BY <2>3 DEF InSync, OnCourse
<1>7. CASE FtpCdDown
  <2>1. plain /\ ~failed /\ nav.pc = "moving"
    BY <1>7 DEF FtpCdDown, DownNext, Moved
  <2>2. OnCourse
    BY <2>1 DEF InSync, OnCourse
  <2>3. \A i \in DOMAIN Split(nav.target) : Split(nav.target)[i] # ""
    <3>1. nav.target \in Path /\ Whole(nav.target)
      BY <2>1 DEF TypeOK, PlainCall, IsPlain, Whole
    <3>2. QED
      BY <3>1, WholeSplit
  <2>4. OnCourse' /\ nav'.pc = "moving" /\ nav'.select = ""
    BY <1>7, <2>2, <2>3, DownCourse
  <2>5. QED
    BY <2>4 DEF InSync, OnCourse
<1>8. CASE Arrive
  <2>1. /\ plain /\ ~failed /\ nav.pc = "moving"
        /\ nav'.pc = "idle" /\ cwd' = cwd /\ current' = nav.target
    BY <1>8 DEF Arrive, TypeOK
  <2>2. OnCourse
    BY <2>1 DEF InSync, OnCourse
  <2>3. QED
    BY <1>8, <2>1, <2>2, ArriveCourse DEF InSync
<1>9. ASSUME NEW name \in Names, ProbeEnters(name)
      PROVE  InSync'
  <2>1. plain /\ ~failed
    BY <1>9 DEF ProbeEnters, Probing
  <2>2. QED
    BY <1>9, <2>1, ProbeCourse DEF InSync
<1>10. CASE ProbeRefused
  <2>1. /\ plain /\ ~failed /\ nav.pc = "idle" /\ nav'.pc = "idle"
        /\ cwd' = cwd /\ current' = current
    BY <1>10 DEF ProbeRefused, Probing, TypeOK
  <2>2. QED
    BY <2>1 DEF InSync
<1>11. CASE Restore
  <2>1. plain /\ ~failed /\ nav.pc = "restoring"
    BY <1>11 DEF Restore, Restoring, Moved
  <2>2. cwd # <<>> /\ SubSeq(cwd, 1, Len(cwd) - 1) = Split(current)
    BY <2>1 DEF InSync
  <2>3. QED
    BY <1>11, <2>2, RestoreCourse DEF InSync
<1>12. QED
  BY <1>1, <1>2, <1>3, <1>4, <1>5, <1>6, <1>7, <1>8, <1>9, <1>10, <1>11 DEF Next

LEMMA ClimbingNext ==
  TypeOK /\ PlainCall /\ InSync /\ Climbing /\ [Next]_vars => Climbing'
<1> SUFFICES ASSUME TypeOK, PlainCall, InSync, Climbing, [Next]_vars,
                    plain', ~failed', nav'.pc = "moving", nav'.ups > 0
             PROVE  IsAncestor(cwd', Split(current'))
  BY DEF Climbing, Split
<1>1. ASSUME NEW target \in Targets, ChangeDirectory(target)
      PROVE  IsAncestor(cwd', Split(current'))
  <2>1. ~failed
    BY <1>1 DEF ChangeDirectory, JumpTo, WalkTo, Called
  <2>2. cwd' = cwd /\ cwd = Split(current) /\ current' = current
    BY <1>1, <2>1, PlainWalk, WalkCourse
  <2>3. cwd \in Seq(Part)
    BY DirParts DEF TypeOK
  <2>4. Len(cwd) <= Len(cwd)
    BY <2>3, LenProperties
  <2>5. SubSeq(cwd, 1, Len(cwd)) = cwd
    BY <2>3, SubSeqFull
  <2>6. QED
    BY <2>2, <2>4, <2>5, Zenon DEF IsAncestor
<1>2. CASE FtpCdUp
  <2>1. plain /\ ~failed /\ nav.pc = "moving" /\ nav.ups > 0 /\ current' = current
    BY <1>2 DEF FtpCdUp, UpNext, Moved
  <2>2. OnCourse
    BY <2>1 DEF InSync, OnCourse
  <2>3. cwd' = SubSeq(cwd, 1, Len(cwd) - 1) /\ cwd # <<>>
    BY <1>2, <2>2, UpCourse
  <2>4. IsAncestor(cwd, Split(current))
    BY <2>1 DEF Climbing
  <2>5. cwd \in Seq(Part) /\ Split(current) \in Seq(Part)
    BY DirParts, PathParts DEF TypeOK
  <2>6. IsAncestor(SubSeq(cwd, 1, Len(cwd) - 1), Split(current))
    BY <2>3, <2>4, <2>5, AncestorUp
  <2>7. QED
    BY <2>1, <2>3, <2>6
<1>3. CASE FtpSelectDrive
  <2>1. nav.pc = "moving" /\ nav.select # "" /\ plain /\ ~failed
    BY <1>3 DEF FtpSelectDrive, SelectNext, Moved
  <2>2. QED
    BY <2>1 DEF InSync
<1>4. CASE FtpCdDown
  <2>1. nav'.ups = 0
    BY <1>4 DEF FtpCdDown, DownNext, TypeOK
  <2>2. QED
    BY <2>1
<1>5. CASE Arrive \/ Restore
  BY <1>5 DEF Arrive, Restore, TypeOK
<1>6. CASE CommandFails \/ RestoreFails
  BY <1>6 DEF CommandFails, RestoreFails
<1>7. ASSUME NEW name \in Names, ProbeEnters(name) \/ ProbeLost(name)
      PROVE  FALSE
  BY <1>7 DEF ProbeEnters, ProbeLost, TypeOK
<1>8. CASE ProbeRefused
  BY <1>8 DEF ProbeRefused, Probing, TypeOK
<1>9. CASE UNCHANGED vars
  <2>1. plain /\ ~failed /\ nav.pc = "moving" /\ nav.ups > 0 /\ cwd' = cwd /\ current' = current
    BY <1>9 DEF vars
  <2>2. QED
    BY <2>1 DEF Climbing
<1>10. QED
  BY <1>1, <1>2, <1>3, <1>4, <1>5, <1>6, <1>7, <1>8, <1>9 DEF Next

\* The common prefix that changeDirectory looks for is the longest one.
LEMMA LongestShared ==
  ASSUME NEW s \in Seq(Part), NEW t \in Seq(Part), NEW common \in 0..Len(s),
         CommonPrefix(s, t, common),
         NEW n \in 0..Len(s), Shared(s, t, n)
  PROVE  n <= common
<1>1. Len(s) \in Nat /\ Len(t) \in Nat
  BY LenProperties
<1>2. SUFFICES ASSUME common < n
               PROVE  FALSE
  BY <1>1
<1>3. common < Len(s) /\ common < Len(t) /\ common + 1 \in 1..n
  BY <1>1, <1>2 DEF Shared
<1>4. s[common + 1] # t[common + 1]
  BY <1>3 DEF CommonPrefix
<1>5. QED
  BY <1>3, <1>4 DEF Shared

LEMMA TurningNext ==
  TypeOK /\ PlainCall /\ InSync /\ Turning /\ [Next]_vars => Turning'
<1> SUFFICES ASSUME TypeOK, PlainCall, InSync, Turning, [Next]_vars,
                    plain', ~failed', nav'.pc = "moving",
                    NEW n \in 0..Len(Split(current')),
                    Shared(Split(current'), Split(nav'.target), n)
             PROVE  n <= Len(cwd') - nav'.ups
  BY DEF Turning, Split
<1>0. cwd \in Seq(Part) /\ Len(cwd) \in Nat /\ nav.ups \in Nat
  BY DirParts, LenProperties DEF TypeOK
<1>1. ASSUME NEW target \in Targets, ChangeDirectory(target)
      PROVE  n <= Len(cwd') - nav'.ups
  <2>1. ~failed
    BY <1>1 DEF ChangeDirectory, JumpTo, WalkTo, Called
  <2>2. WalkTo(target) /\ cwd = Split(current) /\ current' = current
    BY <1>1, <2>1, PlainWalk
  <2>3. cwd' = cwd /\ nav'.target = target
    BY <2>2, WalkCourse
  <2> DEFINE s == Split(current)
             t == Split(target)
  <2>4. s \in Seq(Part) /\ t \in Seq(Part)
    BY PathParts, TargetsAssumption DEF TypeOK
  <2>5. PICK common \in 0..Len(s) :
          /\ CommonPrefix(s, t, common)
          /\ Moving(target, "", Len(s) - common, SubSeq(t, common + 1, Len(t)))
    BY <2>2 DEF WalkTo
  <2>6. nav'.ups = Len(s) - common
    BY <2>5 DEF Moving
  <2>7. n \in 0..Len(s) /\ Shared(s, t, n) /\ cwd' = s
    BY <2>2, <2>3
  <2> HIDE DEF s, t
  <2>8. n <= common
    BY <2>4, <2>5, <2>7, LongestShared
  <2>9. Len(s) \in Nat
    BY <2>4, LenProperties
  <2>10. QED
    BY <2>6, <2>7, <2>8, <2>9
<1>2. CASE FtpCdUp
  <2>1. plain /\ ~failed /\ nav.pc = "moving" /\ nav.ups > 0 /\ current' = current
    BY <1>2 DEF FtpCdUp, UpNext, Moved
  <2>2. OnCourse
    BY <2>1 DEF InSync, OnCourse
  <2>3. cwd' = SubSeq(cwd, 1, Len(cwd) - 1) /\ cwd # <<>> /\ nav'.target = nav.target
    BY <1>2, <2>2, UpCourse
  <2>4. nav'.ups = nav.ups - 1
    BY <1>2 DEF FtpCdUp, TypeOK
  <2>5. Len(cwd) - 1 \in 0..Len(cwd)
    BY <1>0, <2>3, EmptySeq
  <2>6. Len(cwd') = Len(cwd) - 1
    BY <1>0, <2>3, <2>5, Prefix
  <2>7. n <= Len(cwd) - nav.ups
    BY <2>1, <2>3 DEF Turning
  <2>8. n \in Int
    OBVIOUS
  <2>9. QED
    BY <1>0, <2>4, <2>6, <2>7, <2>8
<1>3. CASE FtpSelectDrive
  <2>1. nav.pc = "moving" /\ nav.select # "" /\ plain /\ ~failed
    BY <1>3 DEF FtpSelectDrive, SelectNext, Moved
  <2>2. QED
    BY <2>1 DEF InSync
<1>4. CASE FtpCdDown
  <2>1. /\ plain /\ ~failed /\ nav.pc = "moving" /\ nav.ups = 0 /\ current' = current
        /\ nav.select = "" /\ nav.downs # <<>>
    BY <1>4 DEF FtpCdDown, DownNext, Moved
  <2>2. nav'.ups = 0 /\ nav'.target = nav.target
    BY <1>4, <2>1 DEF FtpCdDown, TypeOK
  <2>3. cwd' = Into(cwd, Head(nav.downs))
    BY <1>4, <2>1 DEF FtpCdDown, Moved, Destination, SelectNext, DownNext
  <2>4. Len(cwd') \in Nat /\ Len(cwd) <= Len(cwd')
    <3>1. CASE Head(nav.downs) = ""
      <4>1. cwd' = cwd
        BY <2>3, <3>1, Zenon DEF Into
      <4>2. QED
        BY <1>0, <4>1
    <3>2. CASE Head(nav.downs) # ""
      <4>1. Head(nav.downs) \in Part
        BY <2>1, HeadTailProperties DEF TypeOK, Part
      <4>2. cwd' = Append(cwd, Head(nav.downs))
        BY <2>3, <3>2 DEF Into
      <4>3. Len(cwd') = Len(cwd) + 1
        BY <1>0, <4>1, <4>2, AppendProperties
      <4>4. QED
        BY <1>0, <4>3
    <3>3. QED
      BY <3>1, <3>2
  <2>5. n <= Len(cwd) - nav.ups
    BY <2>1, <2>2 DEF Turning
  <2>6. n \in Int
    OBVIOUS
  <2>7. Len(cwd) - nav.ups = Len(cwd) /\ Len(cwd') - nav'.ups = Len(cwd')
    <3>1. Len(cwd) - 0 = Len(cwd) /\ Len(cwd') - 0 = Len(cwd')
      BY <1>0, <2>4, MinusZero, Zenon
    <3>2. QED
      BY <2>1, <2>2, <3>1, Zenon
  <2>8. n <= Len(cwd)
    BY <2>5, <2>7, Zenon
  <2>9. n <= Len(cwd')
    BY <1>0, <2>4, <2>6, <2>8
  <2>10. QED
    BY <2>7, <2>9, Zenon
<1>5. CASE Arrive \/ Restore
  BY <1>5 DEF Arrive, Restore, TypeOK
<1>6. CASE CommandFails \/ RestoreFails
  BY <1>6 DEF CommandFails, RestoreFails
<1>7. ASSUME NEW name \in Names, ProbeEnters(name) \/ ProbeLost(name)
      PROVE  FALSE
  BY <1>7 DEF ProbeEnters, ProbeLost, Probing, TypeOK
<1>8. CASE ProbeRefused
  BY <1>8 DEF ProbeRefused, Probing, TypeOK
<1>9. CASE UNCHANGED vars
  BY <1>9 DEF vars, Turning
<1>10. QED
  BY <1>1, <1>2, <1>3, <1>4, <1>5, <1>6, <1>7, <1>8, <1>9 DEF Next

-----------------------------------------------------------------------------
(* Paths on a drive.                                                       *)

LEMMA DriveNext ==
  TypeOK /\ TidyCall /\ DriveSync /\ [Next]_vars => DriveSync'
<1> SUFFICES ASSUME TypeOK, TidyCall, DriveSync, [Next]_vars, tidy', ~failed'
             PROVE  DriveSync'
  BY DEF DriveSync
<1>1. CASE CommandFails \/ RestoreFails
  BY <1>1 DEF CommandFails, RestoreFails
<1>2. ASSUME NEW name \in Names, ProbeLost(name)
      PROVE  DriveSync'
  BY <1>2 DEF ProbeLost
<1>3. CASE UNCHANGED vars
  BY <1>3 DEF vars, DriveSync, OnCourse
<1>4. ASSUME NEW target \in Targets, ChangeDirectory(target)
      PROVE  DriveSync'
  <2>1. Called(target)
    BY <1>4, Zenon DEF ChangeDirectory, JumpTo, WalkTo
  <2>2. /\ tidy /\ ~failed /\ nav.pc = "idle" /\ current' = current
        /\ target.root \in Drives => ~TrailingSlash(target)
    BY <2>1, Zenon DEF Called
  <2>3. nav'.pc = "moving" /\ nav'.target = target
    <3>1. PICK select, ups, downs : Moving(target, select, ups, downs)
      BY <1>4, Zenon DEF ChangeDirectory, JumpTo, WalkTo
    <3>2. QED
      BY <3>1 DEF Moving
  <2>4. ASSUME target.root \in Drives
        PROVE  IF nav'.select = "" THEN OnCourse'
               ELSE nav'.ups = 0 /\ <<nav'.select>> \o nav'.downs = Split(target)
    <3>1. CASE JumpTo(target)
      BY <2>2, <2>4, <3>1, WholeTarget, JumpCourse
    <3>2. CASE WalkTo(target)
      <4>1. ExtractDrive(current) = ExtractDrive(target) /\ target.root # ""
        BY <2>4, <3>2, NamesAssumption DEF WalkTo, RootJump
      <4>2. current.root \in Drives
        BY <2>4, <4>1 DEF ExtractDrive
      <4>3. cwd = Split(current)
        BY <2>2, <4>2 DEF DriveSync
      <4>4. QED
        BY <3>2, <4>3, WalkCourse
    <3>3. QED
      BY <1>4, <3>1, <3>2 DEF ChangeDirectory
  <2>5. QED
    BY <2>3, <2>4 DEF DriveSync, Split
<1>5. CASE FtpSelectDrive
  <2>1. /\ nav.pc = "moving" /\ nav.select # "" /\ tidy /\ ~failed
        /\ cwd' = <<nav.select>>
    BY <1>5 DEF FtpSelectDrive, SelectNext, Moved, Destination
  <2>2. /\ nav'.pc = "moving" /\ nav'.select = "" /\ nav'.ups = nav.ups
        /\ nav'.downs = nav.downs /\ nav'.target = nav.target
    BY <1>5, <2>1 DEF FtpSelectDrive, TypeOK
  <2>3. ASSUME nav.target.root \in Drives PROVE OnCourse'
    <3>1. nav.ups = 0 /\ <<nav.select>> \o nav.downs = Split(nav.target)
      BY <2>1, <2>3 DEF DriveSync
    <3> DEFINE q == <<nav.select>>
    <3>2. q \in Seq({nav.select}) /\ Len(q) = 1
      OBVIOUS
    <3> HIDE DEF q
    <3>3. SubSeq(q, 1, Len(q) - 0) = q /\ 0 <= Len(q)
      BY <3>2, SubSeqFull
    <3>4. cwd' = q /\ nav'.ups = 0 /\ q \o nav'.downs = Split(nav'.target)
      BY <2>1, <2>2, <3>1 DEF q
    <3>5. QED
      BY <3>3, <3>4 DEF OnCourse
  <2>4. QED
    BY <2>2, <2>3 DEF DriveSync
<1>6. CASE FtpCdUp
  <2>1. tidy /\ ~failed /\ nav.pc = "moving" /\ nav.select = ""
    BY <1>6 DEF FtpCdUp, UpNext, Moved
  <2>2. /\ nav'.pc = "moving" /\ nav'.select = "" /\ nav'.target = nav.target
    BY <1>6, <2>1 DEF FtpCdUp, TypeOK
  <2>3. ASSUME nav.target.root \in Drives PROVE OnCourse'
    <3>1. OnCourse
      BY <2>1, <2>3 DEF DriveSync
    <3>2. QED
      BY <1>6, <3>1, UpCourse
  <2>4. QED
    BY <2>2, <2>3 DEF DriveSync
<1>7. CASE FtpCdDown
  <2>1. tidy /\ ~failed /\ nav.pc = "moving" /\ nav.select = ""
    BY <1>7 DEF FtpCdDown, DownNext, Moved
  <2>2. /\ nav'.pc = "moving" /\ nav'.select = "" /\ nav'.target = nav.target
    BY <1>7, <2>1 DEF FtpCdDown, TypeOK
  <2>3. ASSUME nav.target.root \in Drives PROVE OnCourse'
    <3>1. OnCourse
      BY <2>1, <2>3 DEF DriveSync
    <3>2. nav.target \in Path /\ Whole(nav.target)
      BY <2>1, <2>3 DEF TypeOK, TidyCall
    <3>3. \A i \in DOMAIN Split(nav.target) : Split(nav.target)[i] # ""
      BY <3>2, WholeSplit
    <3>4. QED
      BY <1>7, <3>1, <3>3, DownCourse
  <2>4. QED
    BY <2>2, <2>3 DEF DriveSync
<1>8. CASE Arrive
  <2>1. /\ tidy /\ ~failed /\ nav.pc = "moving" /\ nav.select = ""
        /\ nav'.pc = "idle" /\ cwd' = cwd /\ current' = nav.target
    BY <1>8 DEF Arrive, TypeOK
  <2>2. ASSUME nav.target.root \in Drives PROVE cwd = Split(nav.target)
    <3>1. OnCourse
      BY <2>1, <2>2 DEF DriveSync
    <3>2. QED
      BY <1>8, <3>1, ArriveCourse
  <2>3. QED
    BY <2>1, <2>2 DEF DriveSync
<1>9. ASSUME NEW name \in Names, ProbeEnters(name)
      PROVE  DriveSync'
  <2>1. tidy /\ ~failed
    BY <1>9 DEF ProbeEnters, Probing
  <2>2. QED
    BY <1>9, <2>1, ProbeCourse DEF DriveSync
<1>10. CASE ProbeRefused
  <2>1. /\ tidy /\ ~failed /\ nav.pc = "idle" /\ nav'.pc = "idle"
        /\ cwd' = cwd /\ current' = current
    BY <1>10 DEF ProbeRefused, Probing, TypeOK
  <2>2. QED
    BY <2>1 DEF DriveSync
<1>11. CASE Restore
  <2>1. tidy /\ ~failed /\ nav.pc = "restoring" /\ nav'.pc = "idle" /\ current' = current
    BY <1>11 DEF Restore, Restoring, Moved, TypeOK
  <2>2. ASSUME current.root \in Drives PROVE cwd' = Split(current)
    <3>1. cwd # <<>> /\ SubSeq(cwd, 1, Len(cwd) - 1) = Split(current)
      BY <2>1, <2>2 DEF DriveSync
    <3>2. QED
      BY <1>11, <3>1, RestoreCourse
  <2>3. QED
    BY <2>1, <2>2 DEF DriveSync
<1>12. QED
  BY <1>1, <1>2, <1>3, <1>4, <1>5, <1>6, <1>7, <1>8, <1>9, <1>10, <1>11 DEF Next

-----------------------------------------------------------------------------
(* Theorems.                                                               *)

LEMMA InvInit ==
  Init => Inv
<1> SUFFICES ASSUME Init
             PROVE  Inv
  OBVIOUS
<1>1. TypeOK
  BY TypeInit
<1>2. /\ nav.target.parts = <<>> /\ nav.target.root = "/" /\ nav.pc = "idle"
      /\ current.root = "/" /\ "/" \notin Drives
  BY NamesAssumption DEF Init, StartPath
<1>3. PlainCall
  <2>1. DOMAIN <<>> = {}
    OBVIOUS
  <2>2. QED
    BY <1>2, <2>1, Zenon DEF PlainCall, IsPlain
<1>4. InSync
  BY NamesAssumption DEF Init, InSync, Split, StartPath
<1>5. TidyCall /\ DriveSync /\ Climbing /\ Turning
  BY <1>2 DEF TidyCall, DriveSync, Climbing, Turning
<1>6. QED
  BY <1>1, <1>3, <1>4, <1>5 DEF Inv

\* The types, and where a call has got to, as one invariant.
THEOREM InvHolds == Spec => []Inv
<1>1. Inv /\ [Next]_vars => Inv'
  BY TypeNext, CallsNext, SyncNext, DriveNext, ClimbingNext, TurningNext DEF Inv
<1>2. QED
  BY InvInit, <1>1, PTL DEF Spec

\* As long as no command fails and only plain paths are asked for, changeDirectory
\* takes the session to its target, and the CWD probes leave it where it was, for any
\* server, any paths and any number of calls.
THEOREM Agreement == Spec => []InSync
<1>1. Inv => InSync
  BY DEF Inv
<1>2. QED
  BY InvHolds, <1>1, PTL

\* The navigation is minimal: on its way between plain paths the session is only
\* ever above the directory it left or above the one it goes to, and never above
\* their common ancestor.
THEOREM MinimalNavigation == Spec => []OnTheWay
<1>1. Inv => OnTheWay
  <2> SUFFICES ASSUME Inv, plain, ~failed, nav.pc = "moving"
               PROVE  /\ IsAncestor(cwd, Split(current)) \/ IsAncestor(cwd, Split(nav.target))
                      /\ \A n \in 0..Len(Split(current)) :
                           Shared(Split(current), Split(nav.target), n) => n <= Len(cwd)
    BY DEF OnTheWay
  <2>0. ASSUME NEW n \in 0..Len(Split(current)), Shared(Split(current), Split(nav.target), n)
        PROVE  n <= Len(cwd)
    <3>1. n <= Len(cwd) - nav.ups
      BY <2>0 DEF Inv, Turning
    <3>2. nav.ups \in Nat /\ cwd \in Dirs
      BY DEF Inv, TypeOK
    <3>3. Len(cwd) \in Nat
      BY <3>2, DirParts, LenProperties
    <3>4. n \in Int
      OBVIOUS
    <3>5. QED
      BY <3>1, <3>2, <3>3, <3>4
  <2>1. ASSUME nav.ups > 0
        PROVE  IsAncestor(cwd, Split(current))
    BY <2>1 DEF Inv, Climbing
  <2>2. ASSUME ~(nav.ups > 0)
        PROVE  IsAncestor(cwd, Split(nav.target))
    <3>1. /\ cwd \in Seq(Part) /\ nav.downs \in Seq(Part) /\ nav.ups = 0
          /\ SubSeq(cwd, 1, Len(cwd) - nav.ups) \o nav.downs = Split(nav.target)
      <4>1. cwd \in Dirs /\ nav.downs \in Seq(Part) /\ nav.ups \in Nat
        BY DEF Inv, TypeOK, Part
      <4>2. SubSeq(cwd, 1, Len(cwd) - nav.ups) \o nav.downs = Split(nav.target)
        BY DEF Inv, InSync
      <4>3. nav.ups = 0
        BY <2>2, <4>1
      <4>4. QED
        BY <4>1, <4>2, <4>3, DirParts
    <3>2. Len(cwd) \in Nat /\ Len(nav.downs) \in Nat
      BY <3>1, LenProperties
    <3>3. SubSeq(cwd, 1, Len(cwd) - nav.ups) = cwd
      <4>1. Len(cwd) - nav.ups = Len(cwd)
        BY <3>1, <3>2
      <4>2. QED
        BY <3>1, <4>1, SubSeqFull
    <3> DEFINE t == cwd \o nav.downs
    <3>4. t = Split(nav.target)
      BY <3>1, <3>3
    <3>5. /\ t \in Seq(Part) /\ Len(t) = Len(cwd) + Len(nav.downs)
          /\ \A i \in 1..Len(cwd) : t[i] = cwd[i]
      BY <3>1, <3>2, ConcatProperties
    <3> HIDE DEF t
    <3>6. Len(cwd) \in 0..Len(t)
      BY <3>2, <3>5
    <3>7. /\ SubSeq(t, 1, Len(cwd)) \in Seq(Part) /\ Len(SubSeq(t, 1, Len(cwd))) = Len(cwd)
          /\ \A i \in 1..Len(cwd) : SubSeq(t, 1, Len(cwd))[i] = t[i]
      BY <3>5, <3>6, Prefix
    <3>8. SubSeq(t, 1, Len(cwd)) = cwd
      BY <3>1, <3>5, <3>7, SeqEqual
    <3>9. IsAncestor(cwd, t)
      BY <3>6, <3>8 DEF IsAncestor
    <3>10. QED
      BY <3>4, <3>9
  <2>3. QED
    BY <2>0, <2>1, <2>2
<1>2. QED
  BY InvHolds, <1>1, PTL

\* Whatever was visited before, and whether or not that left the navigator out of
\* step with the session, a call that succeeds in reaching a path on a drive ends
\* there, and so does every later call on that drive.
THEOREM DriveReached == Spec => []SyncOnDrive
<1>1. Inv => SyncOnDrive
  <2> SUFFICES ASSUME Inv, nav.pc = "idle", ~failed, tidy, current.root \in Drives
               PROVE  cwd = Place(current)
    BY DEF SyncOnDrive
  <2>1. cwd = Split(current) /\ Whole(current) /\ current.parts \in Seq(Names \cup {""})
    BY DEF Inv, DriveSync, TidyCall, TypeOK, Path
  <2>2. current.parts # <<>> => Len(current.parts) \in DOMAIN current.parts
    <3>1. /\ Len(current.parts) \in Nat /\ DOMAIN current.parts = 1..Len(current.parts)
          /\ current.parts # <<>> => Len(current.parts) # 0
      BY <2>1, LenProperties, EmptySeq
    <3>2. QED
      BY <3>1
  <2>3. ~TrailingSlash(current)
    BY <2>1, <2>2, Zenon DEF TrailingSlash, Whole
  <2>4. QED
    BY <2>1, <2>3 DEF Place, Descent, Split
<1>2. QED
  BY InvHolds, <1>1, PTL

=============================================================================
