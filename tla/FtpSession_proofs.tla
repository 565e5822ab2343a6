-------------------------- MODULE FtpSession_proofs --------------------------
(***************************************************************************)
(* Why an FTP session stays in step, for every set of names, every server  *)
(* (whatever it refuses and whatever extensions it has) and any number of  *)
(* calls and reconnects.                                                   *)
(*                                                                         *)
(* InStep counts replies.  The argument needs to know which reply it is:   *)
(* the command on its way is the one the client waits at (Flow), and how   *)
(* far the session has got in a directory change or a probe (Whereabouts). *)
(***************************************************************************)
EXTENDS FtpSession, SequenceTheorems, FiniteSetTheorems, TLAPS

Nodes == Paths \cup {<<>>}
Steps == Names \cup {".."}
Kinds == {"none", "dir", "file", "cut"}
Codes == {0, 125, 150, 211, 213, 220, 226, 227, 230, 250, 257, 331, 421, 426, 550}
Openings == {150, 125}
Ends == Codes \ Openings

TransferVerbs == {"LIST", "RETR", "STOR"}
Verbs == {"USER", "PASS", "FEAT", "CWD", "MLST", "SIZE", "MKD", "DELE", "RMD", "PASV"} \cup TransferVerbs
Commands == [verb : Verbs, name : Steps \cup {""}]
Facts == {"", "none", "dir", "file", "endpoint", "garbage"}
Replies == [code : Codes, fact : Facts]
Sessions == [cwd : Nodes, cmds : Seq(Commands)]

\* Where the client stands when nothing is on its way, when it waits for a reply that
\* ends an exchange, and between the two replies of a transfer.
Resting == {"idle", "begin", "dial", "dial anywhere"}
Asking == {"greeting", "USER", "PASS", "FEAT", "CWD", "MLST", "SIZE", "enter", "leave",
           "create", "remove", "PASV"}
Transferring == {"data", "chunk", "completion"}

\* Where only list, read and write get to.
Fetching == {"PASV", "dial", "dial anywhere", "opening"} \cup Transferring
TransferApis == {"list", "read", "write"}

\* The command the client waits at.
AwaitedVerbs(at) ==
  CASE at = "greeting" -> {}
    [] at \in {"enter", "leave"} -> {"CWD"}
    [] at = "create" -> {"MKD"}
    [] at = "remove" -> {"RMD", "DELE"}
    [] at = "opening" -> TransferVerbs
    [] OTHER -> {at}

Ops == [api : Apis \cup {"none", "connect"}, path : Nodes,
        at : Resting \cup Asking \cup {"opening"} \cup Transferring,
        plan : Seq(Steps), user : BOOLEAN, pass : BOOLEAN, got : BOOLEAN, before : Kinds]

DataStates == {"none", "open", "stray", "whole", "cut", "broken"}
Answers == {"none", "ok", "cut", "true", "false", "error"}

ServerTypes ==
  /\ fs \in [Paths -> Kinds] /\ cwd \in Nodes /\ features \subseteq {"MLST", "SIZE"}
  /\ late \subseteq Sessions /\ \A s \in late : s.cmds # <<>>
LineTypes ==
  /\ dead \in BOOLEAN /\ replies \in Seq(Replies)
  /\ data \in DataStates
CallTypes ==
  /\ op \in Ops /\ (op.at = "idle" <=> op = NoOp)
  /\ op.at \in Fetching => op.api \in TransferApis
  /\ cmds \in Seq(Commands) /\ answer \in Answers
ClientTypes ==
  /\ up \in BOOLEAN /\ fault \in BOOLEAN /\ current \in Nodes
  /\ caps \subseteq {"MLST", "SIZE"} /\ calls \in 0..MaxCalls
Types == ServerTypes /\ LineTypes /\ CallTypes /\ ClientTypes

\* Nothing is on its way.
Clear == cmds = <<>> /\ replies = <<>> /\ xfer = NoXfer

\* A command on its way, or the one reply to it.
Asked(at) == \E c \in Commands : /\ c.verb \in AwaitedVerbs(at)
                                 /\ cmds = <<c>> /\ replies = <<>> /\ xfer = NoXfer
Answered == \E r \in Replies : /\ r.code \notin Openings
                               /\ cmds = <<>> /\ replies = <<r>> /\ xfer = NoXfer

\* What is on its way, for each place the client can wait at.
Flow ==
  /\ ~dead
  /\ op.at \in Resting => Clear
  /\ op.at \in Asking => Asked(op.at) \/ Answered
  /\ op.at \in Transferring =>
       \/ cmds = <<>> /\ replies = <<>> /\ xfer # NoXfer
       \/ Answered
  /\ op.at = "opening" =>
       \/ Asked("opening") \/ Answered
       \/ \E r \in Replies : /\ r.code \in Openings
                             /\ cmds = <<>> /\ replies = <<r>> /\ xfer # NoXfer
       \/ \E r \in Replies, e \in Replies :
            /\ r.code \in Openings /\ e.code \notin Openings
            /\ cmds = <<>> /\ replies = <<r, e>> /\ xfer = NoXfer

\* k times "..", then the components of goal behind the first kept.
Way(k, goal, kept) == [i \in 1..k |-> ".."] \o SubSeq(goal, kept + 1, Len(goal))

\* The commands of plan take a session from dir to goal.
Leads(dir, plan, goal) ==
  \E k \in 0..Len(dir) :
    LET kept == Len(dir) - k
    IN /\ kept <= Len(goal)
       /\ SubSeq(dir, 1, kept) = SubSeq(goal, 1, kept)
       /\ plan = Way(k, goal, kept)

\* The session has not moved since the directory change began, or is past its first
\* command.
FirstStep == op.plan = Plan(current, Place(op)) => cwd = current

\* Where the session is, before the server has a command and after.
Whereabouts ==
  /\ op.at \notin {"CWD", "enter", "leave"} => cwd = current
  /\ op.at = "CWD" =>
       /\ op.plan # <<>> /\ Len(op.plan) <= Len(Plan(current, Place(op)))
       /\ cmds # <<>> => /\ cmds[1].name = Head(op.plan)
                         /\ Leads(cwd, op.plan, Place(op)) /\ FirstStep
       /\ replies # <<>> => IF replies[1].code = 250 THEN Leads(cwd, Tail(op.plan), Place(op))
                            ELSE FirstStep
  /\ op.at = "enter" =>
       /\ cmds # <<>> => cmds[1].name = FileName(op.path) /\ cwd = current
       /\ replies # <<>> => IF replies[1].code = 250 THEN cwd # <<>> /\ Parent(cwd) = current
                            ELSE cwd = current
  /\ op.at = "leave" =>
       /\ cmds # <<>> => cmds[1].name = ".." /\ cwd # <<>> /\ Parent(cwd) = current
       /\ replies # <<>> /\ replies[1].code = 250 => cwd = current

\* Without a connection there is no call.
Down == ~up => op.at = "idle" /\ cmds = <<>> /\ replies = <<>>

\* The inductive invariant.
Inv == Types /\ Down /\ (up /\ ~fault => Flow /\ Whereabouts)

-----------------------------------------------------------------------------
(* Sequences.                                                              *)

LEMMA Single ==
  ASSUME NEW e
  PROVE  /\ Len(<<e>>) = 1 /\ <<e>>[1] = e /\ <<e>> # <<>> /\ Head(<<e>>) = e
         /\ Tail(<<e>>) = <<>> /\ Append(<<>>, e) = <<e>> /\ Front(<<e>>) = <<>>
         /\ DOMAIN <<e>> = {1}
<1>1. Len(<<e>>) = 1 /\ <<e>>[1] = e /\ <<e>> # <<>> /\ Head(<<e>>) = e
  OBVIOUS
<1>2. Tail(<<e>>) = <<>> /\ Append(<<>>, e) = <<e>>
  OBVIOUS
<1>3. SubSeq(<<e>>, 1, 0) = <<>>
  BY SubSeqEmpty
<1>4. QED
  BY <1>1, <1>2, <1>3 DEF Front

LEMMA Pair ==
  ASSUME NEW e, NEW f
  PROVE  /\ Len(<<e, f>>) = 2 /\ <<e, f>>[1] = e /\ <<e, f>>[2] = f /\ <<e, f>> # <<>>
         /\ Head(<<e, f>>) = e /\ Tail(<<e, f>>) = <<f>> /\ Append(<<e>>, f) = <<e, f>>
         /\ DOMAIN <<e, f>> = {1, 2}
<1>1. /\ Len(<<e, f>>) = 2 /\ <<e, f>>[1] = e /\ <<e, f>>[2] = f /\ <<e, f>> # <<>>
      /\ Head(<<e, f>>) = e
  OBVIOUS
<1>2. DOMAIN <<e, f>> = {1, 2}
  OBVIOUS
<1> DEFINE s == <<e, f>>
           t == <<f>>
           u == <<e>>
           S == {e, f}
<1>3. /\ s \in Seq(S) /\ t \in Seq(S) /\ u \in Seq(S) /\ e \in S /\ f \in S /\ s # <<>>
      /\ Len(s) = 2 /\ s[1] = e /\ s[2] = f /\ Len(t) = 1 /\ t[1] = f /\ Len(u) = 1 /\ u[1] = e
  OBVIOUS
<1> HIDE DEF s, t, u, S
<1>4. Tail(s) = t
  <2>1. /\ Tail(s) \in Seq(S) /\ Len(Tail(s)) = Len(s) - 1
        /\ \A i \in 1..Len(Tail(s)) : Tail(s)[i] = s[i + 1]
    BY <1>3, HeadTailProperties
  <2>2. Len(Tail(s)) = Len(t) /\ \A i \in 1..Len(Tail(s)) : Tail(s)[i] = t[i]
    <3>1. PICK w : w = Tail(s)
      OBVIOUS
    <3>2. Len(w) = 1 /\ w[1] = s[2]
      BY <1>3, <2>1, <3>1, Len(w) = 2 - 1, \A i \in 1..Len(w) : w[i] = s[i + 1]
    <3>3. QED
      BY <1>3, <3>1, <3>2
  <2>3. QED
    BY <1>3, <2>1, <2>2, SeqEqual
<1>5. Append(u, f) = s
  <2>1. /\ Append(u, f) \in Seq(S) /\ Len(Append(u, f)) = Len(u) + 1
        /\ \A i \in 1..Len(u) : Append(u, f)[i] = u[i]
        /\ Append(u, f)[Len(u) + 1] = f
    BY <1>3, AppendProperties, ZenonT(60)
  <2>2. Len(Append(u, f)) = Len(s) /\ \A i \in 1..Len(Append(u, f)) : Append(u, f)[i] = s[i]
    <3>1. PICK w : w = Append(u, f)
      OBVIOUS
    <3>2. Len(w) = 2 /\ w[1] = e /\ w[2] = f
      BY <1>3, <2>1, <3>1, Len(w) = 1 + 1, w[1] = u[1], w[1 + 1] = f
    <3>3. QED
      BY <1>3, <3>1, <3>2
  <2>3. QED
    BY <1>3, <2>1, <2>2, SeqEqual
<1>6. QED
  BY <1>1, <1>2, <1>4, <1>5 DEF s, t, u

\* What a prefix is.
LEMMA Prefix ==
  ASSUME NEW S, NEW s \in Seq(S), NEW n \in 0..Len(s)
  PROVE  /\ SubSeq(s, 1, n) \in Seq(S)
         /\ Len(SubSeq(s, 1, n)) = n
         /\ \A i \in 1..n : SubSeq(s, 1, n)[i] = s[i]
<1>1. Len(s) \in Nat /\ \A i \in 1..Len(s) : s[i] \in S
  BY LenProperties, ElementOfSeq
<1>2. QED
  BY <1>1, SubSeqProperties

\* What is left when a prefix of n elements is cut off.
LEMMA Suffix ==
  ASSUME NEW S, NEW s \in Seq(S), NEW n \in 0..Len(s)
  PROVE  /\ SubSeq(s, n + 1, Len(s)) \in Seq(S)
         /\ Len(SubSeq(s, n + 1, Len(s))) = Len(s) - n
         /\ \A i \in 1..Len(s) - n : SubSeq(s, n + 1, Len(s))[i] = s[n + i]
<1>1. Len(s) \in Nat /\ \A i \in 1..Len(s) : s[i] \in S
  BY LenProperties, ElementOfSeq
<1>2. \A i \in n + 1..Len(s) : s[i] \in S
  BY <1>1
<1>3. n + 1 \in Int /\ Len(s) \in Int
  BY <1>1
<1>4. /\ SubSeq(s, n + 1, Len(s)) \in Seq(S)
      /\ Len(SubSeq(s, n + 1, Len(s))) = IF n + 1 <= Len(s) THEN Len(s) - (n + 1) + 1 ELSE 0
      /\ \A i \in 1..Len(s) - (n + 1) + 1 : SubSeq(s, n + 1, Len(s))[i] = s[n + 1 + i - 1]
  BY <1>2, <1>3, SubSeqProperties
<1>5. QED
  BY <1>1, <1>4

\* Two prefixes of the same length are equal if their elements are.
LEMMA EqualPrefixes ==
  ASSUME NEW S, NEW s \in Seq(S), NEW t \in Seq(S), NEW n \in 0..Len(s), n <= Len(t)
  PROVE  SubSeq(s, 1, n) = SubSeq(t, 1, n) <=> \A i \in 1..n : s[i] = t[i]
<1>1. n \in Nat /\ n \in 0..Len(t)
  BY LenProperties
<1> DEFINE p == SubSeq(s, 1, n)
           q == SubSeq(t, 1, n)
<1>2. p \in Seq(S) /\ Len(p) = n /\ \A i \in 1..n : p[i] = s[i]
  BY Prefix
<1>3. q \in Seq(S) /\ Len(q) = n /\ \A i \in 1..n : q[i] = t[i]
  BY <1>1, Prefix
<1> HIDE DEF p, q
<1>4. p = q => \A i \in 1..n : s[i] = t[i]
  BY <1>2, <1>3
<1>5. (\A i \in 1..n : s[i] = t[i]) => p = q
  BY <1>2, <1>3, SeqEqual
<1>6. QED
  BY <1>4, <1>5 DEF p, q

-----------------------------------------------------------------------------
(* Paths.                                                                  *)

LEMMA NodeType ==
  ASSUME NEW p \in Nodes
  PROVE  /\ p \in Seq(Names) /\ Len(p) \in 0..2
         /\ Parent(p) \in Nodes /\ FileName(p) \in Names \cup {""}
         /\ p # <<>> => Parent(p) = SubSeq(p, 1, Len(p) - 1) /\ Len(p) # 0
<1>1. CASE p = <<>>
  BY <1>1, EmptySeq DEF Parent, FileName
<1>2. ASSUME NEW n \in Names, p = <<n>>
      PROVE  /\ p \in Seq(Names) /\ Len(p) \in 0..2
             /\ Parent(p) \in Nodes /\ FileName(p) \in Names \cup {""}
             /\ p # <<>> => Parent(p) = SubSeq(p, 1, Len(p) - 1) /\ Len(p) # 0
  <2>1. p # <<>> /\ Front(p) = <<>> /\ Len(p) = 1 /\ p[1] = n
    BY <1>2, Single
  <2>2. Parent(p) = <<>> /\ FileName(p) = n
    BY <2>1 DEF Parent, FileName, Last
  <2>3. p \in Seq(Names)
    BY <1>2
  <2>4. Parent(p) \in Nodes
    BY <2>2 DEF Nodes
  <2>5. Parent(p) = SubSeq(p, 1, Len(p) - 1)
    BY <2>1 DEF Parent, Front
  <2>6. Len(p) \in 0..2 /\ Len(p) # 0
    BY <2>1
  <2>7. QED
    BY <2>2, <2>3, <2>4, <2>5, <2>6, Zenon
<1>3. ASSUME NEW m \in Names, NEW n \in Names, p = <<m, n>>
      PROVE  /\ p \in Seq(Names) /\ Len(p) \in 0..2
             /\ Parent(p) \in Nodes /\ FileName(p) \in Names \cup {""}
             /\ p # <<>> => Parent(p) = SubSeq(p, 1, Len(p) - 1) /\ Len(p) # 0
  <2>1. p \in Seq(Names) /\ Len(p) = 2 /\ p # <<>> /\ p[1] = m /\ p[2] = n
    BY <1>3
  <2> DEFINE f == SubSeq(p, 1, 1)
             g == <<m>>
  <2>2. f \in Seq(Names) /\ Len(f) = 1 /\ f[1] = m
    BY <2>1, Prefix
  <2>3. g \in Seq(Names) /\ Len(g) = 1 /\ g[1] = m
    OBVIOUS
  <2>4. g \in Nodes
    BY DEF Nodes, Paths
  <2> HIDE DEF f, g
  <2>5. f = g
    BY <2>2, <2>3, SeqEqual
  <2>6. Len(p) - 1 = 1
    BY <2>1
  <2>7. Parent(p) = f /\ FileName(p) = n /\ SubSeq(p, 1, Len(p) - 1) = f
    BY <2>1, <2>6 DEF Parent, FileName, Front, Last, f
  <2>8. Len(p) \in 0..2 /\ Len(p) # 0
    BY <2>1
  <2>9. QED
    BY <2>1, <2>4, <2>5, <2>7, <2>8, Zenon
<1>4. p = <<>> \/ (\E n \in Names : p = <<n>>) \/ (\E m \in Names, n \in Names : p = <<m, n>>)
  BY DEF Nodes, Paths
<1>5. QED
  BY <1>1, <1>2, <1>3, <1>4

LEMMA NodeLen ==
  ASSUME NEW p \in Nodes
  PROVE  p \in Seq(Names) /\ Len(p) \in Nat
<1>1. p \in Seq(Names)
  BY NodeType, Zenon
<1>2. Len(p) \in Nat
  BY <1>1, LenProperties
<1>3. QED
  BY <1>1, <1>2

LEMMA AppendNotEmpty ==
  ASSUME NEW S, NEW s \in Seq(S), NEW e \in S
  PROVE  Append(s, e) # <<>>
<1>1. Len(Append(s, e)) = Len(s) + 1 /\ Len(s) \in Nat
  BY AppendProperties, LenProperties
<1>2. Len(<<>>) = 0
  OBVIOUS
<1> DEFINE a == Append(s, e)
<1> HIDE DEF a
<1>3. a # <<>>
  BY <1>1, <1>2 DEF a
<1>4. QED
  BY <1>3 DEF a

\* Entering a name is undone by "..".
LEMMA ParentAppend ==
  ASSUME NEW S, NEW dir \in Seq(S), NEW name \in S
  PROVE  Append(dir, name) # <<>> /\ Parent(Append(dir, name)) = dir
<1> DEFINE a == Append(dir, name)
           f == SubSeq(a, 1, Len(dir))
<1>1. /\ Len(dir) \in Nat /\ a \in Seq(S) /\ Len(a) = Len(dir) + 1
      /\ \A i \in 1..Len(dir) : a[i] = dir[i]
  BY LenProperties, AppendProperties
<1> HIDE DEF a
<1>2. Len(dir) \in 0..Len(a)
  BY <1>1
<1>3. f \in Seq(S) /\ Len(f) = Len(dir) /\ \A i \in 1..Len(dir) : f[i] = a[i]
  BY <1>1, <1>2, Prefix
<1> HIDE DEF f
<1>4. f = dir
  BY <1>1, <1>3, SeqEqual
<1>5. Len(a) - 1 = Len(dir) /\ a # <<>>
  BY <1>1, EmptySeq
<1>6. QED
  BY <1>4, <1>5 DEF f, a, Parent, Front

\* The names the client uses are never "..".
LEMMA NameIsNoStep ==
  ASSUME NEW name \in Names \cup {""}
  PROVE  name # ".."
BY NamesAssumption

-----------------------------------------------------------------------------
(* Directory changes.                                                      *)

\* What the commands of such a way are.
LEMMA PlanForm ==
  ASSUME NEW k \in Nat, NEW goal \in Seq(Names), NEW kept \in 0..Len(goal),
         NEW plan, plan = Way(k, goal, kept)
  PROVE  /\ plan \in Seq(Steps) /\ Len(plan) = k + (Len(goal) - kept)
         /\ \A i \in 1..k : plan[i] = ".."
         /\ \A i \in k + 1..Len(plan) : plan[i] = goal[kept + i - k]
<1> DEFINE dots == [i \in 1..k |-> ".."]
           rest == SubSeq(goal, kept + 1, Len(goal))
<1>1. dots \in Seq(Steps) /\ Len(dots) = k /\ \A i \in 1..k : dots[i] = ".."
  BY DEF Steps
<1>2. Len(goal) \in Nat /\ goal \in Seq(Steps)
  BY LenProperties, SeqMonotonic DEF Steps
<1>3. /\ rest \in Seq(Steps) /\ Len(rest) = Len(goal) - kept
      /\ \A i \in 1..Len(goal) - kept : rest[i] = goal[kept + i]
  BY <1>2, Suffix
<1> HIDE DEF dots, rest
<1>4. plan = dots \o rest
  BY DEF Way, dots, rest
<1>5. /\ plan \in Seq(Steps) /\ Len(plan) = k + (Len(goal) - kept)
      /\ \A i \in 1..k + (Len(goal) - kept) : plan[i] = IF i <= k THEN dots[i] ELSE rest[i - k]
  <2>1. /\ dots \o rest \in Seq(Steps) /\ Len(dots \o rest) = Len(dots) + Len(rest)
        /\ \A i \in 1..Len(dots) + Len(rest) : (dots \o rest)[i] =
                 IF i <= Len(dots) THEN dots[i] ELSE rest[i - Len(dots)]
    BY <1>1, <1>3, ConcatProperties
  <2>2. QED
    BY <1>1, <1>3, <1>4, <2>1, Zenon
<1>6. \A i \in 1..k : plan[i] = ".."
  BY <1>1, <1>2, <1>5
<1>7. ASSUME NEW i \in k + 1..Len(plan) PROVE plan[i] = goal[kept + i - k]
  <2>1. /\ i \in 1..k + (Len(goal) - kept) /\ ~(i <= k) /\ i - k \in 1..Len(goal) - kept
        /\ kept + (i - k) = kept + i - k
    BY <1>2, <1>5
  <2>2. QED
    BY <1>3, <1>5, <2>1
<1>8. QED
  BY <1>5, <1>6, <1>7

\* The converse: a sequence of that form is that way.
LEMMA FormPlan ==
  ASSUME NEW k \in Nat, NEW goal \in Seq(Names), NEW kept \in 0..Len(goal),
         NEW plan \in Seq(Steps), Len(plan) = k + (Len(goal) - kept),
         \A i \in 1..k : plan[i] = "..",
         \A i \in k + 1..Len(plan) : plan[i] = goal[kept + i - k]
  PROVE  plan = Way(k, goal, kept)
<1> DEFINE q == Way(k, goal, kept)
<1>1. /\ q \in Seq(Steps) /\ Len(q) = k + (Len(goal) - kept)
      /\ \A i \in 1..k : q[i] = ".."
      /\ \A i \in k + 1..Len(q) : q[i] = goal[kept + i - k]
  BY PlanForm
<1> HIDE DEF q
<1>2. Len(plan) \in Nat
  BY LenProperties
<1>3. \A i \in 1..Len(plan) : plan[i] = q[i]
  <2>1. ASSUME NEW i \in 1..Len(plan) PROVE plan[i] = q[i]
    <3>1. i \in 1..k \/ i \in k + 1..Len(plan)
      BY <1>2
    <3>2. QED
      BY <1>1, <3>1
  <2>2. QED
    BY <2>1
<1>4. plan = q
  BY <1>1, <1>3, SeqEqual
<1>5. QED
  BY <1>4 DEF q

LEMMA UpToTwo ==
  ASSUME NEW m, NEW n, n \in 0..2, m \in 0..n
  PROVE  m \in {0, 1, 2}
OBVIOUS

\* What the loop over the common components ends with.
LEMMA CommonProperties ==
  ASSUME NEW from \in Nodes, NEW to \in Nodes
  PROVE  LET common == Len(LongestCommonPrefix({from, to}))
         IN /\ common \in 0..Len(from) /\ common <= Len(to)
            /\ SubSeq(from, 1, common) = SubSeq(to, 1, common)
<1> DEFINE C == CommonPrefixes({from, to})
           l == LongestCommonPrefix({from, to})
<1>1. /\ from \in Seq(Names) /\ to \in Seq(Names) /\ Len(from) \in 0..2 /\ Len(to) \in 0..2
  BY NodeType
<1>2. ASSUME NEW c \in C
      PROVE  /\ Len(c) \in 0..Len(from) /\ Len(c) <= Len(to)
             /\ SubSeq(from, 1, Len(c)) = SubSeq(to, 1, Len(c))
  <2>1. /\ c \in UNION {Prefixes(seq) : seq \in {from, to}}
        /\ IsPrefix(c, from) /\ IsPrefix(c, to)
    BY DEF CommonPrefixes
  <2>2. PICK s \in {from, to} : c \in Prefixes(s)
    BY <2>1
  <2>3. PICK m \in 0..Len(s) : c = SubSeq(s, 1, m)
    BY <2>2 DEF Prefixes
  <2>4. Len(c) = m /\ m \in Nat
    BY <1>1, <2>3, Prefix
  <2>5. QED
    BY <1>1, <2>1, <2>4 DEF IsPrefix
<1>3. <<>> \in C /\ Len(<<>>) = 0
  <2>1. \A s : SubSeq(s, 1, 0) = <<>>
    BY SubSeqEmpty
  <2>2. Len(<<>>) = 0
    OBVIOUS
  <2>3. <<>> \in Prefixes(from)
    BY <1>1, <2>1 DEF Prefixes
  <2>4. IsPrefix(<<>>, from) /\ IsPrefix(<<>>, to)
    BY <1>1, <2>1, <2>2 DEF IsPrefix
  <2>5. QED
    BY <2>2, <2>3, <2>4 DEF CommonPrefixes
<1> HIDE DEF C, l
<1>4. \E c \in C : \A d \in C : Len(d) <= Len(c)
  <2>1. \A d \in C : Len(d) \in {0, 1, 2}
    <3>1. ASSUME NEW d \in C PROVE Len(d) \in {0, 1, 2}
      <4>1. Len(d) \in 0..Len(from)
        BY <1>2
      <4>2. Len(from) \in 0..2
        BY <1>1
      <4>3. QED
        BY <4>1, <4>2, UpToTwo
    <3>2. QED
      BY <3>1
  <2>2. CASE \E c \in C : Len(c) = 2
    BY <2>1, <2>2
  <2>3. CASE ~(\E c \in C : Len(c) = 2) /\ \E c \in C : Len(c) = 1
    BY <2>1, <2>3
  <2>4. CASE ~(\E c \in C : Len(c) = 2) /\ ~\E c \in C : Len(c) = 1
    BY <1>3, <2>1, <2>4
  <2>5. QED
    BY <2>2, <2>3, <2>4
<1>5. l \in C
  BY <1>4, Zenon DEF LongestCommonPrefix, C, l
<1>6. QED
  BY <1>2, <1>5 DEF l

\* changeDirectory plans the way from where it believes to be to its goal.
LEMMA PlanLeads ==
  ASSUME NEW from \in Nodes, NEW to \in Nodes
  PROVE  Plan(from, to) \in Seq(Steps) /\ Leads(from, Plan(from, to), to)
<1> DEFINE common == Len(LongestCommonPrefix({from, to}))
           k == Len(from) - common
<1>1. /\ common \in 0..Len(from) /\ common <= Len(to)
      /\ SubSeq(from, 1, common) = SubSeq(to, 1, common)
  BY CommonProperties
<1>2. Plan(from, to) = Way(k, to, common)
  BY DEF Plan, Way
<1> HIDE DEF common
<1>3. /\ from \in Seq(Names) /\ to \in Seq(Names) /\ Len(from) \in Nat /\ Len(to) \in Nat
  BY NodeLen
<1>4. k \in 0..Len(from) /\ Len(from) - k = common /\ k \in Nat /\ common \in 0..Len(to)
  BY <1>1, <1>3
<1> HIDE DEF k
<1>5. Plan(from, to) \in Seq(Steps)
  BY <1>2, <1>3, <1>4, PlanForm
<1>6. Leads(from, Plan(from, to), to)
  BY <1>1, <1>2, <1>4 DEF Leads
<1>7. QED
  BY <1>5, <1>6

\* With no command left the session has arrived.
LEMMA LeadsDone ==
  ASSUME NEW dir \in Nodes, NEW goal \in Nodes, Leads(dir, <<>>, goal)
  PROVE  dir = goal
<1>1. /\ dir \in Seq(Names) /\ goal \in Seq(Names) /\ Len(dir) \in Nat /\ Len(goal) \in Nat
  BY NodeLen
<1>2. PICK k \in 0..Len(dir) :
        /\ Len(dir) - k <= Len(goal)
        /\ SubSeq(dir, 1, Len(dir) - k) = SubSeq(goal, 1, Len(dir) - k)
        /\ <<>> = Way(k, goal, Len(dir) - k)
  BY DEF Leads
<1> DEFINE kept == Len(dir) - k
<1>3. kept \in 0..Len(goal) /\ k \in Nat
  BY <1>1, <1>2
<1>4. Len(<<>>) = k + (Len(goal) - kept)
  BY <1>1, <1>2, <1>3, PlanForm
<1>5. k = 0 /\ kept = Len(goal) /\ kept = Len(dir)
  <2>1. Len(<<>>) = 0
    OBVIOUS
  <2>2. QED
    BY <1>1, <1>3, <1>4, <2>1
<1>6. SubSeq(dir, 1, Len(dir)) = SubSeq(goal, 1, Len(goal))
  BY <1>2, <1>5
<1>7. QED
  BY <1>1, <1>6, SubSeqFull

\* A plan of more than one command, without its first.
LEMMA RestOfPlan ==
  ASSUME NEW plan \in Seq(Steps), Len(plan) > 1, NEW rest, rest = Tail(plan)
  PROVE  /\ rest \in Seq(Steps) /\ rest # <<>> /\ Len(rest) = Len(plan) - 1
         /\ Head(rest) = plan[2] /\ Head(rest) \in Steps
<1>1. plan # <<>> /\ Len(plan) \in Nat
  BY LenProperties, EmptySeq
<1>2. /\ rest \in Seq(Steps) /\ Len(rest) = Len(plan) - 1
      /\ \A i \in 1..Len(rest) : rest[i] = plan[i + 1]
  BY <1>1, HeadTailProperties
<1>3. rest # <<>> /\ rest[1] = plan[2]
  BY <1>1, <1>2
<1>4. Head(rest) = rest[1] /\ Head(rest) \in Steps
  BY <1>2, <1>3, HeadTailProperties
<1>5. QED
  BY <1>2, <1>3, <1>4

LEMMA LastOfPlan ==
  ASSUME NEW plan \in Seq(Steps), Len(plan) = 1
  PROVE  Tail(plan) = <<>>
<1>1. plan # <<>>
  BY EmptySeq
<1>2. Tail(plan) \in Seq(Steps) /\ Len(Tail(plan)) = 0
  BY <1>1, HeadTailProperties
<1>3. QED
  BY <1>2, EmptySeq

\* Every command leaves the rest of the plan to lead on.
LEMMA LeadsStep ==
  ASSUME NEW dir \in Nodes, NEW goal \in Nodes, NEW plan, plan # <<>>, Leads(dir, plan, goal)
  PROVE  /\ plan \in Seq(Steps) /\ Head(plan) \in Steps
         /\ Tail(plan) \in Seq(Steps) /\ Len(Tail(plan)) = Len(plan) - 1
         /\ Head(plan) = ".." => Leads(Parent(dir), Tail(plan), goal)
         /\ Head(plan) # ".." => Leads(Append(dir, Head(plan)), Tail(plan), goal)
<1>1. /\ dir \in Seq(Names) /\ goal \in Seq(Names) /\ Len(dir) \in Nat /\ Len(goal) \in Nat
  BY NodeLen
<1>2. PICK k \in 0..Len(dir) :
        /\ Len(dir) - k <= Len(goal)
        /\ SubSeq(dir, 1, Len(dir) - k) = SubSeq(goal, 1, Len(dir) - k)
        /\ plan = Way(k, goal, Len(dir) - k)
  BY DEF Leads
<1> DEFINE kept == Len(dir) - k
<1>3. kept \in 0..Len(goal) /\ kept \in 0..Len(dir) /\ k \in Nat /\ kept \in Nat
  BY <1>1, <1>2
<1>4. plan = Way(k, goal, kept)
  BY <1>2
<1>5. SubSeq(dir, 1, kept) = SubSeq(goal, 1, kept) /\ Len(dir) = kept + k
  BY <1>1, <1>2, <1>3
<1> HIDE DEF kept
<1>6. /\ plan \in Seq(Steps) /\ Len(plan) = k + (Len(goal) - kept)
      /\ \A i \in 1..k : plan[i] = ".."
      /\ \A i \in k + 1..Len(plan) : plan[i] = goal[kept + i - k]
  <2> DEFINE w == Way(k, goal, kept)
  <2>1. /\ w \in Seq(Steps) /\ Len(w) = k + (Len(goal) - kept)
        /\ \A i \in 1..k : w[i] = ".."
        /\ \A i \in k + 1..Len(w) : w[i] = goal[kept + i - k]
    BY <1>1, <1>3, PlanForm
  <2> HIDE DEF w
  <2>2. plan = w
    BY <1>4 DEF w
  <2>3. QED
    BY <2>1, <2>2, Zenon
<1>7. /\ Head(plan) \in Steps /\ Tail(plan) \in Seq(Steps) /\ Len(Tail(plan)) = Len(plan) - 1
      /\ \A i \in 1..Len(Tail(plan)) : Tail(plan)[i] = plan[i + 1]
      /\ Head(plan) = plan[1] /\ Len(plan) \in Nat /\ Len(plan) # 0
  BY <1>6, HeadTailProperties, LenProperties, EmptySeq
<1>8. \A i \in 1..kept : dir[i] = goal[i]
  <2>1. kept <= Len(goal)
    BY <1>1, <1>3
  <2>2. QED
    BY <1>1, <1>3, <1>5, <2>1, EqualPrefixes
<1> DEFINE t == Tail(plan)
<1>9. CASE k > 0
  <2>1. Head(plan) = ".."
    BY <1>3, <1>6, <1>7, <1>9
  <2> DEFINE j == k - 1
             up_ == Parent(dir)
  <2>2. j \in Nat /\ Len(t) = j + (Len(goal) - kept)
    BY <1>1, <1>3, <1>6, <1>7, <1>9
  <2>3. \A i \in 1..j : t[i] = ".."
    BY <1>1, <1>3, <1>6, <1>7, <1>9
  <2>4. \A i \in j + 1..Len(t) : t[i] = goal[kept + i - j]
    <3>1. ASSUME NEW i \in j + 1..Len(t) PROVE t[i] = goal[kept + i - j]
      <4>1. /\ i \in 1..Len(t) /\ i + 1 \in k + 1..Len(plan) /\ kept + (i + 1) - k = kept + i - j
        BY <1>1, <1>3, <1>6, <1>7, <1>9, <2>2
      <4>2. QED
        BY <1>6, <1>7, <4>1
    <3>2. QED
      BY <3>1
  <2> HIDE DEF t
  <2>5. t \in Seq(Steps)
    BY <1>7 DEF t
  <2> HIDE DEF j
  <2>6. t = Way(j, goal, kept)
    BY <1>1, <1>3, <2>2, <2>3, <2>4, <2>5, FormPlan
  <2>7. dir # <<>>
    <3>1. Len(dir) # 0
      BY <1>1, <1>3, <1>9
    <3>2. Len(<<>>) = 0
      OBVIOUS
    <3>3. QED
      BY <3>1, <3>2
  <2>8. up_ = SubSeq(dir, 1, Len(dir) - 1)
    BY <2>7, NodeType
  <2>9. Len(dir) - 1 \in 0..Len(dir)
    BY <1>1, <1>3, <1>9
  <2>10. /\ up_ \in Seq(Names) /\ Len(up_) = Len(dir) - 1
         /\ \A i \in 1..Len(dir) - 1 : up_[i] = dir[i]
    BY <1>1, <2>8, <2>9, Prefix
  <2> HIDE DEF up_
  <2>11. j \in 0..Len(up_) /\ Len(up_) - j = kept /\ kept \in 0..Len(up_) /\ kept <= Len(goal)
    BY <1>1, <1>3, <1>5, <1>9, <2>10 DEF j
  <2>12. \A i \in 1..kept : up_[i] = goal[i]
    BY <1>1, <1>3, <1>8, <2>10, <2>11
  <2>13. SubSeq(up_, 1, kept) = SubSeq(goal, 1, kept)
    BY <1>1, <2>10, <2>11, <2>12, EqualPrefixes
  <2>14. Leads(up_, t, goal)
    BY <2>6, <2>11, <2>13 DEF Leads
  <2>15. QED
    BY <1>6, <1>7, <2>1, <2>14 DEF up_, t
<1>10. CASE k = 0
  <2>1. /\ Len(dir) = kept /\ Len(plan) = Len(goal) - kept /\ kept + 1 \in 1..Len(goal)
        /\ \A i \in 1..Len(plan) : plan[i] = goal[kept + i]
    BY <1>1, <1>3, <1>5, <1>6, <1>7, <1>10
  <2>2. Head(plan) = goal[kept + 1] /\ Head(plan) \in Names
    <3>1. Head(plan) = goal[kept + 1]
      BY <1>7, <2>1
    <3>2. QED
      BY <1>1, <2>1, <3>1, ElementOfSeq
  <2>3. Head(plan) # ".."
    BY <2>2, NameIsNoStep
  <2> DEFINE a == Append(dir, Head(plan))
  <2>4. /\ a \in Seq(Names) /\ Len(a) = kept + 1
        /\ \A i \in 1..kept : a[i] = dir[i]
        /\ a[kept + 1] = Head(plan)
    BY <1>1, <2>1, <2>2, AppendProperties
  <2> HIDE DEF a
  <2>5. \A i \in 1..kept + 1 : a[i] = goal[i]
    BY <1>3, <1>8, <2>2, <2>4
  <2>6. kept + 1 \in 0..Len(a) /\ kept + 1 <= Len(goal) /\ kept + 1 \in 0..Len(goal)
    BY <1>3, <2>1, <2>4
  <2>7. SubSeq(a, 1, kept + 1) = SubSeq(goal, 1, kept + 1)
    BY <1>1, <2>4, <2>5, <2>6, EqualPrefixes
  <2>8. Len(t) = 0 + (Len(goal) - (kept + 1))
    BY <1>1, <1>3, <1>7, <2>1
  <2>9. \A i \in 0 + 1..Len(t) : t[i] = goal[(kept + 1) + i - 0]
    <3>1. ASSUME NEW i \in 0 + 1..Len(t) PROVE t[i] = goal[(kept + 1) + i - 0]
      <4>1. i \in 1..Len(t) /\ i + 1 \in 1..Len(plan) /\ kept + (i + 1) = (kept + 1) + i - 0
        BY <1>1, <1>3, <1>7, <2>1, <2>8
      <4>2. QED
        BY <1>7, <2>1, <4>1
    <3>2. QED
      BY <3>1
  <2> HIDE DEF t
  <2>10. t \in Seq(Steps)
    BY <1>7 DEF t
  <2>11. \A i \in 1..0 : t[i] = ".."
    OBVIOUS
  <2>12. t = Way(0, goal, kept + 1)
    BY <1>1, <2>6, <2>8, <2>9, <2>10, <2>11, FormPlan
  <2>13. Len(a) - 0 = kept + 1 /\ 0 \in 0..Len(a)
    BY <1>3, <2>4
  <2>14. Leads(a, t, goal)
    BY <2>6, <2>7, <2>12, <2>13 DEF Leads
  <2>15. QED
    BY <1>6, <1>7, <2>3, <2>14 DEF a, t
<1>11. QED
  BY <1>3, <1>9, <1>10

-----------------------------------------------------------------------------
(* The server.                                                             *)

\* What the rest of the argument needs to know about a result: only a transfer is
\* announced, only CWD with 250 moves the session, and where to.
Fits(dir, c, r) ==
  /\ r.fs \in [Paths -> Kinds] /\ r.cwd \in Nodes /\ r.reply \in Replies
  /\ IF r.reply.code \in Openings THEN c.verb \in TransferVerbs /\ r.xfer # NoXfer
     ELSE r.xfer = NoXfer
  /\ IF c.verb = "CWD" /\ r.reply.code = 250
     THEN r.cwd = IF c.name = ".." THEN Parent(dir) ELSE Append(dir, c.name)
     ELSE r.cwd = dir

LEMMA ReplyType ==
  ASSUME NEW code \in Codes, NEW fact \in Facts
  PROVE  [code |-> code, fact |-> fact] \in Replies
BY Zenon DEF Replies

LEMMA StayFits ==
  ASSUME NEW dir \in Nodes, NEW c, NEW code \in Ends,
         NEW fact \in Facts, c.verb # "CWD" \/ code # 250, NEW store \in [Paths -> Kinds],
         NEW r, r = Result(code, fact, dir, store, NoXfer)
  PROVE  Fits(dir, c, r)
<1>1. /\ r.reply.code = code /\ r.reply = [code |-> code, fact |-> fact]
      /\ r.cwd = dir /\ r.fs = store /\ r.xfer = NoXfer
  BY DEF Result
<1>2. code \in Codes /\ code \notin Openings
  BY DEF Ends
<1>3. r.reply \in Replies
  BY <1>1, <1>2, ReplyType, Zenon
<1>4. QED
  BY <1>1, <1>2, <1>3, Zenon DEF Fits

LEMMA SaysFits ==
  ASSUME fs \in [Paths -> Kinds], NEW dir \in Nodes, NEW c, NEW code \in Ends,
         c.verb # "CWD" \/ code # 250, NEW r, r = Says(code, "", dir)
  PROVE  Fits(dir, c, r)
<1>1. PICK f : f = "" /\ f \in Facts
  BY DEF Facts
<1>2. r = Result(code, f, dir, fs, NoXfer)
  BY <1>1 DEF Says
<1>3. QED
  BY <1>1, <1>2, StayFits, Zenon

LEMMA TransferFits ==
  ASSUME NEW dir \in Nodes, NEW c, NEW code \in Openings, NEW verb \in TransferVerbs,
         c.verb = verb, NEW store \in [Paths -> Kinds], NEW path
  PROVE  Fits(dir, c, Result(code, "", dir, store, [verb |-> verb, path |-> path]))
<1> DEFINE t == [verb |-> verb, path |-> path]
           r == Result(code, "", dir, store, t)
<1>1. /\ r.reply.code = code /\ r.reply = [code |-> code, fact |-> ""]
      /\ r.cwd = dir /\ r.fs = store /\ r.xfer = t
  BY DEF Result
<1>2. t # NoXfer
  BY DEF NoXfer, TransferVerbs
<1>3. c.verb # "CWD"
  BY DEF TransferVerbs
<1> HIDE DEF r, t
<1>4. code \in Codes /\ "" \in Facts
  BY DEF Codes, Openings, Facts
<1>5. r.reply \in Replies
  BY <1>1, <1>4, ReplyType, Zenon
<1>6. QED
  BY <1>1, <1>2, <1>3, <1>5, Zenon DEF Fits, r, t

LEMMA PutType ==
  ASSUME fs \in [Paths -> Kinds], NEW p, NEW k \in Kinds
  PROVE  Put(p, k) \in [Paths -> Kinds]
BY DEF Put

\* A directory that can be entered is a path of the tree.
LEMMA EnterType ==
  ASSUME NEW dir \in Nodes, NEW name \in Steps \cup {""}, Kind(Append(dir, name)) = "dir"
  PROVE  Append(dir, name) \in Nodes
<1>1. Append(dir, name) # <<>>
  <2> DEFINE S == Names \cup Steps \cup {""}
  <2>1. dir \in Seq(Names) /\ Names \subseteq S /\ name \in S
    BY NodeLen
  <2> HIDE DEF S
  <2>2. dir \in Seq(S)
    BY <2>1, SeqMonotonic
  <2>3. QED
    BY <2>1, <2>2, AppendNotEmpty
<1>2. QED
  BY <1>1 DEF Kind, Nodes


LEMMA CarriedFits ==
  ASSUME fs \in [Paths -> Kinds], NEW dir \in Nodes, NEW c \in Commands,
         Possible(dir, c), NEW r \in Carried(dir, c)
  PROVE  Fits(dir, c, r)
<1> DEFINE p == Append(dir, c.name)
<1>1. c.verb \in Verbs /\ c.name \in Steps \cup {""}
  BY DEF Commands
<1>2. /\ \A code \in {230, 331, 211, 213, 227, 257, 250} : code \in Ends
      /\ \A f \in {"", "none", "dir", "file", "endpoint", "garbage"} : f \in Facts
  BY DEF Codes, Openings, Facts, Ends
<1>3. ASSUME NEW code \in Ends, NEW fact \in Facts,
             c.verb # "CWD", r = Says(code, fact, dir)
      PROVE  Fits(dir, c, r)
  BY <1>3, StayFits, Zenon DEF Says
<1>4. CASE c.verb \in {"USER", "PASS", "FEAT", "SIZE"}
  <2>1. \/ r = Says(230, "", dir) \/ r = Says(331, "", dir)
        \/ r = Says(211, "", dir) \/ r = Says(213, "", dir)
    BY <1>4 DEF Carried
  <2>2. c.verb # "CWD"
    BY <1>4
  <2>3. 230 \in Ends /\ 331 \in Ends /\ 211 \in Ends /\ 213 \in Ends
    BY DEF Ends, Codes, Openings
  <2>4. QED
    BY <2>1, <2>2, <2>3, SaysFits
<1>5. CASE c.verb = "MLST"
  <2>1. \E f \in {"dir", "file", "none"} : r = Says(250, f, dir)
    BY <1>5 DEF Carried
  <2>2. PICK f \in {"dir", "file", "none"} : r = Says(250, f, dir)
    BY <2>1
  <2>3. c.verb # "CWD" /\ f \in Facts
    BY <1>5 DEF Facts
  <2>4. 250 \in Ends
    BY <1>2
  <2>5. QED
    BY <1>3, <2>2, <2>3, <2>4, Zenon
<1>6. CASE c.verb = "PASV"
  <2>1. \E f \in {"endpoint", "garbage"} : r = Says(227, f, dir)
    BY <1>6 DEF Carried
  <2>2. PICK f \in {"endpoint", "garbage"} : r = Says(227, f, dir)
    BY <2>1
  <2>3. c.verb # "CWD" /\ f \in Facts
    BY <1>6 DEF Facts
  <2>4. 227 \in Ends
    BY <1>2
  <2>5. QED
    BY <1>3, <2>2, <2>3, <2>4, Zenon
<1>7. CASE c.verb \in {"MKD", "DELE", "RMD"}
  <2>1. \/ r = Result(257, "", dir, Put(p, "dir"), NoXfer)
        \/ r = Result(250, "", dir, Put(p, "none"), NoXfer)
    BY <1>7 DEF Carried
  <2>2. c.verb # "CWD" /\ "" \in Facts /\ 257 \in Ends /\ 250 \in Ends
    BY <1>2, <1>7
  <2>3. Put(p, "dir") \in [Paths -> Kinds] /\ Put(p, "none") \in [Paths -> Kinds]
    BY PutType DEF Kinds
  <2>4. QED
    BY <2>1, <2>2, <2>3, StayFits, Zenon
<1>8. CASE c.verb \in {"LIST", "RETR"}
  <2>1. PICK code \in Openings : r = Result(code, "", dir, fs, [verb |-> c.verb, path |-> p])
    BY <1>8 DEF Carried, Openings
  <2>2. c.verb \in TransferVerbs
    BY <1>8 DEF TransferVerbs
  <2>3. QED
    BY <2>1, <2>2, TransferFits, Zenon
<1>9. CASE c.verb = "STOR"
  <2>1. PICK code \in Openings :
          r = Result(code, "", dir, Put(p, "cut"), [verb |-> "STOR", path |-> p])
    BY <1>9 DEF Carried, Openings
  <2>2. "STOR" \in TransferVerbs
    BY DEF TransferVerbs
  <2>3. Put(p, "cut") \in [Paths -> Kinds]
    BY PutType DEF Kinds
  <2>4. QED
    BY <1>9, <2>1, <2>2, <2>3, TransferFits, Zenon
<1>10. CASE c.verb = "CWD"
  <2> DEFINE d == IF c.name = ".." THEN Parent(dir) ELSE p
  <2>1. r = Result(250, "", d, fs, NoXfer)
    BY <1>10 DEF Carried, Says
  <2>2. r.reply.code = 250 /\ r.reply = [code |-> 250, fact |-> ""] /\ r.cwd = d /\ r.fs = fs /\ r.xfer = NoXfer
    BY <2>1 DEF Result
  <2>3. c.name = ".." \/ Kind(p) = "dir"
    BY <1>10 DEF Possible
  <2>4. d \in Nodes
    <3>1. CASE c.name = ".."
      BY <3>1, NodeType, Zenon
    <3>2. CASE c.name # ".."
      BY <1>1, <2>3, <3>2, EnterType, Zenon
    <3>3. QED
      BY <3>1, <3>2
  <2>5. r.reply \in Replies /\ 250 \notin Openings
    <3>1. 250 \in Codes /\ "" \in Facts /\ 250 \notin Openings
      BY <1>2 DEF Ends
    <3>2. PICK f \in Facts : r.reply = [code |-> 250, fact |-> f]
      BY <2>2, <3>1
    <3>3. QED
      BY <3>1, <3>2, ReplyType, Zenon
  <2> HIDE DEF d
  <2>6. r.fs \in [Paths -> Kinds] /\ r.cwd \in Nodes /\ r.reply \in Replies
    BY <2>2, <2>4, <2>5, Zenon
  <2>7. r.reply.code \notin Openings /\ r.xfer = NoXfer
    BY <2>2, <2>5, Zenon
  <2>8. r.cwd = IF c.name = ".." THEN Parent(dir) ELSE Append(dir, c.name)
    BY <2>2, Zenon DEF d
  <2>9. QED
    BY <1>10, <2>2, <2>6, <2>7, <2>8, Zenon DEF Fits
<1>11. QED
  <2>1. \/ c.verb \in {"USER", "PASS", "FEAT", "SIZE"} \/ c.verb = "MLST" \/ c.verb = "PASV"
        \/ c.verb \in {"MKD", "DELE", "RMD"} \/ c.verb \in {"LIST", "RETR"}
        \/ c.verb = "STOR" \/ c.verb = "CWD"
    BY <1>1 DEF Verbs, TransferVerbs
  <2>2. QED
    BY <1>4, <1>5, <1>6, <1>7, <1>8, <1>9, <1>10, <2>1, Zenon

\* ... and a server that refuses announces nothing and moves nowhere.
LEMMA ResultsFit ==
  ASSUME fs \in [Paths -> Kinds], NEW dir \in Nodes, NEW c \in Commands, NEW r \in Results(dir, c)
  PROVE  Fits(dir, c, r)
<1>1. ASSUME NEW code, code = 421 \/ code = 550
      PROVE  code \in Ends /\ code # 250
  BY <1>1 DEF Codes, Openings, Ends
<1>2. \/ \E code : (code = 421 \/ code = 550) /\ r = Says(code, "", dir)
      \/ Possible(dir, c) /\ r \in Carried(dir, c)
  BY Zenon DEF Results
<1>3. ASSUME NEW code, code = 421 \/ code = 550, r = Says(code, "", dir)
      PROVE  Fits(dir, c, r)
  <2>1. code \in Ends /\ code # 250 /\ r = Says(code, "", dir)
    BY <1>1, <1>3
  <2>2. QED
    BY <2>1, SaysFits, Zenon
<1>4. CASE Possible(dir, c) /\ r \in Carried(dir, c)
  BY <1>4, CarriedFits
<1>5. QED
  BY <1>2, <1>3, <1>4

-----------------------------------------------------------------------------
(* What the client hears and does next.                                    *)

\* The three ways a wait can end.
LEMMA ReceiptForms ==
  ASSUME Types, NEW x \in Receipts
  PROVE  /\ x.reply \in Replies \cup {Failed} /\ x.dead \in BOOLEAN
         /\ x.cmds \in Seq(Commands) /\ x.replies \in Seq(Replies)
         /\ \/ /\ replies # <<>> /\ ~dead /\ x.reply = Head(replies) /\ x.reply \in Replies
               /\ ~x.dead /\ x.cmds = cmds /\ x.replies = Tail(replies)
            \/ x.reply = Failed /\ x.dead
            \/ /\ x.reply = Failed /\ cmds # <<>> /\ op.at \notin {"greeting", "completion"}
               /\ x.dead = dead /\ x.cmds = Front(cmds) /\ x.replies = replies
<1>1. dead \in BOOLEAN /\ cmds \in Seq(Commands) /\ replies \in Seq(Replies)
  BY DEF Types, LineTypes, CallTypes
<1>2. CASE ~dead /\ replies # <<>> /\ x = Heard(Head(replies), dead, cmds, Tail(replies))
  <2>1. /\ x.reply = Head(replies) /\ x.dead = dead /\ x.cmds = cmds /\ x.replies = Tail(replies)
    BY <1>2, Zenon DEF Heard
  <2>2. Head(replies) \in Replies /\ Tail(replies) \in Seq(Replies)
    BY <1>1, <1>2, HeadTailProperties
  <2>3. QED
    BY <1>1, <1>2, <2>1, <2>2, Zenon
<1>3. CASE x = Heard(Failed, TRUE, cmds, replies)
  <2>1. x.reply = Failed /\ x.dead = TRUE /\ x.cmds = cmds /\ x.replies = replies
    BY <1>3, Zenon DEF Heard
  <2>2. QED
    BY <1>1, <2>1, Zenon
<1>4. CASE /\ cmds # <<>> /\ op.at \notin {"greeting", "completion"}
           /\ x = Heard(Failed, dead, Front(cmds), replies)
  <2>1. x.reply = Failed /\ x.dead = dead /\ x.cmds = Front(cmds) /\ x.replies = replies
    BY <1>4, Zenon DEF Heard
  <2>2. Front(cmds) \in Seq(Commands)
    <3>1. Len(cmds) - 1 \in 0..Len(cmds)
      BY <1>1, <1>4, LenProperties, EmptySeq
    <3>2. QED
      BY <1>1, <3>1, Prefix DEF Front
  <2>3. QED
    BY <1>1, <1>4, <2>1, <2>2, Zenon
<1>5. QED
  BY <1>2, <1>3, <1>4, Zenon DEF Receipts

\* The line is clear for the next command.
ClearFor(x) == x.cmds = <<>> /\ x.replies = <<>> /\ ~x.dead /\ xfer = NoXfer

\* Where one reply is owed, taking it leaves nothing on its way, and so does a command
\* that could not be sent.
LEMMA Taken ==
  ASSUME Types, Flow, op.at \in Asking, NEW x \in Receipts, ~x.dead
  PROVE  /\ ClearFor(x)
         /\ \/ cmds = <<>> /\ replies = <<x.reply>> /\ x.reply \in Replies
            \/ op.at # "greeting" /\ cmds # <<>> /\ replies = <<>> /\ x.reply = Failed
<1>1. Asked(op.at) \/ Answered
  BY DEF Flow
<1>2. CASE Answered
  <2>1. PICK r \in Replies : cmds = <<>> /\ replies = <<r>> /\ xfer = NoXfer
    BY <1>2 DEF Answered
  <2>2. Head(<<r>>) = r /\ Tail(<<r>>) = <<>>
    BY Single
  <2>3. x.reply = Head(replies) /\ x.cmds = cmds /\ x.replies = Tail(replies) /\ x.reply \in Replies
    BY <2>1, ReceiptForms, Zenon
  <2>4. QED
    BY <2>1, <2>2, <2>3, Zenon DEF ClearFor
<1>3. CASE Asked(op.at)
  <2>1. PICK c \in Commands : cmds = <<c>> /\ replies = <<>> /\ xfer = NoXfer
    BY <1>3 DEF Asked
  <2>2. Front(<<c>>) = <<>> /\ <<c>> # <<>>
    BY Single
  <2>3. /\ x.reply = Failed /\ op.at \notin {"greeting", "completion"}
        /\ x.cmds = Front(cmds) /\ x.replies = replies
    BY <2>1, ReceiptForms, Zenon
  <2>4. QED
    BY <2>1, <2>2, <2>3, Zenon DEF ClearFor
<1>4. QED
  BY <1>1, <1>2, <1>3

\* A call that goes on.
LEMMA AskTypes ==
  ASSUME CallTypes, NEW x, x.cmds \in Seq(Commands), NEW at \in Asking \cup {"opening"},
         NEW verb \in Verbs, NEW name \in Steps \cup {""}, Ask(x, at, verb, name),
         at \in Fetching => op.api \in TransferApis
  PROVE  /\ CallTypes'
         /\ op'.at = at /\ op'.api = op.api /\ op'.path = op.path /\ op'.plan = <<>>
         /\ cmds' = Append(x.cmds, [verb |-> verb, name |-> name])
         /\ [verb |-> verb, name |-> name] \in Commands
<1> DEFINE c == [verb |-> verb, name |-> name]
<1>1. c \in Commands
  BY DEF Commands
<1>2. op' = [op EXCEPT !.at = at, !.plan = <<>>] /\ cmds' = Append(x.cmds, c) /\ answer' = answer
  BY DEF Ask
<1> HIDE DEF c
<1>3. cmds' \in Seq(Commands)
  BY <1>1, <1>2, AppendProperties
<1>4. op' \in Ops /\ op'.at = at /\ op'.api = op.api /\ op'.path = op.path /\ op'.plan = <<>>
  <2>1. op \in Ops
    BY DEF CallTypes
  <2>2. at \in Resting \cup Asking \cup {"opening"} \cup Transferring
    BY Zenon
  <2>3. <<>> \in Seq(Steps)
    BY EmptySeq
  <2>4. QED
    BY <1>2, <2>1, <2>2, <2>3 DEF Ops
<1>5. at # "idle"
  BY DEF Asking
<1>6. op' # NoOp
  <2>1. NoOp.at = "idle"
    BY DEF NoOp
  <2>2. QED
    BY <1>4, <1>5, <2>1, Zenon
<1>7. QED
  BY <1>1, <1>2, <1>3, <1>4, <1>5, <1>6 DEF CallTypes, c

\* A call that waits for something else, with the commands cs on their way.
LEMMA MoveTypes ==
  ASSUME CallTypes, NEW cs \in Seq(Commands), cmds' = cs, answer' = answer,
         NEW at \in Resting \cup Asking \cup {"opening"} \cup Transferring, at # "idle",
         op' = [op EXCEPT !.at = at], at \in Fetching => op.api \in TransferApis
  PROVE  /\ CallTypes'
         /\ op'.at = at /\ op'.api = op.api /\ op'.path = op.path /\ op'.plan = op.plan
<1>1. op' \in Ops /\ op'.at = at /\ op'.api = op.api /\ op'.path = op.path /\ op'.plan = op.plan
  BY DEF CallTypes, Ops
<1>2. NoOp.at = "idle"
  BY DEF NoOp
<1>3. op' # NoOp
  BY <1>1, <1>2, Zenon
<1>4. QED
  BY <1>1, <1>3, Zenon DEF CallTypes

\* A call that ends.
LEMMA ReturnTypes ==
  ASSUME CallTypes, NEW x, x.cmds \in Seq(Commands), NEW a \in Answers, Return(x, a)
  PROVE  CallTypes' /\ op' = NoOp /\ op'.at = "idle" /\ cmds' = x.cmds
<1>1. cmds' = x.cmds /\ op' = NoOp /\ answer' \in {answer, a}
  BY DEF Return
<1>2. NoOp \in Ops /\ NoOp.at = "idle"
  BY EmptySeq DEF NoOp, Ops, Nodes, Resting, Kinds
<1>3. "idle" \notin Fetching
  BY DEF Fetching, Transferring
<1>4. QED
  BY <1>1, <1>2, <1>3 DEF CallTypes, Answers

-----------------------------------------------------------------------------
(* Going on and ending keep the session in step.                           *)

\* What was heard is off the line, and nothing else has happened on it.
Onward(x) == ClearFor(x) /\ dead' = x.dead /\ replies' = x.replies /\ xfer' = xfer

\* The call goes on or ends as it should, if the session is where the client believes.
Continues(x) == CallTypes' /\ (Onward(x) /\ cwd' = current' => Flow' /\ Whereabouts')

\* The client rests, with nothing on its way.
LEMMA RestSettles ==
  ASSUME op'.at \in Resting, Clear', ~dead', cwd' = current'
  PROVE  Flow' /\ Whereabouts'
<1>1. op'.at \notin Asking \cup Transferring \cup {"opening", "CWD", "enter", "leave"}
  BY DEF Resting, Asking, Transferring
<1>2. Flow'
  BY <1>1, Zenon DEF Flow
<1>3. Whereabouts'
  BY <1>1, Zenon DEF Whereabouts
<1>4. QED
  BY <1>2, <1>3

\* A command is on its way, and it is the one the client waits at.
LEMMA AskSettles ==
  ASSUME NEW c \in Commands, c.verb \in AwaitedVerbs(op'.at), op'.at \in Asking \cup {"opening"},
         cmds' = <<c>>, replies' = <<>>, xfer' = NoXfer, ~dead'
  PROVE  Flow'
<1>1. op'.at \notin Resting \cup Transferring /\ "opening" \notin Asking
  BY DEF Resting, Asking, Transferring
<1>2. Asked(op.at)'
  BY Zenon DEF Asked
<1>3. op'.at = "opening" => Asked("opening")'
  BY Zenon DEF Asked
<1>4. QED
  BY <1>1, <1>2, <1>3, Zenon DEF Flow

LEMMA AskContinues ==
  ASSUME CallTypes, NEW x, x.cmds \in Seq(Commands), NEW at \in Asking \cup {"opening"},
         NEW verb \in Verbs, verb \in AwaitedVerbs(at), NEW name \in Steps \cup {""},
         at \notin {"CWD", "leave"}, at = "enter" => name = FileName(op.path),
         at \in Fetching => op.api \in TransferApis,
         Ask(x, at, verb, name)
  PROVE  Continues(x)
<1> DEFINE c == [verb |-> verb, name |-> name]
<1>1. /\ CallTypes' /\ op'.at = at /\ op'.path = op.path
      /\ cmds' = Append(x.cmds, c) /\ c \in Commands
  BY AskTypes, Zenon
<1>2. c.verb = verb /\ c.name = name
  OBVIOUS
<1> HIDE DEF c
<1>3. ASSUME Onward(x), cwd' = current'
      PROVE  Flow' /\ Whereabouts'
  <2>1. Append(<<>>, c) = <<c>> /\ <<c>>[1] = c
    BY Single
  <2>2. cmds' = <<c>> /\ cmds'[1] = c /\ replies' = <<>> /\ xfer' = NoXfer /\ ~dead'
    BY <1>1, <1>3, <2>1, Zenon DEF Onward, ClearFor
  <2>3. Flow'
    BY <1>1, <1>2, <2>2, AskSettles, Zenon
  <2>4. Whereabouts'
    BY <1>1, <1>2, <1>3, <2>2, Zenon DEF Whereabouts
  <2>5. QED
    BY <2>3, <2>4
<1>4. QED
  BY <1>1, <1>3, Zenon DEF Continues

LEMMA ReturnContinues ==
  ASSUME CallTypes, NEW x, x.cmds \in Seq(Commands), NEW a \in Answers, Return(x, a)
  PROVE  Continues(x)
<1>1. CallTypes' /\ op'.at = "idle" /\ cmds' = x.cmds
  BY ReturnTypes
<1>2. "idle" \in Resting
  BY DEF Resting
<1>3. ASSUME Onward(x), cwd' = current'
      PROVE  Flow' /\ Whereabouts'
  <2>1. Clear' /\ ~dead'
    BY <1>1, <1>3, Zenon DEF Onward, ClearFor, Clear
  <2>2. QED
    BY <1>1, <1>2, <1>3, <2>1, RestSettles
<1>4. QED
  BY <1>1, <1>3, Zenon DEF Continues

LEMMA ErrorContinues ==
  ASSUME CallTypes, NEW x, x.cmds \in Seq(Commands), Return(x, "error")
  PROVE  Continues(x)
<1>1. "error" \in Answers
  BY DEF Answers
<1>2. QED
  BY <1>1, ReturnContinues

\* The verbs the client waits at.
LEMMA Awaited ==
  /\ \A at \in {"idle", "begin", "greeting", "USER", "PASS", "FEAT", "CWD", "MLST", "SIZE", "enter",
                "leave", "create", "remove"} : at \notin Fetching
  /\ \A at \in {"USER", "PASS", "FEAT", "MLST", "SIZE", "PASV"} :
       at \in Asking /\ at \in Verbs /\ at \in AwaitedVerbs(at)
  /\ "enter" \in Asking /\ "CWD" \in Verbs /\ "CWD" \in AwaitedVerbs("enter")
  /\ "leave" \in Asking /\ "CWD" \in AwaitedVerbs("leave")
  /\ "CWD" \in Asking /\ "CWD" \in AwaitedVerbs("CWD")
  /\ "create" \in Asking /\ "MKD" \in Verbs /\ "MKD" \in AwaitedVerbs("create")
  /\ "remove" \in Asking /\ "RMD" \in Verbs /\ "DELE" \in Verbs
  /\ "RMD" \in AwaitedVerbs("remove") /\ "DELE" \in AwaitedVerbs("remove")
<1>1. \A at \in {"USER", "PASS", "FEAT", "MLST", "SIZE", "PASV", "CWD", "enter", "leave", "create", "remove"} : at \in Asking
  BY DEF Asking
<1>2. \A v \in {"USER", "PASS", "FEAT", "MLST", "SIZE", "PASV", "CWD", "MKD", "RMD", "DELE"} : v \in Verbs
  BY DEF Verbs
<1>3. \A at \in {"USER", "PASS", "FEAT", "MLST", "SIZE", "PASV", "CWD"} : at \in AwaitedVerbs(at)
  BY DEF AwaitedVerbs
<1>4. /\ "CWD" \in AwaitedVerbs("enter") /\ "CWD" \in AwaitedVerbs("leave")
      /\ "MKD" \in AwaitedVerbs("create")
      /\ "RMD" \in AwaitedVerbs("remove") /\ "DELE" \in AwaitedVerbs("remove")
  BY DEF AwaitedVerbs
<1>5. \A at \in {"idle", "begin", "greeting", "USER", "PASS", "FEAT", "CWD", "MLST", "SIZE", "enter",
                "leave", "create", "remove"} : at \notin Fetching
  BY DEF Fetching, Transferring
<1>6. QED
  BY <1>1, <1>2, <1>3, <1>4, <1>5

\* The name of the target is a name, or empty.
LEMMA OpFields ==
  ASSUME CallTypes
  PROVE  /\ op.path \in Nodes /\ Place(op) \in Nodes
         /\ FileName(op.path) \in Steps \cup {""} /\ FileName(op.path) \in Names \cup {""}
         /\ op.plan \in Seq(Steps) /\ op.api \in Apis \cup {"none", "connect"}
<1>1. op.path \in Nodes /\ op.plan \in Seq(Steps) /\ op.api \in Apis \cup {"none", "connect"}
  BY DEF CallTypes, Ops
<1>2. FileName(op.path) \in Names \cup {""} /\ Parent(op.path) \in Nodes
  BY <1>1, NodeType, Zenon
<1>3. FileName(op.path) \in Steps \cup {""}
  BY <1>2, Zenon DEF Steps
<1>4. Place(op) \in Nodes
  BY <1>1, <1>2, Zenon DEF Place
<1>5. QED
  BY <1>1, <1>2, <1>3, <1>4, Zenon

\* A command with the name of the target.
LEMMA NameContinues ==
  ASSUME CallTypes, NEW x, x.cmds \in Seq(Commands), NEW at \in Asking \cup {"opening"},
         NEW verb \in Verbs, verb \in AwaitedVerbs(at), at \notin {"CWD", "leave"},
         at \in Fetching => op.api \in TransferApis,
         Ask(x, at, verb, FileName(op.path))
  PROVE  Continues(x)
<1>1. PICK name \in Steps \cup {""} : name = FileName(op.path)
  BY OpFields
<1>2. Ask(x, at, verb, name)
  BY <1>1
<1>3. QED
  BY <1>1, <1>2, AskContinues, Zenon

LEMMA ProbeContinues ==
  ASSUME CallTypes, NEW x, x.cmds \in Seq(Commands), NEW extensions, Probe(x, extensions)
  PROVE  Continues(x)
<1>1. CASE Ask(x, "MLST", "MLST", FileName(op.path))
  <2>1. /\ "MLST" \in Asking /\ "MLST" \in Verbs /\ "MLST" \in AwaitedVerbs("MLST")
        /\ "MLST" \notin Fetching
    BY Awaited
  <2>2. QED
    BY <1>1, <2>1, NameContinues
<1>2. CASE Ask(x, "SIZE", "SIZE", FileName(op.path))
  <2>1. /\ "SIZE" \in Asking /\ "SIZE" \in Verbs /\ "SIZE" \in AwaitedVerbs("SIZE")
        /\ "SIZE" \notin Fetching
    BY Awaited
  <2>2. QED
    BY <1>2, <2>1, NameContinues
<1>3. CASE Ask(x, "enter", "CWD", FileName(op.path))
  <2>1. /\ "enter" \in Asking /\ "CWD" \in Verbs /\ "CWD" \in AwaitedVerbs("enter")
        /\ "enter" \notin Fetching
    BY Awaited
  <2>2. QED
    BY <1>3, <2>1, NameContinues
<1>4. QED
  BY <1>1, <1>2, <1>3 DEF Probe

LEMMA FoundContinues ==
  ASSUME CallTypes, NEW x, x.cmds \in Seq(Commands), Found(x)
  PROVE  Continues(x)
<1>1. PICK a \in Answers : Return(x, a)
  BY DEF Found, Answers
<1>2. QED
  BY <1>1, ReturnContinues

LEMMA IsDirContinues ==
  ASSUME CallTypes, NEW x, x.cmds \in Seq(Commands), NEW dir, IsDir(x, dir)
  PROVE  Continues(x)
<1>1. CASE \E a \in Answers : Return(x, a)
  BY <1>1, ReturnContinues
<1>2. CASE \E verb \in {"RMD", "DELE"} : Ask(x, "remove", verb, FileName(op.path))
  <2>1. PICK verb \in {"RMD", "DELE"} : Ask(x, "remove", verb, FileName(op.path))
    BY <1>2
  <2>2. /\ "remove" \in Asking /\ verb \in Verbs /\ verb \in AwaitedVerbs("remove")
        /\ "remove" \notin Fetching
    BY Awaited
  <2>3. QED
    BY <2>1, <2>2, NameContinues
<1>3. QED
  BY <1>1, <1>2 DEF IsDir, Answers

LEMMA InPlaceContinues ==
  ASSUME CallTypes, NEW x, x.cmds \in Seq(Commands), InPlace(x)
  PROVE  Continues(x)
<1>1. CASE \E extensions : Probe(x, extensions)
  BY <1>1, ProbeContinues
<1>2. CASE Ask(x, "remove", "RMD", "")
  <2>1. /\ "remove" \in Asking /\ "RMD" \in Verbs /\ "RMD" \in AwaitedVerbs("remove")
        /\ "remove" \notin Fetching
    BY Awaited
  <2>2. QED
    BY <1>2, <2>1, AskContinues
<1>3. CASE op.api \in TransferApis /\ Ask(x, "PASV", "PASV", "")
  <2>1. "PASV" \in Asking /\ "PASV" \in Verbs /\ "PASV" \in AwaitedVerbs("PASV")
    BY Awaited
  <2>2. QED
    BY <1>3, <2>1, AskContinues
<1>4. QED
  BY <1>1, <1>2, <1>3 DEF InPlace, TransferApis

LEMMA LoginContinues ==
  ASSUME CallTypes, NEW x, x.cmds \in Seq(Commands), NEW user, NEW pass, Login(x, user, pass)
  PROVE  Continues(x)
<1>1. PICK at \in {"USER", "PASS", "FEAT"} : Ask(x, at, at, "")
  BY DEF Login
<1>2. at \in Asking /\ at \in Verbs /\ at \in AwaitedVerbs(at) /\ at \notin Fetching
  BY Awaited
<1>3. at \notin {"CWD", "leave"} /\ at # "enter"
  OBVIOUS
<1>4. QED
  BY <1>1, <1>2, <1>3, AskContinues

-----------------------------------------------------------------------------
(* The invariant holds after each step.                                    *)

\* A handler that takes a reply and leaves the server alone.
LEMMA HearStep ==
  ASSUME Inv, NEW x \in Receipts, op.at # "idle", dead' = x.dead, replies' = x.replies,
         fault' \in BOOLEAN, ~fault' => ~fault /\ ~x.dead,
         current' \in Nodes, caps' \subseteq {"MLST", "SIZE"},
         data' \in DataStates,
         up' = up, fs' = fs, cwd' = cwd, features' = features, late' = late, calls' = calls,
         CallTypes',
         ~fault' /\ Flow /\ Whereabouts /\ ~x.dead => Flow' /\ Whereabouts'
  PROVE  Inv'
<1>1. Types /\ up
  BY Zenon DEF Inv, Down
<1>2. x.dead \in BOOLEAN /\ x.replies \in Seq(Replies)
  BY <1>1, ReceiptForms
<1>3. ServerTypes'
  BY <1>1, Zenon DEF Types, ServerTypes
<1>4. LineTypes'
  BY <1>2, Zenon DEF LineTypes
<1>5. ClientTypes'
  BY <1>1, Zenon DEF Types, ClientTypes
<1>6. Types' /\ Down'
  BY <1>1, <1>3, <1>4, <1>5, Zenon DEF Types, Down
<1>7. up' /\ ~fault' => Flow' /\ Whereabouts'
  BY <1>1, Zenon DEF Inv
<1>8. QED
  BY <1>6, <1>7, Zenon DEF Inv

\* ... where exactly one reply is owed.
LEMMA AskingStep ==
  ASSUME Inv, NEW x \in Receipts, op.at \in Asking, dead' = x.dead, replies' = x.replies,
         fault' \in BOOLEAN, ~fault' => ~fault /\ ~x.dead,
         current' \in Nodes, caps' \subseteq {"MLST", "SIZE"},
         up' = up, data' = data, fs' = fs, cwd' = cwd, xfer' = xfer, features' = features,
         late' = late, calls' = calls,
         Continues(x),
         ~fault' /\ Flow /\ Whereabouts /\ ~x.dead => cwd' = current'
  PROVE  Inv'
<1>1. op.at # "idle"
  BY DEF Asking
<1>2. Types /\ data \in DataStates
  BY DEF Inv, Types, LineTypes
<1>3. ASSUME ~fault', Flow, Whereabouts, ~x.dead
      PROVE  Flow' /\ Whereabouts'
  <2>1. ClearFor(x)
    BY <1>2, <1>3, Taken
  <2>2. QED
    BY <1>3, <2>1, Zenon DEF Onward, Continues
<1>4. CallTypes'
  BY DEF Continues
<1>5. QED
  BY <1>1, <1>2, <1>3, <1>4, HearStep, Zenon


\* ... and leaves the client's own state alone.
LEMMA QueryStep ==
  ASSUME Inv, NEW x \in Receipts, op.at \in Asking, dead' = x.dead, replies' = x.replies,
         fault' \in BOOLEAN, ~fault' => ~fault /\ ~x.dead,
         UNCHANGED <<client, data, server, calls>>,
         Continues(x),
         ~fault' /\ Flow /\ Whereabouts /\ ~x.dead => cwd = current
  PROVE  Inv'
<1>1. /\ up' = up /\ current' = current /\ caps' = caps /\ data' = data /\ fs' = fs /\ cwd' = cwd
      /\ xfer' = xfer /\ features' = features /\ late' = late /\ calls' = calls
  BY DEF client, server
<1>2. current' \in Nodes /\ caps' \subseteq {"MLST", "SIZE"}
  BY <1>1, Zenon DEF Inv, Types, ClientTypes
<1>3. ~fault' /\ Flow /\ Whereabouts /\ ~x.dead => cwd' = current'
  BY <1>1, Zenon
<1>4. QED
  BY <1>1, <1>2, <1>3, AskingStep, Zenon

\* What a handler may assume of the reply it takes.
LEMMA Basics ==
  ASSUME Inv, NEW x \in Receipts
  PROVE  /\ Types /\ CallTypes /\ x.cmds \in Seq(Commands) /\ fault \in BOOLEAN /\ x.dead \in BOOLEAN
<1>1. Types
  BY DEF Inv
<1>2. QED
  BY <1>1, ReceiptForms, Zenon DEF Types, ClientTypes

LEMMA MlstStep ==
  ASSUME Inv, HearMlst, UNCHANGED <<client, data, server, calls>>
  PROVE  Inv'
<1>1. PICK x \in Receipts :
        /\ Waits("MLST", x) /\ Note(x, FALSE)
        /\ \/ Found(x) \/ Probe(x, {"SIZE"}) \/ IsDir(x, x.reply.fact = "dir") \/ Probe(x, {})
  BY DEF HearMlst
<1>2. Types /\ CallTypes /\ x.cmds \in Seq(Commands) /\ fault \in BOOLEAN /\ x.dead \in BOOLEAN
  BY Basics
<1>3. op.at = "MLST" /\ op.at \in Asking /\ dead' = x.dead /\ replies' = x.replies
  BY <1>1, Awaited DEF Waits
<1>4. fault' \in BOOLEAN /\ (~fault' => ~fault /\ ~x.dead)
  BY <1>1, <1>2 DEF Note
<1>5. Continues(x)
  <2>1. CASE Found(x)
    BY <1>2, <2>1, FoundContinues
  <2>2. CASE \E extensions : Probe(x, extensions)
    BY <1>2, <2>2, ProbeContinues
  <2>3. CASE \E dir : IsDir(x, dir)
    BY <1>2, <2>3, IsDirContinues
  <2>4. QED
    BY <1>1, <2>1, <2>2, <2>3
<1>6. Whereabouts => cwd = current
  BY <1>3 DEF Whereabouts
<1>7. QED
  BY <1>3, <1>4, <1>5, <1>6, QueryStep, Zenon

LEMMA SizeStep ==
  ASSUME Inv, HearSize, UNCHANGED <<client, data, server, calls>>
  PROVE  Inv'
<1>1. PICK x \in Receipts :
        /\ Waits("SIZE", x) /\ Note(x, FALSE)
        /\ \/ Found(x) \/ Probe(x, {}) \/ IsDir(x, FALSE) \/ Return(x, "error")
  BY DEF HearSize
<1>2. Types /\ CallTypes /\ x.cmds \in Seq(Commands) /\ fault \in BOOLEAN /\ x.dead \in BOOLEAN
  BY Basics
<1>3. op.at = "SIZE" /\ op.at \in Asking /\ dead' = x.dead /\ replies' = x.replies
  BY <1>1, Awaited DEF Waits
<1>4. fault' \in BOOLEAN /\ (~fault' => ~fault /\ ~x.dead)
  BY <1>1, <1>2 DEF Note
<1>5. Continues(x)
  <2>1. CASE Found(x)
    BY <1>2, <2>1, FoundContinues
  <2>2. CASE \E extensions : Probe(x, extensions)
    BY <1>2, <2>2, ProbeContinues
  <2>3. CASE \E dir : IsDir(x, dir)
    BY <1>2, <2>3, IsDirContinues
  <2>4. CASE Return(x, "error")
    BY <1>2, <2>4, ErrorContinues
  <2>5. QED
    BY <1>1, <2>1, <2>2, <2>3, <2>4
<1>6. Whereabouts => cwd = current
  BY <1>3 DEF Whereabouts
<1>7. QED
  BY <1>3, <1>4, <1>5, <1>6, QueryStep, Zenon

LEMMA LeaveStep ==
  ASSUME Inv, HearLeave, UNCHANGED <<client, data, server, calls>>
  PROVE  Inv'
<1>1. PICK x \in Receipts :
        /\ Waits("leave", x) /\ Note(x, x.reply.code # 250)
        /\ \/ Found(x) \/ IsDir(x, TRUE) \/ Return(x, "error")
  BY DEF HearLeave
<1>2. Types /\ CallTypes /\ x.cmds \in Seq(Commands) /\ fault \in BOOLEAN /\ x.dead \in BOOLEAN
  BY Basics
<1>3. op.at = "leave" /\ op.at \in Asking /\ dead' = x.dead /\ replies' = x.replies
  BY <1>1, Awaited DEF Waits
<1>4. fault' \in BOOLEAN /\ (~fault' => ~fault /\ ~x.dead /\ x.reply.code = 250)
  BY <1>1, <1>2 DEF Note
<1>5. Continues(x)
  <2>1. CASE Found(x)
    BY <1>2, <2>1, FoundContinues
  <2>2. CASE \E dir : IsDir(x, dir)
    BY <1>2, <2>2, IsDirContinues
  <2>3. CASE Return(x, "error")
    BY <1>2, <2>3, ErrorContinues
  <2>4. QED
    BY <1>1, <2>1, <2>2, <2>3
<1>6. ASSUME ~fault', Flow, Whereabouts, ~x.dead
      PROVE  cwd = current
  <2>1. x.reply.code = 250 /\ Failed.code # 250
    BY <1>4, <1>6 DEF Failed
  <2>2. replies = <<x.reply>>
    BY <1>2, <1>3, <1>6, <2>1, Taken, Zenon
  <2>3. replies # <<>> /\ replies[1] = x.reply
    BY <2>2, Single
  <2>4. QED
    BY <1>3, <1>6, <2>1, <2>3, Zenon DEF Whereabouts
<1>7. QED
  BY <1>3, <1>4, <1>5, <1>6, QueryStep, Zenon

LEMMA LastStep ==
  ASSUME Inv, HearCreate \/ HearRemove, UNCHANGED <<client, data, server, calls>>
  PROVE  Inv'
<1>1. PICK x \in Receipts, at \in {"create", "remove"}, a \in Answers :
        Waits(at, x) /\ Note(x, FALSE) /\ Return(x, a)
  BY DEF HearCreate, HearRemove, Answers
<1>2. Types /\ CallTypes /\ x.cmds \in Seq(Commands) /\ fault \in BOOLEAN /\ x.dead \in BOOLEAN
  BY Basics
<1>3. op.at = at /\ op.at \in Asking /\ dead' = x.dead /\ replies' = x.replies
  BY <1>1, Awaited DEF Waits
<1>4. fault' \in BOOLEAN /\ (~fault' => ~fault /\ ~x.dead)
  BY <1>1, <1>2 DEF Note
<1>5. Continues(x)
  BY <1>1, <1>2, ReturnContinues
<1>6. Whereabouts => cwd = current
  BY <1>3 DEF Whereabouts
<1>7. QED
  BY <1>3, <1>4, <1>5, <1>6, QueryStep, Zenon


\* A probe by CWD that went in has to come out again.
LEMMA EnterStep ==
  ASSUME Inv, HearEnter, UNCHANGED <<client, data, server, calls>>
  PROVE  Inv'
<1>1. PICK x \in Receipts :
        /\ Waits("enter", x) /\ Note(x, FALSE)
        /\ \/ x.reply.code = 250 /\ Ask(x, "leave", "CWD", "..")
           \/ /\ x.reply.code # 250 \/ x.reply.code = 550
              /\ \/ Return(x, "false") \/ Return(x, "error")
                 \/ Ask(x, "create", "MKD", FileName(op.path))
                 \/ Ask(x, "SIZE", "SIZE", FileName(op.path))
  BY Zenon DEF HearEnter
<1>2. Types /\ CallTypes /\ x.cmds \in Seq(Commands) /\ fault \in BOOLEAN /\ x.dead \in BOOLEAN
  BY Basics
<1>3. op.at = "enter" /\ op.at \in Asking /\ dead' = x.dead /\ replies' = x.replies
  BY <1>1, Awaited DEF Waits
<1>4. fault' \in BOOLEAN /\ (~fault' => ~fault /\ ~x.dead)
  BY <1>1, <1>2 DEF Note
<1>5. CASE x.reply.code # 250
  <2>1. Continues(x)
    <3>1. CASE Return(x, "false") \/ Return(x, "error")
      <4>1. "false" \in Answers /\ "error" \in Answers
        BY DEF Answers
      <4>2. QED
        BY <1>2, <3>1, <4>1, ReturnContinues
    <3>2. CASE Ask(x, "create", "MKD", FileName(op.path))
      BY <1>2, <3>2, Awaited, NameContinues
    <3>3. CASE Ask(x, "SIZE", "SIZE", FileName(op.path))
      BY <1>2, <3>3, Awaited, NameContinues
    <3>4. QED
      BY <1>1, <1>5, <3>1, <3>2, <3>3
  <2>2. ASSUME ~fault', Flow, Whereabouts, ~x.dead
        PROVE  cwd = current
    <3>1. CASE replies = <<x.reply>>
      <4>1. replies # <<>> /\ replies[1] = x.reply
        BY <3>1, Single
      <4>2. QED
        BY <1>3, <1>5, <2>2, <4>1, Zenon DEF Whereabouts
    <3>2. CASE cmds # <<>>
      BY <1>3, <2>2, <3>2, Zenon DEF Whereabouts
    <3>3. QED
      BY <1>2, <1>3, <2>2, <3>1, <3>2, Taken, Zenon
  <2>3. QED
    BY <1>3, <1>4, <2>1, <2>2, QueryStep, Zenon
<1>6. CASE x.reply.code = 250
  <2>1. Ask(x, "leave", "CWD", "..")
    <3>1. x.reply.code # 550
      BY <1>6
    <3>2. QED
      BY <1>1, <1>6, <3>1, Zenon
  <2> DEFINE c == [verb |-> "CWD", name |-> ".."]
  <2>2. "leave" \in Asking /\ "CWD" \in Verbs /\ ".." \in Steps \cup {""} /\ "leave" \notin Fetching
    BY Awaited DEF Steps
  <2>3. /\ CallTypes' /\ op'.at = "leave" /\ cmds' = Append(x.cmds, c) /\ c \in Commands
    BY <1>2, <2>1, <2>2, AskTypes
  <2>4. c.verb = "CWD" /\ c.name = ".."
    OBVIOUS
  <2> HIDE DEF c
  <2>5. /\ up' = up /\ current' = current /\ caps' = caps /\ data' = data /\ fs' = fs /\ cwd' = cwd
        /\ xfer' = xfer /\ features' = features /\ late' = late /\ calls' = calls
    BY DEF client, server
  <2>6. /\ current' \in Nodes /\ caps' \subseteq {"MLST", "SIZE"}
        /\ data' \in DataStates
    BY <1>2, <2>5, Zenon DEF Types, ClientTypes, LineTypes
  <2>7. ASSUME ~fault', Flow, Whereabouts, ~x.dead
        PROVE  Flow' /\ Whereabouts'
    <3>1. Failed.code # 250
      BY DEF Failed
    <3>2. ClearFor(x) /\ replies = <<x.reply>>
      BY <1>2, <1>3, <1>6, <2>7, <3>1, Taken, Zenon
    <3>3. replies # <<>> /\ replies[1] = x.reply /\ Append(<<>>, c) = <<c>> /\ <<c>>[1] = c
      BY <3>2, Single
    <3>4. cwd # <<>> /\ Parent(cwd) = current
      BY <1>3, <1>6, <2>7, <3>3, Zenon DEF Whereabouts
    <3>5. /\ cmds' = <<c>> /\ cmds'[1] = c /\ replies' = <<>> /\ xfer' = NoXfer /\ ~dead'
      BY <1>3, <2>3, <2>5, <2>7, <3>2, <3>3, Zenon DEF ClearFor
    <3>6. Flow'
      BY <2>2, <2>3, <2>4, <3>5, Awaited, AskSettles, Zenon
    <3>7. Whereabouts'
      BY <2>3, <2>4, <2>5, <3>4, <3>5, Zenon DEF Whereabouts
    <3>8. QED
      BY <3>6, <3>7
  <2>8. op.at # "idle"
    BY <1>3
  <2>9. QED
    BY <1>3, <1>4, <2>3, <2>5, <2>6, <2>7, <2>8, HearStep, Zenon
<1>7. QED
  BY <1>5, <1>6

\* openDataConnection: after PASV the client rests before it dials.
LEMMA PasvStep ==
  ASSUME Inv, HearPasv
  PROVE  Inv'
<1>1. PICK x \in Receipts :
        /\ Waits("PASV", x) /\ Note(x, FALSE)
        /\ \/ /\ \E at \in {"dial", "dial anywhere"} : op' = [op EXCEPT !.at = at]
              /\ cmds' = x.cmds /\ UNCHANGED answer
           \/ Return(x, "error")
  BY DEF HearPasv
<1>2. Types /\ CallTypes /\ x.cmds \in Seq(Commands) /\ fault \in BOOLEAN /\ x.dead \in BOOLEAN
  BY Basics
<1>3. op.at = "PASV" /\ op.at \in Asking /\ dead' = x.dead /\ replies' = x.replies
  BY <1>1, Awaited DEF Waits
<1>4. fault' \in BOOLEAN /\ (~fault' => ~fault /\ ~x.dead)
  BY <1>1, <1>2 DEF Note
<1>5. Continues(x)
  <2>1. CASE Return(x, "error")
    BY <1>2, <2>1, ErrorContinues
  <2>2. ASSUME NEW at \in {"dial", "dial anywhere"}, op' = [op EXCEPT !.at = at],
               cmds' = x.cmds, answer' = answer
        PROVE  Continues(x)
    <3>1. at \in Resting /\ at # "idle"
      BY DEF Resting
    <3>2. op.api \in TransferApis
      BY <1>2, <1>3 DEF CallTypes, Fetching
    <3>3. CallTypes' /\ op'.at = at
      BY <1>2, <2>2, <3>1, <3>2, MoveTypes
    <3>4. ASSUME Onward(x), cwd' = current'
          PROVE  Flow' /\ Whereabouts'
      <4>1. Clear' /\ ~dead'
        BY <2>2, <3>4, Zenon DEF Onward, ClearFor, Clear
      <4>2. QED
        BY <3>1, <3>3, <3>4, <4>1, RestSettles
    <3>5. QED
      BY <3>3, <3>4, Zenon DEF Continues
  <2>3. QED
    BY <1>1, <2>1, <2>2
<1>6. Whereabouts => cwd = current
  BY <1>3 DEF Whereabouts
<1>7. UNCHANGED <<client, data, server, calls>>
  BY DEF HearPasv
<1>8. QED
  BY <1>3, <1>4, <1>5, <1>6, <1>7, QueryStep, Zenon


\* A step of the client that takes no reply.
LEMMA OwnStep ==
  ASSUME Inv, op.at # "idle", dead' = dead, replies' = replies,
         fault' \in BOOLEAN, ~fault' => ~fault, current' \in Nodes, caps' = caps,
         data' \in DataStates,
         up' = up, fs' = fs, cwd' = cwd, features' = features, late' = late, calls' = calls,
         CallTypes',
         ~fault' /\ Flow /\ Whereabouts => Flow' /\ Whereabouts'
  PROVE  Inv'
<1>1. Types /\ up
  BY Zenon DEF Inv, Down
<1>2. ServerTypes'
  BY <1>1, Zenon DEF Types, ServerTypes
<1>3. LineTypes'
  BY <1>1, Zenon DEF Types, LineTypes
<1>4. ClientTypes'
  BY <1>1, Zenon DEF Types, ClientTypes
<1>5. Types' /\ Down'
  BY <1>1, <1>2, <1>3, <1>4, Zenon DEF Types, Down
<1>6. up' /\ ~fault' => Flow' /\ Whereabouts'
  BY <1>1, Zenon DEF Inv
<1>7. QED
  BY <1>5, <1>6, Zenon DEF Inv

LEMMA KindType ==
  ASSUME fs \in [Paths -> Kinds], NEW p
  PROVE  Kind(p) \in Kinds
BY DEF Kind, Kinds

LEMMA CallStep ==
  ASSUME Inv, NEW api \in Apis, NEW path \in Targets, Call(api, path)
  PROVE  Inv'
<1>1. Types /\ up /\ op = NoOp
  BY DEF Inv, Call
<1>2. /\ dead' = dead /\ cmds' = cmds /\ replies' = replies /\ data' = data /\ fault' = fault
      /\ answer' = "none" /\ calls' = calls + 1 /\ calls < MaxCalls
      /\ up' = up /\ current' = current /\ caps' = caps /\ fs' = fs /\ cwd' = cwd
      /\ xfer' = xfer /\ features' = features /\ late' = late
  BY DEF Call, client, server
<1>3. path \in Nodes /\ Kind(path) \in Kinds
  BY <1>1, TargetsAssumption, KindType DEF Nodes, Types, ServerTypes
<1>4. op' \in Ops /\ op'.at = "begin"
  <2>1. op' = [NoOp EXCEPT !.api = api, !.path = path, !.at = "begin", !.before = Kind(path)]
    BY DEF Call
  <2>2. NoOp \in Ops
    BY EmptySeq DEF NoOp, Ops, Nodes, Resting, Kinds
  <2>3. "begin" \in Resting /\ api \in Apis \cup {"none", "connect"}
    BY DEF Resting
  <2>4. QED
    BY <1>3, <2>1, <2>2, <2>3 DEF Ops
<1>5. op' # NoOp
  <2>1. NoOp.at = "idle"
    BY DEF NoOp
  <2>2. QED
    BY <1>4, <2>1
<1>6. CallTypes'
  <2>1. cmds \in Seq(Commands)
    BY <1>1 DEF Types, CallTypes
  <2>2. QED
    BY <1>2, <1>4, <1>5, <2>1, Awaited DEF CallTypes, Answers
<1>7. ServerTypes' /\ LineTypes'
  BY <1>1, <1>2, Zenon DEF Types, ServerTypes, LineTypes
<1>8. ClientTypes'
  <2>1. calls' \in 0..MaxCalls
    BY <1>1, <1>2, BoundAssumption DEF Types, ClientTypes
  <2>2. QED
    BY <1>1, <1>2, <2>1, Zenon DEF Types, ClientTypes
<1>9. ASSUME Flow, Whereabouts
      PROVE  Flow' /\ Whereabouts'
  <2>1. op.at = "idle" /\ "idle" \in Resting /\ op'.at \in Resting
    BY <1>1, <1>4 DEF NoOp, Resting
  <2>2. Clear /\ ~dead
    BY <1>9, <2>1 DEF Flow
  <2>3. cwd = current
    BY <1>9, <2>1 DEF Whereabouts
  <2>4. Clear' /\ ~dead' /\ cwd' = current'
    BY <1>2, <2>2, <2>3, Zenon DEF Clear
  <2>5. QED
    BY <2>1, <2>4, RestSettles
<1>10. QED
  BY <1>1, <1>2, <1>6, <1>7, <1>8, <1>9, Zenon DEF Inv, Types, Down

\* A directory change is on its way.
LEMMA CwdSettles ==
  ASSUME op'.at = "CWD", NEW c \in Commands, c.verb = "CWD", c.name = Head(op'.plan),
         cmds' = <<c>>, replies' = <<>>, xfer' = NoXfer, ~dead',
         op'.plan # <<>>, Len(op'.plan) <= Len(Plan(current', Place(op'))),
         Leads(cwd', op'.plan, Place(op')),
         op'.plan = Plan(current', Place(op')) => cwd' = current'
  PROVE  Flow' /\ Whereabouts'
<1>1. op'.at \in Asking /\ c.verb \in AwaitedVerbs(op'.at)
  BY Awaited
<1>2. Flow'
  BY <1>1, AskSettles, Zenon
<1>3. cmds'[1] = c
  BY Single, Zenon
<1>4. Whereabouts'
  BY <1>3, Zenon DEF Whereabouts, FirstStep
<1>5. QED
  BY <1>2, <1>4


LEMMA PlanTypes ==
  ASSUME CallTypes, NEW plan \in Seq(Steps),
         \/ op' = [op EXCEPT !.at = "CWD", !.plan = plan]
         \/ op.at = "CWD" /\ op' = [op EXCEPT !.plan = plan],
         NEW c \in Commands, NEW cs \in Seq(Commands), cmds' = Append(cs, c), answer' = answer
  PROVE  /\ CallTypes' /\ op'.at = "CWD" /\ op'.plan = plan /\ Place(op') = Place(op)
<1>1. /\ op' \in Ops /\ op'.at = "CWD" /\ op'.plan = plan /\ op'.api = op.api /\ op'.path = op.path
  <2>1. "CWD" \in Resting \cup Asking \cup {"opening"} \cup Transferring
    BY DEF Asking
  <2>2. CASE op' = [op EXCEPT !.at = "CWD", !.plan = plan]
    BY <2>1, <2>2 DEF CallTypes, Ops
  <2>3. CASE op.at = "CWD" /\ op' = [op EXCEPT !.plan = plan]
    BY <2>3 DEF CallTypes, Ops
  <2>4. QED
    BY <2>2, <2>3
<1>2. NoOp.at = "idle"
  BY DEF NoOp
<1>3. op' # NoOp
  BY <1>1, <1>2
<1>4. cmds' \in Seq(Commands)
  BY AppendProperties
<1>5. CallTypes'
  BY <1>1, <1>3, <1>4, Awaited DEF CallTypes
<1>6. QED
  BY <1>1, <1>5 DEF Place

\* A directory change that has nothing to do is one that is in place already.
LEMMA BeginStep ==
  ASSUME Inv, Begin
  PROVE  Inv'
<1> DEFINE plan == Plan(current, Place(op))
<1>1. Types /\ CallTypes /\ current \in Nodes /\ Place(op) \in Nodes
  BY OpFields DEF Inv, Types, ClientTypes
<1>2. /\ op.at = "begin" /\ op.at # "idle" /\ "begin" \in Resting /\ dead' = dead /\ replies' = replies
      /\ data' = data /\ fault' = fault /\ up' = up /\ caps' = caps /\ calls' = calls
      /\ fs' = fs /\ cwd' = cwd /\ xfer' = xfer /\ features' = features /\ late' = late
  BY DEF Begin, server, Resting
<1>3. plan \in Seq(Steps) /\ Leads(current, plan, Place(op))
  BY <1>1, PlanLeads
<1>4. PICK x : x = Quiet
  OBVIOUS
<1>5. x.cmds = cmds /\ x.replies = replies /\ x.dead = dead /\ x.cmds \in Seq(Commands)
  BY <1>1, <1>4 DEF Quiet, Heard, CallTypes
<1>6. \/ /\ \/ Return(x, "ok") \/ Return(x, "true")
         /\ current' = current
      \/ plan = <<>> /\ InPlace(x) /\ current' = Place(op)
      \/ /\ plan # <<>> /\ op' = [op EXCEPT !.at = "CWD", !.plan = plan]
         /\ cmds' = Append(cmds, [verb |-> "CWD", name |-> Head(plan)])
         /\ answer' = answer /\ current' = current
  BY <1>4 DEF Begin
<1> HIDE DEF plan
<1>7. ASSUME Flow, Whereabouts
      PROVE  Clear /\ ~dead /\ cwd = current
  <2>1. Clear /\ ~dead
    BY <1>2, <1>7, Zenon DEF Flow
  <2>2. op.at \notin {"CWD", "enter", "leave"}
    BY <1>2
  <2>3. QED
    BY <1>7, <2>1, <2>2, Zenon DEF Whereabouts
<1>8. ASSUME Flow, Whereabouts
      PROVE  Onward(x)
  BY <1>2, <1>5, <1>7, <1>8, Zenon DEF Onward, ClearFor, Clear
<1>9. CASE (Return(x, "ok") \/ Return(x, "true")) /\ current' = current
  <2>1. "ok" \in Answers /\ "true" \in Answers
    BY DEF Answers
  <2>2. Continues(x)
    BY <1>1, <1>5, <1>9, <2>1, ReturnContinues
  <2>3. ASSUME Flow, Whereabouts
        PROVE  Flow' /\ Whereabouts'
    BY <1>2, <1>7, <1>8, <1>9, <2>2, <2>3, Zenon DEF Continues
  <2>4. CallTypes'
    BY <2>2 DEF Continues
  <2>5. QED
    BY <1>1, <1>2, <1>9, <2>3, <2>4, OwnStep, Zenon DEF Types, ClientTypes, LineTypes
<1>10. CASE plan = <<>> /\ InPlace(x) /\ current' = Place(op)
  <2>1. Continues(x)
    BY <1>1, <1>5, <1>10, InPlaceContinues
  <2>2. current = Place(op)
    BY <1>1, <1>3, <1>10, LeadsDone
  <2>3. ASSUME Flow, Whereabouts
        PROVE  Flow' /\ Whereabouts'
    BY <1>2, <1>7, <1>8, <1>10, <2>1, <2>2, <2>3, Zenon DEF Continues
  <2>4. CallTypes'
    BY <2>1 DEF Continues
  <2>5. QED
    BY <1>1, <1>2, <1>10, <2>3, <2>4, OwnStep, Zenon DEF Types, ClientTypes, LineTypes
<1>11. CASE /\ plan # <<>> /\ op' = [op EXCEPT !.at = "CWD", !.plan = plan]
            /\ cmds' = Append(cmds, [verb |-> "CWD", name |-> Head(plan)])
            /\ answer' = answer /\ current' = current
  <2>1. PICK c : c = [verb |-> "CWD", name |-> Head(plan)]
    OBVIOUS
  <2>2. Head(plan) \in Steps
    BY <1>1, <1>3, <1>11, LeadsStep
  <2>3. c \in Commands /\ c.verb = "CWD" /\ c.name = Head(plan)
    BY <2>1, <2>2 DEF Commands, Verbs
  <2>4. cmds' = Append(cmds, c) /\ cmds \in Seq(Commands)
    BY <1>1, <1>11, <2>1 DEF CallTypes
  <2>5. CallTypes' /\ op'.at = "CWD" /\ op'.plan = plan /\ Place(op') = Place(op)
    BY <1>1, <1>3, <1>11, <2>3, <2>4, PlanTypes
  <2>6. ASSUME Flow, Whereabouts
        PROVE  Flow' /\ Whereabouts'
    <3>1. cmds' = <<c>>
      BY <1>7, <2>4, <2>6, Single DEF Clear
    <3>2. replies' = <<>> /\ xfer' = NoXfer /\ ~dead' /\ cwd' = current'
      BY <1>2, <1>7, <1>11, <2>6, Zenon DEF Clear
    <3>3. Plan(current', Place(op')) = plan /\ Leads(cwd', op'.plan, Place(op'))
      BY <1>3, <1>11, <2>5, <3>2, Zenon DEF plan
    <3>4. Len(plan) <= Len(plan)
      BY <1>3, LenProperties
    <3>5. QED
      BY <1>11, <2>3, <2>5, <3>1, <3>2, <3>3, <3>4, CwdSettles, Zenon
  <2>7. QED
    BY <1>1, <1>2, <1>11, <2>5, <2>6, OwnStep, Zenon DEF Types, ClientTypes, LineTypes
<1>12. QED
  BY <1>6, <1>9, <1>10, <1>11


\* ftpCd: every step of a directory change leaves a way to the goal; a change that
\* fails at its first step has not moved the session.
LEMMA ChangeStep ==
  ASSUME Inv, Change
  PROVE  Inv'
<1>1. PICK x \in Receipts :
        /\ Waits("CWD", x)
        /\ \/ /\ x.reply.code = 250 /\ Len(op.plan) > 1
              /\ cmds' = Append(x.cmds, [verb |-> "CWD", name |-> op.plan[2]])
              /\ op' = [op EXCEPT !.plan = Tail(op.plan)]
              /\ Note(x, FALSE) /\ answer' = answer /\ current' = current
           \/ /\ x.reply.code = 250 /\ Len(op.plan) = 1
              /\ InPlace(x) /\ current' = Place(op) /\ Note(x, FALSE)
           \/ /\ x.reply.code # 250
              /\ Return(x, "error") /\ current' = current
              /\ Note(x, op.plan # Plan(current, Place(op)))
  BY DEF Change
<1>2. Types /\ CallTypes /\ x.cmds \in Seq(Commands) /\ fault \in BOOLEAN /\ x.dead \in BOOLEAN
  BY Basics
<1>3. /\ op.at = "CWD" /\ op.at \in Asking /\ op.at # "idle" /\ dead' = x.dead /\ replies' = x.replies
      /\ data' = data /\ up' = up /\ caps' = caps /\ calls' = calls
      /\ fs' = fs /\ cwd' = cwd /\ xfer' = xfer /\ features' = features /\ late' = late
  BY <1>1, Awaited DEF Waits, Change, server
<1>4. /\ current \in Nodes /\ cwd \in Nodes /\ Place(op) \in Nodes /\ caps' \subseteq {"MLST", "SIZE"}
      /\ op.plan \in Seq(Steps) /\ data' \in DataStates
  BY <1>2, <1>3, OpFields, Zenon DEF Types, ClientTypes, ServerTypes, LineTypes
<1>5. ASSUME Flow, Whereabouts, ~x.dead, x.reply.code = 250
      PROVE  /\ ClearFor(x) /\ Leads(cwd, Tail(op.plan), Place(op))
             /\ Len(op.plan) <= Len(Plan(current, Place(op)))
  <2>1. Failed.code # 250
    BY DEF Failed
  <2>2. ClearFor(x) /\ replies = <<x.reply>>
    BY <1>2, <1>3, <1>5, <2>1, Taken, Zenon
  <2>3. replies # <<>> /\ replies[1] = x.reply
    BY <2>2, Single
  <2>4. QED
    BY <1>3, <1>5, <2>2, <2>3, Zenon DEF Whereabouts
<1>6. CASE /\ x.reply.code = 250 /\ Len(op.plan) > 1
           /\ cmds' = Append(x.cmds, [verb |-> "CWD", name |-> op.plan[2]])
           /\ op' = [op EXCEPT !.plan = Tail(op.plan)]
           /\ Note(x, FALSE) /\ answer' = answer /\ current' = current
  <2>1. PICK rest : rest = Tail(op.plan)
    OBVIOUS
  <2>2. /\ rest \in Seq(Steps) /\ rest # <<>> /\ Len(rest) = Len(op.plan) - 1
        /\ Head(rest) = op.plan[2] /\ Head(rest) \in Steps
    <3>1. PICK plan : plan = op.plan
      OBVIOUS
    <3>2. plan \in Seq(Steps) /\ Len(plan) > 1 /\ rest = Tail(plan)
      BY <1>4, <1>6, <2>1, <3>1, Zenon
    <3>3. /\ rest \in Seq(Steps) /\ rest # <<>> /\ Len(rest) = Len(plan) - 1
          /\ Head(rest) = plan[2] /\ Head(rest) \in Steps
      BY <3>2, RestOfPlan
    <3>4. QED
      BY <3>1, <3>3, Zenon
  <2>3. PICK c : c = [verb |-> "CWD", name |-> Head(rest)]
    OBVIOUS
  <2>4. c \in Commands /\ c.verb = "CWD" /\ c.name = Head(rest)
    BY <2>2, <2>3 DEF Commands, Verbs
  <2>5. cmds' = Append(x.cmds, c)
    BY <1>6, <2>2, <2>3, Zenon
  <2>6. op.at = "CWD" /\ op' = [op EXCEPT !.plan = rest] /\ answer' = answer
    BY <1>3, <1>6, <2>1, Zenon
  <2>7. CallTypes' /\ op'.at = "CWD" /\ op'.plan = rest /\ Place(op') = Place(op)
    BY <1>2, <2>2, <2>4, <2>5, <2>6, PlanTypes, Zenon
  <2>8. fault' \in BOOLEAN /\ (~fault' => ~fault /\ ~x.dead)
    BY <1>2, <1>6 DEF Note
  <2>9. ASSUME Flow, Whereabouts, ~x.dead
        PROVE  Flow' /\ Whereabouts'
    <3>1. /\ ClearFor(x) /\ Leads(cwd, rest, Place(op))
          /\ Len(op.plan) <= Len(Plan(current, Place(op)))
      BY <1>5, <1>6, <2>1, <2>9, Zenon
    <3>2. cmds' = <<c>>
      BY <2>5, <3>1, Single DEF ClearFor
    <3>3. replies' = <<>> /\ xfer' = NoXfer /\ ~dead'
      BY <1>3, <2>9, <3>1, Zenon DEF ClearFor
    <3>4. Plan(current, Place(op)) \in Seq(Steps)
      BY <1>4, PlanLeads
    <3>5. Len(rest) <= Len(Plan(current, Place(op))) /\ rest # Plan(current, Place(op))
      <4> DEFINE whole == Plan(current, Place(op))
      <4>1. Len(whole) \in Nat /\ Len(op.plan) \in Nat /\ Len(op.plan) <= Len(whole)
        BY <1>4, <3>1, <3>4, LenProperties
      <4> HIDE DEF whole
      <4>2. Len(rest) <= Len(whole) /\ rest # whole
        BY <2>2, <4>1
      <4>3. QED
        BY <4>2 DEF whole
    <3>6. /\ Leads(cwd', op'.plan, Place(op')) /\ Len(op'.plan) <= Len(Plan(current', Place(op')))
          /\ op'.plan # Plan(current', Place(op'))
      BY <1>3, <1>6, <2>7, <3>1, <3>5, Zenon
    <3>7. QED
      BY <2>2, <2>4, <2>7, <3>2, <3>3, <3>6, CwdSettles, Zenon
  <2>10. QED
    BY <1>3, <1>4, <1>6, <2>7, <2>8, <2>9, HearStep, Zenon
<1>7. CASE /\ x.reply.code = 250 /\ Len(op.plan) = 1
           /\ InPlace(x) /\ current' = Place(op) /\ Note(x, FALSE)
  <2>1. Continues(x)
    BY <1>2, <1>7, InPlaceContinues
  <2>2. fault' \in BOOLEAN /\ (~fault' => ~fault /\ ~x.dead)
    BY <1>2, <1>7 DEF Note
  <2>3. ASSUME Flow, Whereabouts, ~x.dead
        PROVE  cwd' = current'
    <3>1. Leads(cwd, Tail(op.plan), Place(op))
      BY <1>5, <1>7, <2>3, Zenon
    <3>2. Tail(op.plan) = <<>>
      BY <1>4, <1>7, LastOfPlan
    <3>3. cwd = Place(op)
      BY <1>4, <3>1, <3>2, LeadsDone
    <3>4. QED
      BY <1>3, <1>7, <3>3
  <2>4. QED
    BY <1>3, <1>4, <1>7, <2>1, <2>2, <2>3, AskingStep, Zenon
<1>8. CASE /\ x.reply.code # 250
           /\ Return(x, "error") /\ current' = current
           /\ Note(x, op.plan # Plan(current, Place(op)))
  <2>1. Continues(x)
    BY <1>2, <1>8, ErrorContinues
  <2>2. /\ fault' \in BOOLEAN
        /\ ~fault' => ~fault /\ ~x.dead /\ op.plan = Plan(current, Place(op))
    BY <1>2, <1>8 DEF Note
  <2>3. ASSUME ~fault', Flow, Whereabouts, ~x.dead
        PROVE  cwd' = current'
    <3>1. FirstStep
      <4>1. CASE replies = <<x.reply>>
        <5>1. replies # <<>> /\ replies[1] = x.reply
          BY <4>1, Single
        <5>2. QED
          BY <1>3, <1>8, <2>3, <5>1, Zenon DEF Whereabouts
      <4>2. CASE cmds # <<>>
        BY <1>3, <2>3, <4>2, Zenon DEF Whereabouts
      <4>3. QED
        BY <1>2, <1>3, <2>3, <4>1, <4>2, Taken, Zenon
    <3>2. QED
      BY <1>3, <1>8, <2>2, <2>3, <3>1, Zenon DEF FirstStep
  <2>4. QED
    BY <1>3, <1>4, <1>8, <2>1, <2>2, <2>3, AskingStep, Zenon
<1>9. QED
  BY <1>1, <1>6, <1>7, <1>8, Zenon


\* The data connection is made before the transfer is asked for.
LEMMA DialStep ==
  ASSUME Inv, Dial
  PROVE  Inv'
<1>1. Types /\ CallTypes /\ current \in Nodes
  BY DEF Inv, Types, ClientTypes
<1>2. /\ op.at \in {"dial", "dial anywhere"} /\ dead' = dead /\ replies' = replies /\ fault' = fault
      /\ up' = up /\ current' = current /\ caps' = caps /\ calls' = calls
      /\ fs' = fs /\ cwd' = cwd /\ xfer' = xfer /\ features' = features /\ late' = late
  BY DEF Dial, client, server
<1>3. op.at # "idle" /\ op.at \in Resting /\ op.at \in Fetching /\ op.at \notin {"CWD", "enter", "leave"}
  BY <1>2 DEF Resting, Fetching
<1>4. op.api \in TransferApis
  BY <1>1, <1>3, Zenon DEF CallTypes
<1>5. PICK x : x = Quiet
  OBVIOUS
<1>6. x.cmds = cmds /\ x.replies = replies /\ x.dead = dead /\ x.cmds \in Seq(Commands)
  BY <1>1, <1>5 DEF Quiet, Heard, CallTypes
<1>7. Continues(x) /\ data' \in DataStates
  <2>1. CASE Return(Quiet, "error") /\ data' = "none"
    <3>1. Return(x, "error")
      BY <1>5, <2>1
    <3>2. Continues(x)
      BY <1>1, <1>6, <3>1, ErrorContinues
    <3>3. QED
      BY <2>1, <3>2 DEF DataStates
  <2>2. CASE /\ Ask(Quiet, "opening", Verb, IF op.api = "list" THEN "" ELSE FileName(op.path))
             /\ data' \in IF op.at = "dial" THEN {"open"} ELSE {"open", "stray"}
    <3>1. PICK verb \in TransferVerbs : verb = Verb
      BY <1>4 DEF Verb, TransferApis, TransferVerbs
    <3>2. PICK name \in Steps \cup {""} : name = IF op.api = "list" THEN "" ELSE FileName(op.path)
      <4>1. FileName(op.path) \in Steps \cup {""} /\ "" \in Steps \cup {""}
        BY <1>1, OpFields
      <4>2. QED
        BY <4>1, Zenon
    <3>3. Ask(x, "opening", verb, name)
      BY <1>5, <2>2, <3>1, <3>2, Zenon
    <3>4. verb \in Verbs /\ verb \in AwaitedVerbs("opening")
      BY DEF Verbs, AwaitedVerbs
    <3>5. Continues(x)
      BY <1>1, <1>4, <1>6, <3>3, <3>4, AskContinues, Zenon
    <3>6. QED
      BY <2>2, <3>5 DEF DataStates
  <2>3. QED
    BY <2>1, <2>2 DEF Dial
<1>8. ASSUME Flow, Whereabouts
      PROVE  Flow' /\ Whereabouts'
  <2>1. Clear /\ ~dead
    BY <1>3, <1>8, Zenon DEF Flow
  <2>2. cwd = current
    BY <1>3, <1>8, Zenon DEF Whereabouts
  <2>3. Onward(x) /\ cwd' = current'
    BY <1>2, <1>6, <2>1, <2>2, Zenon DEF Onward, ClearFor, Clear
  <2>4. QED
    BY <1>7, <2>3, Zenon DEF Continues
<1>9. CallTypes'
  BY <1>7 DEF Continues
<1>10. fault \in BOOLEAN
  BY <1>1, Zenon DEF Types, ClientTypes
<1>11. QED
  BY <1>1, <1>2, <1>3, <1>7, <1>8, <1>9, <1>10, OwnStep, Zenon

\* What can be heard where a transfer is to begin: an announcement, behind which the
\* completion may have come already, or anything that ends the exchange.
LEMMA OpeningTaken ==
  ASSUME Types, Flow, op.at = "opening", NEW x \in Receipts, ~x.dead
  PROVE  \/ ClearFor(x) /\ x.reply.code \notin Openings
         \/ /\ x.cmds = <<>> /\ x.reply.code \in Openings
            /\ \/ x.replies = <<>> /\ xfer # NoXfer
               \/ \E e \in Replies : e.code \notin Openings /\ x.replies = <<e>> /\ xfer = NoXfer
<1>1. \/ Asked("opening") \/ Answered
      \/ \E r \in Replies : /\ r.code \in Openings
                            /\ cmds = <<>> /\ replies = <<r>> /\ xfer # NoXfer
      \/ \E r \in Replies, e \in Replies :
           /\ r.code \in Openings /\ e.code \notin Openings
           /\ cmds = <<>> /\ replies = <<r, e>> /\ xfer = NoXfer
  BY Zenon DEF Flow
<1>2. CASE Asked("opening")
  <2>1. PICK c \in Commands : cmds = <<c>> /\ replies = <<>> /\ xfer = NoXfer
    BY <1>2 DEF Asked
  <2>2. Front(<<c>>) = <<>>
    BY Single
  <2>3. x.reply = Failed /\ x.cmds = Front(cmds) /\ x.replies = replies
    BY <2>1, ReceiptForms, Zenon
  <2>4. Failed.code \notin Openings
    BY DEF Failed, Openings
  <2>5. QED
    BY <2>1, <2>2, <2>3, <2>4, Zenon DEF ClearFor
<1>3. ASSUME NEW r \in Replies, cmds = <<>>, replies = <<r>>
      PROVE  x.reply = r /\ x.cmds = <<>> /\ x.replies = <<>>
  <2>1. Head(<<r>>) = r /\ Tail(<<r>>) = <<>>
    BY Single
  <2>2. x.reply = Head(replies) /\ x.cmds = cmds /\ x.replies = Tail(replies)
    BY <1>3, ReceiptForms, Zenon
  <2>3. QED
    BY <1>3, <2>1, <2>2, Zenon
<1>4. CASE Answered
  BY <1>3, <1>4, Zenon DEF Answered, ClearFor
<1>5. CASE \E r \in Replies : /\ r.code \in Openings
                              /\ cmds = <<>> /\ replies = <<r>> /\ xfer # NoXfer
  BY <1>3, <1>5, Zenon
<1>6. CASE \E r \in Replies, e \in Replies :
             /\ r.code \in Openings /\ e.code \notin Openings
             /\ cmds = <<>> /\ replies = <<r, e>> /\ xfer = NoXfer
  <2>1. PICK r \in Replies, e \in Replies :
          /\ r.code \in Openings /\ e.code \notin Openings
          /\ cmds = <<>> /\ replies = <<r, e>> /\ xfer = NoXfer
    BY <1>6, Zenon
  <2>2. Head(<<r, e>>) = r /\ Tail(<<r, e>>) = <<e>>
    BY Pair
  <2>3. x.reply = Head(replies) /\ x.cmds = cmds /\ x.replies = Tail(replies)
    BY <2>1, ReceiptForms, Zenon
  <2>4. QED
    BY <2>1, <2>2, <2>3, Zenon
<1>7. QED
  BY <1>1, <1>2, <1>4, <1>5, <1>6, Zenon

LEMMA OpeningStep ==
  ASSUME Inv, HearOpening
  PROVE  Inv'
<1>1. PICK x \in Receipts :
        /\ Waits("opening", x) /\ Note(x, x.reply.code = 125)
        /\ \/ /\ x.reply.code = 150 /\ op' = [op EXCEPT !.at = "data"]
              /\ cmds' = x.cmds /\ answer' = answer /\ data' = data
           \/ x.reply.code # 150 /\ Return(x, "error") /\ data' = "none"
  BY DEF HearOpening
<1>2. Types /\ CallTypes /\ x.cmds \in Seq(Commands) /\ fault \in BOOLEAN /\ x.dead \in BOOLEAN
  BY Basics
<1>3. op.at = "opening" /\ dead' = x.dead /\ replies' = x.replies
  BY <1>1 DEF Waits
<1>4. /\ up' = up /\ current' = current /\ caps' = caps /\ calls' = calls
      /\ fs' = fs /\ cwd' = cwd /\ xfer' = xfer /\ features' = features /\ late' = late
  BY DEF HearOpening, client, server
<1>5. fault' \in BOOLEAN /\ (~fault' => ~fault /\ ~x.dead /\ x.reply.code # 125)
  BY <1>1, <1>2 DEF Note
<1>6. /\ current' \in Nodes /\ caps' \subseteq {"MLST", "SIZE"} /\ data \in DataStates
      /\ op.at # "idle"
  BY <1>2, <1>3, <1>4 DEF Types, ClientTypes, LineTypes
<1>7. Whereabouts => cwd' = current'
  BY <1>3, <1>4 DEF Whereabouts
<1>8. CASE /\ x.reply.code = 150 /\ op' = [op EXCEPT !.at = "data"]
           /\ cmds' = x.cmds /\ answer' = answer /\ data' = data
  <2>1. op.api \in TransferApis /\ "data" \in Transferring /\ "data" # "idle"
    BY <1>2, <1>3 DEF CallTypes, Fetching, Transferring
  <2>2. CallTypes' /\ op'.at = "data"
    BY <1>2, <1>8, <2>1, MoveTypes
  <2>3. ASSUME Flow, Whereabouts, ~x.dead
        PROVE  Flow' /\ Whereabouts'
    <3>1. x.reply.code \in Openings
      BY <1>8 DEF Openings
    <3>2. \/ cmds' = <<>> /\ replies' = <<>> /\ xfer' # NoXfer
          \/ \E e \in Replies : /\ e.code \notin Openings
                                /\ cmds' = <<>> /\ replies' = <<e>> /\ xfer' = NoXfer
      BY <1>2, <1>3, <1>4, <1>8, <2>3, <3>1, OpeningTaken, ZenonT(60)
    <3>3. (cmds' = <<>> /\ replies' = <<>> /\ xfer' # NoXfer) \/ Answered'
      BY <3>2, Zenon DEF Answered
    <3>4. op'.at \notin Resting \cup Asking \cup {"opening"}
      BY <2>2 DEF Resting, Asking
    <3>5. Flow'
      BY <1>3, <2>3, <3>3, <3>4, Zenon DEF Flow
    <3>6. Whereabouts'
      BY <1>7, <2>2, <2>3, Zenon DEF Whereabouts
    <3>7. QED
      BY <3>5, <3>6
  <2>4. QED
    BY <1>3, <1>4, <1>5, <1>6, <1>8, <2>2, <2>3, HearStep, Zenon
<1>9. CASE x.reply.code # 150 /\ Return(x, "error") /\ data' = "none"
  <2>1. Continues(x)
    BY <1>2, <1>9, ErrorContinues
  <2>2. ASSUME ~fault', Flow, Whereabouts, ~x.dead
        PROVE  Flow' /\ Whereabouts'
    <3>1. x.reply.code \notin Openings
      BY <1>5, <1>9, <2>2 DEF Openings
    <3>2. ClearFor(x)
      BY <1>2, <1>3, <2>2, <3>1, OpeningTaken, Zenon
    <3>3. QED
      BY <1>3, <1>4, <1>7, <2>1, <2>2, <3>2, Zenon DEF Onward, Continues
  <2>3. CallTypes'
    BY <2>1 DEF Continues
  <2>4. data' \in DataStates
    BY <1>9 DEF DataStates
  <2>5. QED
    BY <1>3, <1>4, <1>5, <1>6, <2>2, <2>3, <2>4, HearStep, Zenon
<1>10. QED
  BY <1>1, <1>8, <1>9


\* Data comes or has passed: the transfer is at another of its places.
LEMMA MovedStep ==
  ASSUME Inv, op.at \in Transferring, op' \in Ops, op'.at \in Transferring, op'.api = op.api,
         data' \in DataStates,
         UNCHANGED <<client, dead, answer, cmds, replies, server, fault, calls>>
  PROVE  Inv'
<1>1. Types /\ CallTypes /\ current \in Nodes /\ fault \in BOOLEAN
  BY Zenon DEF Inv, Types, ClientTypes
<1>2. /\ dead' = dead /\ replies' = replies /\ fault' = fault /\ cmds' = cmds /\ answer' = answer
      /\ up' = up /\ current' = current /\ caps' = caps /\ calls' = calls
      /\ fs' = fs /\ cwd' = cwd /\ xfer' = xfer /\ features' = features /\ late' = late
  BY DEF client, server
<1>3. /\ op'.at \notin {"idle", "CWD", "enter", "leave"}
      /\ op.at \notin {"idle", "CWD", "enter", "leave"}
  BY DEF Transferring
<1>4. op.at \in Fetching
  BY DEF Fetching
<1>5. op' # NoOp
  <2>1. NoOp.at = "idle"
    BY DEF NoOp
  <2>2. QED
    BY <1>3, <2>1
<1>6. CallTypes'
  BY <1>1, <1>2, <1>3, <1>4, <1>5 DEF CallTypes
<1>7. op'.at \notin Resting \cup Asking \cup {"opening"}
  BY DEF Transferring, Resting, Asking
<1>8. ASSUME Flow, Whereabouts
      PROVE  Flow' /\ Whereabouts'
  <2>1. Flow'
    <3>1. (cmds = <<>> /\ replies = <<>> /\ xfer # NoXfer) \/ Answered
      BY <1>8, Zenon DEF Flow
    <3>2. Answered => Answered'
      BY <1>2, Zenon DEF Answered
    <3>3. ~dead'
      <4>1. ~dead
        BY <1>8, Zenon DEF Flow
      <4>2. QED
        BY <1>2, <4>1
    <3>4. QED
      BY <1>2, <1>7, <3>1, <3>2, <3>3, Zenon DEF Flow
  <2>2. cwd = current
    BY <1>3, <1>8 DEF Whereabouts
  <2>3. Whereabouts'
    BY <1>2, <1>3, <2>2, Zenon DEF Whereabouts
  <2>4. QED
    BY <2>1, <2>3
<1>9. fault' \in BOOLEAN /\ (~fault' => ~fault) /\ current' \in Nodes
  BY <1>1, <1>2
<1>10. QED
  BY <1>2, <1>3, <1>6, <1>8, <1>9, OwnStep, Zenon

LEMMA DataStep ==
  ASSUME Inv, MoreData \/ Chunk \/ Receive \/ Upload
  PROVE  Inv'
<1>1. data \in DataStates /\ op \in Ops
  BY DEF Inv, Types, LineTypes, CallTypes
<1>2. /\ op.at \in {"data", "chunk"} /\ data' \in DataStates
      /\ UNCHANGED <<client, dead, answer, cmds, replies, server, fault, calls>>
  BY <1>1 DEF MoreData, Chunk, Receive, Upload, DataStates
<1>3. PICK at \in Transferring, g \in BOOLEAN : op' = [op EXCEPT !.at = at, !.got = g]
  <2>1. {"data", "chunk", "completion"} = Transferring
    BY DEF Transferring
  <2>2. CASE MoreData \/ Chunk
    <3>1. PICK at \in {"data", "chunk"} : op' = [op EXCEPT !.at = at]
      BY <2>2 DEF MoreData, Chunk
    <3>2. op.got \in BOOLEAN /\ [op EXCEPT !.at = at] = [op EXCEPT !.at = at, !.got = op.got]
      BY <1>1 DEF Ops
    <3>3. QED
      BY <2>1, <3>1, <3>2
  <2>3. CASE Receive \/ Upload
    <3>1. PICK g \in BOOLEAN : op' = [op EXCEPT !.at = "completion", !.got = g]
      BY <2>3 DEF Receive, Upload
    <3>2. QED
      BY <2>1, <3>1
  <2>4. QED
    BY <2>2, <2>3
<1>4. op' \in Ops /\ op'.at = at /\ op'.api = op.api
  <2>1. at \in Resting \cup Asking \cup {"opening"} \cup Transferring
    OBVIOUS
  <2>2. QED
    BY <1>1, <1>3, <2>1 DEF Ops
<1>5. op.at \in Transferring
  BY <1>2 DEF Transferring
<1>6. QED
  BY <1>2, <1>4, <1>5, MovedStep

LEMMA AbandonStep ==
  ASSUME Inv, Abandon
  PROVE  Inv'
<1>1. Types /\ CallTypes /\ current \in Nodes
  BY Zenon DEF Inv, Types, ClientTypes
<1>2. /\ op.at \in {"data", "chunk"} /\ dead' = dead /\ replies' = replies /\ fault' = TRUE /\ data' = "none"
      /\ up' = up /\ current' = current /\ caps' = caps /\ calls' = calls
      /\ fs' = fs /\ cwd' = cwd /\ xfer' = xfer /\ features' = features /\ late' = late
  BY DEF Abandon, client, server
<1>3. PICK x : x = Quiet
  OBVIOUS
<1>4. x.cmds \in Seq(Commands)
  BY <1>1, <1>3 DEF Quiet, Heard, CallTypes
<1>5. Return(x, "error")
  BY <1>3 DEF Abandon
<1>6. CallTypes'
  BY <1>1, <1>4, <1>5, ErrorContinues DEF Continues
<1>7. op.at # "idle" /\ data' \in DataStates
  BY <1>2 DEF DataStates
<1>8. QED
  BY <1>1, <1>2, <1>6, <1>7, OwnStep, Zenon

LEMMA CompletionStep ==
  ASSUME Inv, HearCompletion
  PROVE  Inv'
<1>1. PICK x \in Receipts, a \in Answers : Waits("completion", x) /\ Note(x, FALSE) /\ Return(x, a)
  <2>1. PICK x \in Receipts :
          /\ Waits("completion", x) /\ Note(x, FALSE)
          /\ Return(x, IF \/ x.reply.code = 226
                          \/ op.api = "list" /\ x.reply # Failed
                       THEN IF op.got THEN "ok" ELSE "cut"
                       ELSE "error")
    BY DEF HearCompletion
  <2>2. PICK a : a = IF \/ x.reply.code = 226
                        \/ op.api = "list" /\ x.reply # Failed
                     THEN IF op.got THEN "ok" ELSE "cut"
                     ELSE "error"
    OBVIOUS
  <2>3. a \in Answers
    BY <2>2 DEF Answers
  <2>4. QED
    BY <2>1, <2>2, <2>3, Zenon
<1>2. Types /\ CallTypes /\ x.cmds \in Seq(Commands) /\ fault \in BOOLEAN /\ x.dead \in BOOLEAN
  BY Basics
<1>3. op.at = "completion" /\ op.at # "idle" /\ dead' = x.dead /\ replies' = x.replies
  BY <1>1 DEF Waits
<1>4. /\ up' = up /\ current' = current /\ caps' = caps /\ calls' = calls
      /\ fs' = fs /\ cwd' = cwd /\ xfer' = xfer /\ features' = features /\ late' = late
  BY DEF HearCompletion, client, server
<1>5. fault' \in BOOLEAN /\ (~fault' => ~fault /\ ~x.dead)
  BY <1>1, <1>2 DEF Note
<1>6. current' \in Nodes /\ caps' \subseteq {"MLST", "SIZE"} /\ data' \in DataStates
  <2>1. data \in DataStates /\ "none" \in DataStates
    BY <1>2 DEF Types, LineTypes, DataStates
  <2>2. data' \in {data, "none"}
    BY DEF HearCompletion
  <2>3. QED
    BY <1>2, <1>4, <2>1, <2>2, Zenon DEF Types, ClientTypes
<1>7. Continues(x)
  BY <1>1, <1>2, ReturnContinues
<1>8. ASSUME Flow, Whereabouts, ~x.dead
      PROVE  Flow' /\ Whereabouts'
  <2>1. op.at \in Transferring
    BY <1>3 DEF Transferring
  <2>2. (cmds = <<>> /\ replies = <<>>) \/ Answered
    BY <1>8, <2>1, Zenon DEF Flow
  <2>3. replies # <<>> /\ x.reply = Head(replies) /\ x.cmds = cmds /\ x.replies = Tail(replies)
    BY <1>2, <1>3, <1>8, ReceiptForms, Zenon
  <2>4. PICK r \in Replies : cmds = <<>> /\ replies = <<r>> /\ xfer = NoXfer
    BY <2>2, <2>3, Zenon DEF Answered
  <2>5. Tail(<<r>>) = <<>>
    BY Single
  <2>6. ClearFor(x)
    BY <1>8, <2>3, <2>4, <2>5, Zenon DEF ClearFor
  <2>7. cwd' = current'
    BY <1>3, <1>4, <1>8 DEF Whereabouts
  <2>8. QED
    BY <1>3, <1>4, <1>7, <2>6, <2>7, Zenon DEF Onward, Continues
<1>9. CallTypes'
  BY <1>7 DEF Continues
<1>10. QED
  BY <1>3, <1>4, <1>5, <1>6, <1>8, <1>9, HearStep, Zenon


LEMMA UnservedTypes ==
  ASSUME NEW dir \in Nodes, NEW cs \in Seq(Commands)
  PROVE  Unserved(dir, cs) \subseteq Sessions /\ \A s \in Unserved(dir, cs) : s.cmds # <<>>
<1>1. CASE cs = <<>>
  BY <1>1 DEF Unserved
<1>2. CASE cs # <<>>
  <2>1. PICK s : s = [cwd |-> dir, cmds |-> cs]
    OBVIOUS
  <2>2. s \in Sessions /\ s.cmds = cs
    BY <2>1 DEF Sessions
  <2>3. Unserved(dir, cs) = {s}
    BY <1>2, <2>1, Zenon DEF Unserved
  <2>4. QED
    BY <1>2, <2>2, <2>3, Zenon
<1>3. QED
  BY <1>1, <1>2

LEMMA GreetingLines ==
  ASSUME NEW r \in Replies, NEW lines \in 1..2, NEW rs, rs = [i \in 1..lines |-> r]
  PROVE  rs \in Seq(Replies) /\ (lines = 1 => rs = <<r>>)
<1>1. rs \in Seq(Replies) /\ Len(rs) = lines /\ \A i \in 1..lines : rs[i] = r
  BY DEF Replies
<1>2. ASSUME lines = 1 PROVE rs = <<r>>
  <2>1. <<r>> \in Seq(Replies) /\ Len(<<r>>) = 1 /\ <<r>>[1] = r
    OBVIOUS
  <2>2. PICK t : t = <<r>>
    OBVIOUS
  <2>3. t \in Seq(Replies) /\ Len(t) = Len(rs) /\ \A i \in 1..Len(rs) : rs[i] = t[i]
    BY <1>1, <1>2, <2>1, <2>2
  <2>4. rs = t
    BY <1>1, <2>3, SeqEqual
  <2>5. QED
    BY <2>2, <2>4
<1>3. QED
  BY <1>1, <1>2

\* connect begins a session in the root, and counts as trouble if the client believes
\* to be elsewhere.
LEMMA ConnectStep ==
  ASSUME Inv, NEW who \in Credentials, Connect(who.user, who.pass)
  PROVE  Inv'
<1>1. Types /\ CallTypes
  BY DEF Inv, Types
<1>2. /\ up' = TRUE /\ dead' = FALSE /\ cmds' = <<>> /\ data' = "none" /\ xfer' = NoXfer
      /\ cwd' = <<>> /\ late' = late \cup Unserved(cwd, cmds)
      /\ calls < MaxCalls /\ calls' = calls + 1
      /\ current' = current /\ caps' = caps /\ answer' = answer /\ fs' = fs /\ features' = features
  BY DEF Connect
<1>3. PICK lines \in 1..2 : /\ replies' = [i \in 1..lines |-> [code |-> 220, fact |-> ""]]
                            /\ fault' = (current # <<>> \/ lines > 1)
  BY DEF Connect
<1>4. PICK r : r = [code |-> 220, fact |-> ""]
  OBVIOUS
<1>5. r \in Replies /\ r.code \notin Openings
  <2>1. 220 \in Codes /\ 220 \notin Openings /\ "" \in Facts
    BY DEF Codes, Openings, Facts
  <2>2. r.code = 220
    BY <1>4
  <2>3. r \in Replies
    BY <1>4, <2>1, ReplyType
  <2>4. QED
    BY <2>1, <2>2, <2>3, Zenon
<1>6. replies' \in Seq(Replies) /\ (lines = 1 => replies' = <<r>>)
  <2>1. PICK rs : rs = [i \in 1..lines |-> r]
    OBVIOUS
  <2>2. replies' = rs
    BY <1>3, <1>4, <2>1
  <2>3. QED
    BY <1>5, <2>1, <2>2, GreetingLines, Zenon
<1>7. op' \in Ops /\ op'.at = "greeting"
  <2>1. op' = [NoOp EXCEPT !.api = "connect", !.at = "greeting", !.user = who.user, !.pass = who.pass]
    BY DEF Connect
  <2>2. NoOp \in Ops
    BY EmptySeq DEF NoOp, Ops, Nodes, Resting, Kinds
  <2>3. who.user \in BOOLEAN /\ who.pass \in BOOLEAN
    BY CredentialsAssumption
  <2>4. "greeting" \in Asking
    BY DEF Asking
  <2>5. QED
    BY <2>1, <2>2, <2>3, <2>4 DEF Ops
<1>8. op' # NoOp
  <2>1. NoOp.at = "idle"
    BY DEF NoOp
  <2>2. QED
    BY <1>7, <2>1
<1>9. CallTypes'
  <2>1. cmds' \in Seq(Commands)
    BY <1>2, EmptySeq
  <2>2. QED
    BY <1>1, <1>2, <1>7, <1>8, <2>1, Awaited DEF CallTypes
<1>10. ServerTypes'
  <2>1. Unserved(cwd, cmds) \subseteq Sessions /\ \A s \in Unserved(cwd, cmds) : s.cmds # <<>>
    BY <1>1, UnservedTypes DEF Types, ServerTypes, CallTypes
  <2>2. cwd' \in Nodes
    BY <1>2 DEF Nodes
  <2>3. QED
    BY <1>1, <1>2, <2>1, <2>2, Zenon DEF Types, ServerTypes
<1>11. LineTypes'
  BY <1>2, <1>6 DEF LineTypes, DataStates
<1>12. ClientTypes'
  <2>1. calls' \in 0..MaxCalls
    BY <1>1, <1>2, BoundAssumption DEF Types, ClientTypes
  <2>2. fault' \in BOOLEAN /\ up' \in BOOLEAN
    BY <1>2, <1>3
  <2>3. QED
    BY <1>1, <1>2, <2>1, <2>2, Zenon DEF Types, ClientTypes
<1>13. ASSUME ~fault'
       PROVE  Flow' /\ Whereabouts'
  <2>1. lines = 1 /\ current = <<>>
    <3>1. ~(lines > 1) /\ ~(current # <<>>)
      BY <1>3, <1>13, Zenon
    <3>2. lines = 1
      BY <3>1
    <3>3. QED
      BY <3>1, <3>2
  <2>2. Answered'
    BY <1>2, <1>5, <1>6, <2>1, Zenon DEF Answered
  <2>3. /\ op'.at \in Asking /\ op'.at \notin Resting \cup Transferring \cup {"opening"}
        /\ op'.at \notin {"CWD", "enter", "leave"}
    BY <1>7 DEF Asking, Resting, Transferring
  <2>4. Flow'
    BY <1>2, <2>2, <2>3, Zenon DEF Flow
  <2>5. Whereabouts'
    BY <1>2, <2>1, <2>3, Zenon DEF Whereabouts
  <2>6. QED
    BY <2>4, <2>5
<1>14. Down'
  BY <1>2 DEF Down
<1>15. QED
  BY <1>9, <1>10, <1>11, <1>12, <1>13, <1>14, Zenon DEF Inv, Types

\* _socket.reset() ends the session; the server may still see what was sent.
LEMMA DisconnectStep ==
  ASSUME Inv, NEW reply, NEW d, NEW cs \in Seq(Commands), NEW rs,
         Disconnect(Heard(reply, d, cs, rs)), fault' \in BOOLEAN,
         current' \in Nodes, caps' \subseteq {"MLST", "SIZE"}, data' \in DataStates,
         UNCHANGED <<fs, features, calls>>
  PROVE  Inv'
<1> DEFINE x == Heard(reply, d, cs, rs)
<1>1. Types /\ CallTypes /\ x.cmds = cs
  BY DEF Inv, Types, Heard
<1>2. /\ up' = FALSE /\ dead' = FALSE /\ replies' = <<>> /\ cwd' = <<>> /\ xfer' = NoXfer
      /\ late' = late \cup Unserved(cwd, cs)
      /\ fs' = fs /\ features' = features /\ calls' = calls
  BY <1>1 DEF Disconnect
<1>3. PICK y : y = [x EXCEPT !.cmds = <<>>]
  OBVIOUS
<1>4. y.cmds = <<>> /\ y.cmds \in Seq(Commands)
  BY <1>3, EmptySeq DEF Heard
<1>5. Return(y, "error") /\ "error" \in Answers
  BY <1>3 DEF Disconnect, Answers
<1>6. CallTypes' /\ op'.at = "idle" /\ cmds' = <<>>
  BY <1>1, <1>4, <1>5, ReturnTypes
<1>7. ServerTypes'
  <2>1. Unserved(cwd, cs) \subseteq Sessions /\ \A s \in Unserved(cwd, cs) : s.cmds # <<>>
    BY <1>1, UnservedTypes DEF Types, ServerTypes
  <2>2. cwd' \in Nodes
    BY <1>2 DEF Nodes
  <2>3. QED
    BY <1>1, <1>2, <2>1, <2>2, Zenon DEF Types, ServerTypes
<1>8. LineTypes'
  BY <1>1, <1>2, EmptySeq DEF Types, LineTypes
<1>9. ClientTypes'
  BY <1>1, <1>2 DEF Types, ClientTypes
<1>10. Down'
  BY <1>2, <1>6 DEF Down
<1>11. QED
  BY <1>2, <1>6, <1>7, <1>8, <1>9, <1>10 DEF Inv, Types

LEMMA CrashStep ==
  ASSUME Inv, Crash
  PROVE  Inv'
<1>1. cmds \in Seq(Commands) /\ fault \in BOOLEAN
  BY DEF Inv, Types, CallTypes, ClientTypes
<1>2. Disconnect(Heard(Failed, dead, cmds, replies))
  BY DEF Crash, Quiet
<1>3. /\ current' \in Nodes /\ caps' \subseteq {"MLST", "SIZE"} /\ data' \in DataStates
      /\ fault' \in BOOLEAN /\ UNCHANGED <<fs, features, calls>>
  BY <1>1 DEF Crash, Nodes, DataStates
<1>4. QED
  BY <1>1, <1>2, <1>3, DisconnectStep

\* A connect that gives up takes its reply first.
LEMMA RefusedStep ==
  ASSUME Inv, NEW x \in Receipts, Disconnect(x), fault' \in BOOLEAN,
         UNCHANGED <<current, caps, data, fs, features, calls>>
  PROVE  Inv'
<1>1. PICK reply, d, cs, rs : x = Heard(reply, d, cs, rs)
  BY DEF Receipts
<1>2. x.cmds = cs
  BY <1>1 DEF Heard
<1>3. x.cmds \in Seq(Commands) /\ Types
  BY Basics
<1>4. /\ current' \in Nodes /\ caps' \subseteq {"MLST", "SIZE"} /\ data' \in DataStates
  BY <1>3 DEF Types, ClientTypes, LineTypes
<1>5. QED
  BY <1>1, <1>2, <1>3, <1>4, DisconnectStep



\* connect takes a reply and keeps the socket.
LEMMA StayStep ==
  ASSUME Inv, NEW x \in Receipts, op.at \in {"greeting", "USER", "PASS", "FEAT"}, Stay(x), Note(x, FALSE),
         current' = current, caps' \subseteq {"MLST", "SIZE"}, data' = data, fs' = fs,
         features' = features, calls' = calls, Continues(x)
  PROVE  Inv'
<1>1. Types /\ CallTypes /\ x.cmds \in Seq(Commands) /\ fault \in BOOLEAN /\ x.dead \in BOOLEAN
  BY Basics
<1>2. op.at \in Asking /\ op.at # "idle" /\ op.at \notin {"CWD", "enter", "leave"}
  BY DEF Asking
<1>3. up = TRUE
  <2>1. up /\ up \in BOOLEAN
    BY <1>1, <1>2, Zenon DEF Inv, Down, Types, ClientTypes
  <2>2. QED
    BY <2>1
<1>4. /\ up' = up /\ dead' = x.dead /\ replies' = x.replies /\ late' = late /\ cwd' = cwd /\ xfer' = xfer
  BY <1>3, Zenon DEF Stay
<1>5. fault' \in BOOLEAN /\ (~fault' => ~fault /\ ~x.dead)
  BY <1>1 DEF Note
<1>6. Whereabouts => cwd' = current'
  BY <1>2, <1>4, Zenon DEF Whereabouts
<1>7. current' \in Nodes
  BY <1>1, Zenon DEF Types, ClientTypes
<1>8. QED
  BY <1>2, <1>4, <1>5, <1>6, <1>7, AskingStep, Zenon

LEMMA ConnectingStep ==
  ASSUME Inv, Connecting
  PROVE  Inv'
<1>1. Types /\ caps \subseteq {"MLST", "SIZE"} /\ features \subseteq {"MLST", "SIZE"} /\ fault \in BOOLEAN
  BY DEF Inv, Types, ClientTypes, ServerTypes
<1>2. ASSUME NEW x \in Receipts, Note(x, FALSE)
      PROVE  fault' \in BOOLEAN /\ CallTypes /\ x.cmds \in Seq(Commands)
  <2>1. CallTypes /\ x.cmds \in Seq(Commands) /\ x.dead \in BOOLEAN
    BY Basics
  <2>2. QED
    BY <1>1, <1>2, <2>1 DEF Note
<1>3. CASE HearGreeting
  <2>1. PICK x \in Receipts : /\ Stay(x) /\ Note(x, FALSE)
                              /\ Login(x, op.user, op.pass) \/ Return(x, "error")
    BY <1>3, Zenon DEF HearGreeting
  <2>2. /\ op.at = "greeting" /\ current' = current /\ caps' = caps /\ data' = data /\ fs' = fs
        /\ features' = features /\ calls' = calls
    BY <1>3 DEF HearGreeting
  <2>3. Continues(x)
    BY <1>2, <2>1, LoginContinues, ErrorContinues
  <2>4. QED
    BY <1>1, <2>1, <2>2, <2>3, StayStep, Zenon
<1>4. CASE HearUser
  <2>1. PICK x \in Receipts : /\ Note(x, FALSE)
                              /\ \/ Stay(x) /\ Login(x, FALSE, op.pass)
                                 \/ Disconnect(x)
    BY <1>4, Zenon DEF HearUser
  <2>2. /\ op.at = "USER" /\ current' = current /\ caps' = caps /\ data' = data /\ fs' = fs
        /\ features' = features /\ calls' = calls
    BY <1>4 DEF HearUser
  <2>3. CASE Stay(x) /\ Login(x, FALSE, op.pass)
    <3>1. Continues(x)
      BY <1>2, <2>1, <2>3, LoginContinues
    <3>2. QED
      BY <1>1, <2>1, <2>2, <2>3, <3>1, StayStep, Zenon
  <2>4. CASE Disconnect(x)
    BY <1>2, <2>1, <2>2, <2>4, RefusedStep
  <2>5. QED
    BY <2>1, <2>3, <2>4
<1>5. CASE HearPass
  <2>1. PICK x \in Receipts : /\ Note(x, FALSE)
                              /\ \/ Stay(x) /\ Login(x, FALSE, FALSE)
                                 \/ Disconnect(x)
    BY <1>5, Zenon DEF HearPass
  <2>2. /\ op.at = "PASS" /\ current' = current /\ caps' = caps /\ data' = data /\ fs' = fs
        /\ features' = features /\ calls' = calls
    BY <1>5 DEF HearPass
  <2>3. CASE Stay(x) /\ Login(x, FALSE, FALSE)
    <3>1. Continues(x)
      BY <1>2, <2>1, <2>3, LoginContinues
    <3>2. QED
      BY <1>1, <2>1, <2>2, <2>3, <3>1, StayStep, Zenon
  <2>4. CASE Disconnect(x)
    BY <1>2, <2>1, <2>2, <2>4, RefusedStep
  <2>5. QED
    BY <2>1, <2>3, <2>4
<1>6. CASE HearFeat
  <2>1. PICK x \in Receipts : Stay(x) /\ Note(x, FALSE) /\ Return(x, "ok") /\ caps' \in {caps, caps \cup features}
    BY <1>6, Zenon DEF HearFeat, ParseFeatures
  <2>2. /\ op.at = "FEAT" /\ current' = current /\ data' = data /\ fs' = fs
        /\ features' = features /\ calls' = calls
    BY <1>6 DEF HearFeat
  <2>3. "ok" \in Answers
    BY DEF Answers
  <2>4. Continues(x)
    BY <1>2, <2>1, <2>3, ReturnContinues
  <2>5. caps' \subseteq {"MLST", "SIZE"}
    BY <1>1, <2>1
  <2>6. QED
    BY <2>1, <2>2, <2>4, <2>5, StayStep, Zenon
<1>7. QED
  BY <1>3, <1>4, <1>5, <1>6 DEF Connecting

-----------------------------------------------------------------------------
(* The steps of the server.                                                *)

\* The server has a command to carry out only where the client waits for its reply.
LEMMA CommandAwaited ==
  ASSUME Types, Flow, cmds # <<>>
  PROVE  op.at \in Asking \cup {"opening"} /\ Asked(op.at)
<1>1. op.at \in Resting \cup Asking \cup {"opening"} \cup Transferring
  BY DEF Types, CallTypes, Ops
<1>2. op.at \notin Resting /\ op.at \notin Transferring
  BY Zenon DEF Flow, Clear, Answered
<1>3. CASE op.at \in Asking
  BY <1>3, Zenon DEF Flow, Answered
<1>4. CASE op.at = "opening"
  <2>1. Asked("opening")
    BY <1>4, Zenon DEF Flow, Answered
  <2>2. QED
    BY <1>4, <2>1, Zenon
<1>5. QED
  BY <1>1, <1>2, <1>3, <1>4, Zenon

\* A server that refuses or carries out a command moves the session as the client will
\* believe when it hears the reply.
LEMMA ServeMoves ==
  ASSUME Types, Flow, Whereabouts, NEW c \in Commands, c.verb \in AwaitedVerbs(op.at), cmds = <<c>>,
         NEW r, Fits(cwd, c, r), op.at \in Asking \cup {"opening"},
         op' = op, current' = current, cwd' = r.cwd, cmds' = <<>>, replies' = <<r.reply>>
  PROVE  Whereabouts'
<1>1. replies'[1] = r.reply /\ cmds # <<>> /\ cmds[1] = c
  BY Single, Zenon
<1>2. cwd \in Nodes /\ Place(op) \in Nodes /\ FileName(op.path) \in Names \cup {""}
  BY OpFields DEF Types, ServerTypes
<1>3. c.verb = "CWD" /\ r.reply.code = 250 =>
        r.cwd = IF c.name = ".." THEN Parent(cwd) ELSE Append(cwd, c.name)
  BY Zenon DEF Fits
<1>4. ~(c.verb = "CWD" /\ r.reply.code = 250) => r.cwd = cwd
  BY Zenon DEF Fits
<1>5. CASE op.at \notin {"CWD", "enter", "leave"}
  <2>1. c.verb # "CWD"
    BY <1>5 DEF AwaitedVerbs, Asking, TransferVerbs
  <2>2. cwd = current
    BY <1>5, Zenon DEF Whereabouts
  <2>3. QED
    BY <1>4, <1>5, <2>1, <2>2, Zenon DEF Whereabouts
<1>6. CASE op.at = "CWD"
  <2>1. /\ op.plan # <<>> /\ Len(op.plan) <= Len(Plan(current, Place(op)))
        /\ c.name = Head(op.plan) /\ Leads(cwd, op.plan, Place(op)) /\ FirstStep
    BY <1>1, <1>6, Zenon DEF Whereabouts
  <2>2. c.verb = "CWD"
    BY <1>6 DEF AwaitedVerbs
  <2>3. CASE r.reply.code = 250
    <3>1. Leads(r.cwd, Tail(op.plan), Place(op))
      <4>1. /\ Head(op.plan) = ".." => Leads(Parent(cwd), Tail(op.plan), Place(op))
            /\ Head(op.plan) # ".." => Leads(Append(cwd, Head(op.plan)), Tail(op.plan), Place(op))
        BY <1>2, <2>1, LeadsStep
      <4>2. CASE c.name = ".."
        <5>1. r.cwd = Parent(cwd)
          BY <1>3, <2>2, <2>3, <4>2, Zenon
        <5>2. QED
          BY <2>1, <4>1, <4>2, <5>1, Zenon
      <4>3. CASE c.name # ".."
        <5>1. r.cwd = Append(cwd, c.name)
          BY <1>3, <2>2, <2>3, <4>3, Zenon
        <5>2. QED
          BY <2>1, <4>1, <4>3, <5>1, Zenon
      <4>4. QED
        BY <4>2, <4>3
    <3>2. QED
      BY <1>1, <1>6, <2>1, <2>3, <3>1, Zenon DEF Whereabouts
  <2>4. CASE r.reply.code # 250
    <3>1. r.cwd = cwd
      BY <1>4, <2>4
    <3>2. FirstStep'
      BY <2>1, <3>1, Zenon DEF FirstStep
    <3>3. QED
      BY <1>1, <1>6, <2>1, <2>4, <3>2, Zenon DEF Whereabouts
  <2>5. QED
    BY <2>3, <2>4
<1>7. CASE op.at = "enter"
  <2>1. c.name = FileName(op.path) /\ cwd = current
    BY <1>1, <1>7, Zenon DEF Whereabouts
  <2>2. c.verb = "CWD" /\ c.name # ".."
    BY <1>2, <1>7, <2>1, NameIsNoStep DEF AwaitedVerbs
  <2>3. CASE r.reply.code = 250
    <3>1. r.cwd = Append(cwd, c.name)
      BY <1>3, <2>2, <2>3, Zenon
    <3>2. r.cwd # <<>> /\ Parent(r.cwd) = current
      <4> DEFINE S == Names \cup {""}
      <4>1. cwd \in Seq(Names) /\ Names \subseteq S
        BY <1>2, NodeLen
      <4>2. c.name \in S
        BY <1>2, <2>1
      <4> HIDE DEF S
      <4>3. cwd \in Seq(S)
        BY <4>1, SeqMonotonic
      <4>4. QED
        BY <2>1, <3>1, <4>2, <4>3, ParentAppend, Zenon
    <3>3. QED
      BY <1>1, <1>7, <2>3, <3>2, Zenon DEF Whereabouts
  <2>4. CASE r.reply.code # 250
    BY <1>1, <1>4, <1>7, <2>1, <2>4, Zenon DEF Whereabouts
  <2>5. QED
    BY <2>3, <2>4
<1>8. CASE op.at = "leave"
  <2>1. c.name = ".." /\ Parent(cwd) = current
    BY <1>1, <1>8, Zenon DEF Whereabouts
  <2>2. c.verb = "CWD"
    BY <1>8 DEF AwaitedVerbs
  <2>3. r.reply.code = 250 => r.cwd = current
    BY <1>3, <2>1, <2>2, Zenon
  <2>4. QED
    BY <1>1, <1>8, <2>3, Zenon DEF Whereabouts
<1>9. QED
  BY <1>5, <1>6, <1>7, <1>8, Zenon


LEMMA ServeStep ==
  ASSUME Inv, Serve
  PROVE  Inv'
<1>1. Types /\ up /\ cmds # <<>> /\ xfer = NoXfer
  BY DEF Inv, Serve
<1>2. /\ cmds' = Tail(cmds) /\ up' = up /\ current' = current /\ caps' = caps /\ dead' = dead /\ op' = op
      /\ answer' = answer /\ data' = data /\ features' = features /\ late' = late
      /\ fault' = fault /\ calls' = calls
  BY DEF Serve, client
<1>3. PICK r \in Results(cwd, Head(cmds)) :
        fs' = r.fs /\ cwd' = r.cwd /\ xfer' = r.xfer /\ replies' = Append(replies, r.reply)
  BY DEF Serve
<1>4. cmds \in Seq(Commands) /\ replies \in Seq(Replies) /\ cwd \in Nodes /\ fs \in [Paths -> Kinds]
  BY <1>1, Zenon DEF Types, CallTypes, LineTypes, ServerTypes
<1>5. Head(cmds) \in Commands /\ Tail(cmds) \in Seq(Commands)
  BY <1>1, <1>4, HeadTailProperties
<1>6. Fits(cwd, Head(cmds), r)
  BY <1>4, <1>5, ResultsFit
<1>7. r.fs \in [Paths -> Kinds] /\ r.cwd \in Nodes /\ r.reply \in Replies
  BY <1>6, Zenon DEF Fits
<1>8. ServerTypes'
  BY <1>1, <1>2, <1>3, <1>7, Zenon DEF Types, ServerTypes
<1>9. LineTypes'
  <2>1. replies' \in Seq(Replies)
    BY <1>3, <1>4, <1>7, AppendProperties
  <2>2. QED
    BY <1>1, <1>2, <2>1, Zenon DEF Types, LineTypes
<1>10. CallTypes' /\ ClientTypes'
  BY <1>1, <1>2, <1>5, Zenon DEF Types, CallTypes, ClientTypes
<1>11. ASSUME Flow, Whereabouts
       PROVE  Flow' /\ Whereabouts'
  <2>1. op.at \in Asking \cup {"opening"} /\ Asked(op.at) /\ ~dead
    BY <1>1, <1>11, CommandAwaited DEF Flow
  <2>2. PICK c \in Commands : /\ c.verb \in AwaitedVerbs(op.at)
                              /\ cmds = <<c>> /\ replies = <<>>
    BY <2>1 DEF Asked
  <2>3. Head(<<c>>) = c /\ Tail(<<c>>) = <<>> /\ Append(<<>>, r.reply) = <<r.reply>>
    BY Single
  <2>4. cmds' = <<>> /\ replies' = <<r.reply>> /\ Fits(cwd, c, r)
    BY <1>2, <1>3, <1>6, <2>2, <2>3, Zenon
  <2>5. Whereabouts'
    BY <1>1, <1>2, <1>3, <1>11, <2>1, <2>2, <2>4, ServeMoves, Zenon
  <2>6. ~dead' /\ op'.at = op.at
    BY <1>2, <2>1
  <2>7. \/ r.reply.code \notin Openings /\ xfer' = NoXfer
        \/ r.reply.code \in Openings /\ xfer' # NoXfer /\ c.verb \in TransferVerbs
    BY <1>3, <2>4, Zenon DEF Fits
  <2>8. CASE r.reply.code \notin Openings /\ xfer' = NoXfer
    <3>1. Answered'
      BY <1>7, <2>4, <2>8, Zenon DEF Answered
    <3>2. op'.at \notin Resting \cup Transferring
      BY <2>1, <2>6 DEF Asking, Resting, Transferring
    <3>3. Flow'
      BY <2>6, <3>1, <3>2, Zenon DEF Flow
    <3>4. QED
      BY <2>5, <3>3
  <2>9. CASE r.reply.code \in Openings /\ xfer' # NoXfer /\ c.verb \in TransferVerbs
    <3>1. op.at = "opening"
      BY <2>1, <2>2, <2>9 DEF AwaitedVerbs, Asking, TransferVerbs
    <3>2. op'.at = "opening" /\ op'.at \notin Resting \cup Transferring \cup Asking
      BY <2>6, <3>1 DEF Asking, Resting, Transferring
    <3>3. Flow'
      BY <1>7, <2>4, <2>6, <2>9, <3>2, Zenon DEF Flow
    <3>4. QED
      BY <2>5, <3>3
  <2>10. QED
    BY <2>7, <2>8, <2>9
<1>12. QED
  BY <1>1, <1>2, <1>8, <1>9, <1>10, <1>11, Zenon DEF Inv, Types, Down

\* The reply at the end of a transfer comes where it is owed.
LEMMA CompleteStep ==
  ASSUME Inv, Complete
  PROVE  Inv'
<1>1. Types /\ up /\ xfer # NoXfer
  BY DEF Inv, Complete
<1>2. /\ cmds' = cmds /\ up' = up /\ current' = current /\ caps' = caps /\ dead' = dead /\ op' = op
      /\ answer' = answer /\ cwd' = cwd /\ features' = features /\ late' = late
      /\ fault' = fault /\ calls' = calls /\ xfer' = NoXfer
  BY DEF Complete, client
<1>3. PICK code \in {226, 426} : replies' = Append(replies, [code |-> code, fact |-> ""])
  BY DEF Complete
<1> DEFINE e == [code |-> code, fact |-> ""]
<1>4. e.code = code /\ replies' = Append(replies, e)
  BY <1>3
<1>5. e \in Replies /\ e.code \notin Openings /\ replies' = Append(replies, e)
  <2>1. code \in Codes /\ code \notin Openings
    BY DEF Codes, Openings
  <2>2. "" \in Facts
    BY DEF Facts
  <2>3. e \in Replies
    BY <2>1, <2>2, ReplyType
  <2> HIDE DEF e
  <2>4. QED
    BY <1>4, <2>1, <2>3, Zenon
<1> HIDE DEF e
<1>6. fs \in [Paths -> Kinds] /\ data \in DataStates /\ replies \in Seq(Replies)
  BY <1>1, Zenon DEF Types, ServerTypes, LineTypes
<1>7. fs' \in [Paths -> Kinds]
  <2>1. Put(xfer.path, "file") \in [Paths -> Kinds]
    BY <1>6, PutType DEF Kinds
  <2>2. fs' = fs \/ fs' = Put(xfer.path, "file")
    BY DEF Complete
  <2>3. CASE fs' = fs
    BY <1>6, <2>3
  <2>4. CASE fs' = Put(xfer.path, "file")
    BY <2>1, <2>4
  <2>5. QED
    BY <2>2, <2>3, <2>4
<1>8. data' \in DataStates
  <2>1. data' \in {data, "whole", "cut", "broken"}
    BY DEF Complete
  <2>2. QED
    BY <1>6, <2>1 DEF DataStates
<1>9. ServerTypes'
  BY <1>1, <1>2, <1>7, Zenon DEF Types, ServerTypes
<1>10. LineTypes'
  <2>1. replies' \in Seq(Replies)
    BY <1>5, <1>6, AppendProperties
  <2>2. QED
    BY <1>1, <1>2, <1>8, <2>1, Zenon DEF Types, LineTypes
<1>11. CallTypes' /\ ClientTypes'
  BY <1>1, <1>2, ZenonT(60) DEF Types, CallTypes, ClientTypes
<1>12. ASSUME Flow, Whereabouts
       PROVE  Flow' /\ Whereabouts'
  <2>1. op.at \in Resting \cup Asking \cup {"opening"} \cup Transferring
    BY <1>1, Zenon DEF Types, CallTypes, Ops
  <2>2. op.at \notin Resting /\ op.at \notin Asking
    BY <1>1, <1>12, Zenon DEF Flow, Clear, Asked, Answered
  <2>3. ~dead'
    <3>1. ~dead
      BY <1>12, Zenon DEF Flow
    <3>2. QED
      BY <1>2, <3>1
  <2>4. Whereabouts'
    <3>1. op.at \notin {"CWD", "enter", "leave"}
      BY <2>1, <2>2 DEF Resting, Asking, Transferring
    <3>2. cwd = current
      BY <1>12, <3>1, Zenon DEF Whereabouts
    <3>3. QED
      BY <1>2, <3>1, <3>2, Zenon DEF Whereabouts
  <2>5. CASE op.at \in Transferring
    <3>1. cmds = <<>> /\ replies = <<>>
      BY <1>1, <1>12, <2>5, Zenon DEF Flow, Answered
    <3>2. replies' = <<e>>
      BY <1>5, <3>1, Single
    <3>3. Answered'
      BY <1>2, <1>5, <3>1, <3>2, Zenon DEF Answered
    <3>4. op'.at \in Transferring /\ op'.at \notin Resting \cup Asking \cup {"opening"}
      BY <1>2, <2>5 DEF Resting, Asking, Transferring
    <3>5. Flow'
      BY <2>3, <3>3, <3>4, Zenon DEF Flow
    <3>6. QED
      BY <2>4, <3>5
  <2>6. CASE op.at = "opening"
    <3>1. PICK r \in Replies : r.code \in Openings /\ cmds = <<>> /\ replies = <<r>>
      BY <1>1, <1>12, <2>6, Zenon DEF Flow, Asked, Answered
    <3>2. replies' = <<r, e>>
      <4>1. Append(<<r>>, e) = <<r, e>>
        BY Pair
      <4>2. QED
        BY <1>5, <3>1, <4>1, Zenon
    <3>3. op'.at = "opening" /\ op'.at \notin Resting \cup Asking \cup Transferring
      BY <1>2, <2>6 DEF Resting, Asking, Transferring
    <3>4. \E a \in Replies, b \in Replies :
            /\ a.code \in Openings /\ b.code \notin Openings
            /\ cmds' = <<>> /\ replies' = <<a, b>> /\ xfer' = NoXfer
      <4>1. /\ r.code \in Openings /\ e.code \notin Openings
            /\ cmds' = <<>> /\ replies' = <<r, e>> /\ xfer' = NoXfer
        BY <1>2, <1>5, <3>1, <3>2, Zenon
      <4>2. e \in Replies
        BY <1>5, Zenon
      <4>3. QED
        BY <4>1, <4>2
    <3>5. Flow'
      BY <2>3, <3>3, <3>4, Zenon DEF Flow
    <3>6. QED
      BY <2>4, <3>5
  <2>7. QED
    BY <2>1, <2>2, <2>5, <2>6, Zenon
<1>13. QED
  BY <1>1, <1>2, <1>9, <1>10, <1>11, <1>12, Zenon DEF Inv, Types, Down


\* Nothing happens to the session.
SameSession ==
  /\ up' = up /\ dead' = dead /\ op' = op /\ current' = current /\ cmds' = cmds
  /\ replies' = replies /\ cwd' = cwd /\ xfer' = xfer

LEMMA SameSessionKeeps ==
  ASSUME SameSession
  PROVE  (Flow => Flow') /\ (Whereabouts => Whereabouts') /\ (Down => Down')
<1>1. /\ up' = up /\ dead' = dead /\ op' = op /\ current' = current /\ cmds' = cmds
      /\ replies' = replies /\ cwd' = cwd /\ xfer' = xfer
  BY DEF SameSession
<1>2. (Clear => Clear') /\ (Answered => Answered') /\ (\A at : Asked(at) => Asked(at)')
  BY <1>1, Zenon DEF Clear, Answered, Asked
<1>3. Flow => Flow'
  BY <1>1, <1>2, Zenon DEF Flow
<1>4. Whereabouts => Whereabouts'
  BY <1>1, ZenonT(60) DEF Whereabouts, FirstStep
<1>5. QED
  BY <1>1, <1>3, <1>4, Zenon DEF Down

\* A session that was given up touches nothing but files.
LEMMA LateStep ==
  ASSUME Inv, Late
  PROVE  Inv'
<1>1. Types /\ fs \in [Paths -> Kinds] /\ late \subseteq Sessions /\ \A s \in late : s.cmds # <<>>
  BY Zenon DEF Inv, Types, ServerTypes
<1>2. /\ up' = up /\ current' = current /\ caps' = caps /\ dead' = dead /\ op' = op /\ answer' = answer
      /\ cmds' = cmds /\ replies' = replies /\ data' = data /\ cwd' = cwd /\ xfer' = xfer
      /\ features' = features /\ calls' = calls
  BY DEF Late, client
<1>3. fault' = (fault \/ (fs' # fs /\ op # NoOp) \/ Kind(cwd)' # "dir")
  BY DEF Late
<1>4. fault' \in BOOLEAN /\ (~fault' => ~fault)
  BY <1>1, <1>3 DEF Types, ClientTypes
<1>5. PICK s \in late :
        \/ late' = late \ {s} /\ fs' = fs
        \/ \E r \in Results(s.cwd, Head(s.cmds)) :
             fs' = r.fs /\ late' = (late \ {s}) \cup Unserved(r.cwd, Tail(s.cmds))
  BY DEF Late
<1>6. /\ fs' \in [Paths -> Kinds] /\ late' \subseteq Sessions /\ \A t \in late' : t.cmds # <<>>
  <2>1. CASE late' = late \ {s} /\ fs' = fs
    BY <1>1, <2>1
  <2>2. CASE \E r \in Results(s.cwd, Head(s.cmds)) :
               fs' = r.fs /\ late' = (late \ {s}) \cup Unserved(r.cwd, Tail(s.cmds))
    <3>1. PICK r \in Results(s.cwd, Head(s.cmds)) :
            fs' = r.fs /\ late' = (late \ {s}) \cup Unserved(r.cwd, Tail(s.cmds))
      BY <2>2
    <3>2. s.cwd \in Nodes /\ s.cmds \in Seq(Commands) /\ s.cmds # <<>>
      BY <1>1 DEF Sessions
    <3>3. Head(s.cmds) \in Commands /\ Tail(s.cmds) \in Seq(Commands)
      BY <3>2, HeadTailProperties
    <3>4. r.fs \in [Paths -> Kinds] /\ r.cwd \in Nodes
      BY <1>1, <3>2, <3>3, ResultsFit DEF Fits
    <3>5. /\ Unserved(r.cwd, Tail(s.cmds)) \subseteq Sessions
          /\ \A t \in Unserved(r.cwd, Tail(s.cmds)) : t.cmds # <<>>
      BY <3>3, <3>4, UnservedTypes
    <3>6. fs' \in [Paths -> Kinds]
      BY <3>1, <3>4
    <3>7. late' \subseteq Sessions /\ \A t \in late' : t.cmds # <<>>
      BY <1>1, <3>1, <3>5, Zenon
    <3>8. QED
      BY <3>6, <3>7
  <2>3. QED
    BY <1>5, <2>1, <2>2
<1>7. ServerTypes'
  <2>1. cwd' \in Nodes /\ features' \subseteq {"MLST", "SIZE"}
    BY <1>1, <1>2, Zenon DEF Types, ServerTypes
  <2>2. QED
    BY <1>6, <2>1 DEF ServerTypes
<1>8. LineTypes' /\ CallTypes' /\ ClientTypes'
  BY <1>1, <1>2, <1>4, Zenon DEF Types, LineTypes, CallTypes, ClientTypes
<1>9. SameSession
  BY <1>2, Zenon DEF SameSession
<1>10. (Flow => Flow') /\ (Whereabouts => Whereabouts') /\ (Down => Down')
  BY <1>9, SameSessionKeeps
<1>11. QED
  BY <1>2, <1>4, <1>7, <1>8, <1>10, Zenon DEF Inv, Types

-----------------------------------------------------------------------------
(* The theorems.                                                           *)

LEMMA InitInv ==
  ASSUME Init
  PROVE  Inv
<1>1. NoOp \in Ops /\ NoOp.at = "idle"
  BY EmptySeq DEF NoOp, Ops, Nodes, Resting, Kinds
<1>2. CallTypes
  <2>1. cmds \in Seq(Commands) /\ answer \in Answers
    BY EmptySeq DEF Init, Answers
  <2>2. QED
    BY <1>1, <2>1, Awaited DEF Init, CallTypes
<1>3. LineTypes
  BY EmptySeq DEF Init, LineTypes, DataStates
<1>4. ClientTypes
  <2>1. calls \in 0..MaxCalls
    BY BoundAssumption DEF Init
  <2>2. up \in BOOLEAN /\ fault \in BOOLEAN
    BY DEF Init
  <2>3. current \in Nodes
    BY Zenon DEF Init, Nodes
  <2>4. caps \subseteq {"MLST", "SIZE"}
    BY Zenon DEF Init
  <2>5. QED
    BY <2>1, <2>2, <2>3, <2>4, Zenon DEF ClientTypes
<1>5. ServerTypes
  <2>1. fs \in [Paths -> Kinds]
    BY DEF Init, Kinds
  <2>2. features \subseteq {"MLST", "SIZE"}
    BY FeaturesAssumption DEF Init
  <2>3. cwd \in Nodes /\ late = {}
    BY DEF Init, Nodes
  <2>4. QED
    BY <2>1, <2>2, <2>3 DEF ServerTypes
<1>6. ~up /\ Down
  BY <1>1 DEF Init, Down
<1>7. QED
  BY <1>2, <1>3, <1>4, <1>5, <1>6 DEF Inv, Types

LEMMA NextInv ==
  ASSUME Inv, [Next]_vars
  PROVE  Inv'
<1>1. CASE \E c \in Credentials : Connect(c.user, c.pass)
  BY <1>1, ConnectStep
<1>2. CASE \E api \in Apis, path \in Targets : Call(api, path)
  BY <1>2, CallStep
<1>3. CASE Begin
  BY <1>3, BeginStep
<1>4. CASE Change
  BY <1>4, ChangeStep
<1>5. CASE Query
  <2>1. UNCHANGED <<client, data, server, calls>>
    BY <1>5 DEF Query
  <2>2. HearMlst \/ HearSize \/ HearEnter \/ HearLeave \/ HearCreate \/ HearRemove
    BY <1>5 DEF Query
  <2>3. QED
    BY <2>1, <2>2, MlstStep, SizeStep, EnterStep, LeaveStep, LastStep
<1>6. CASE Transfer
  BY <1>6, PasvStep, DialStep, CrashStep, OpeningStep, DataStep, AbandonStep, CompletionStep
  DEF Transfer
<1>7. CASE Connecting
  BY <1>7, ConnectingStep
<1>8. CASE Serve
  BY <1>8, ServeStep
<1>9. CASE Complete
  BY <1>9, CompleteStep
<1>10. CASE Late
  BY <1>10, LateStep
<1>11. CASE UNCHANGED vars
  <2>1. SameSession /\ UNCHANGED <<answer, data, caps, fs, features, late, fault, calls>>
    BY <1>11 DEF vars, SameSession
  <2>2. (Flow => Flow') /\ (Whereabouts => Whereabouts') /\ (Down => Down')
    BY <2>1, SameSessionKeeps
  <2>3. Types => Types'
    BY <2>1, Zenon DEF SameSession, Types, ServerTypes, LineTypes, CallTypes, ClientTypes
  <2>4. up' = up /\ fault' = fault
    BY <2>1 DEF SameSession
  <2>5. QED
    BY <2>2, <2>3, <2>4 DEF Inv
<1>12. CASE MoreData
  BY <1>12, DataStep
<1>13. QED
  BY <1>1, <1>2, <1>3, <1>4, <1>5, <1>6, <1>7, <1>8, <1>9, <1>10, <1>11, <1>12 DEF Next, Client

\* Inv is an invariant of the session.
THEOREM InvHolds == Spec => []Inv
<1>1. Init => Inv
  BY InitInv
<1>2. Inv /\ [Next]_vars => Inv'
  BY NextInv
<1>3. QED
  BY <1>1, <1>2, PTL DEF Spec


LEMMA TypesImply ==
  ASSUME Types
  PROVE  TypeOK
<1>1. /\ op.api \in Apis \cup {"none", "connect"} /\ op.path \in Nodes
      /\ op.at = "idle" <=> op = NoOp
  <2>1. op \in Ops /\ (op.at = "idle" <=> op = NoOp)
    BY DEF Types, CallTypes
  <2>2. op.api \in Apis \cup {"none", "connect"} /\ op.path \in Nodes
    BY <2>1 DEF Ops
  <2>3. QED
    BY <2>1, <2>2
<1>2. QED
  BY <1>1, Zenon DEF Types, ServerTypes, LineTypes, CallTypes, ClientTypes, TypeOK, Nodes, Kinds,
                     DataStates, Answers

\* Type correctness of the session: the files the server keeps, what the client knows
\* of the session, the call it is in and what the call answered.
THEOREM TypeCorrect == Spec => []TypeOK
<1>1. Inv => TypeOK
  BY TypesImply DEF Inv
<1>2. QED
  BY <1>1, InvHolds, PTL

-----------------------------------------------------------------------------
(* Counting the replies.                                                   *)

Ended(s) == {i \in DOMAIN s : s[i].code \notin {150, 125}}

LEMMA OneEnded ==
  ASSUME NEW r
  PROVE  /\ r.code \notin Openings => Cardinality(Ended(<<r>>)) = 1
         /\ r.code \in Openings => Cardinality(Ended(<<r>>)) = 0
<1>1. DOMAIN <<r>> = {1} /\ <<r>>[1] = r
  BY Single
<1>2. ASSUME r.code \notin Openings
      PROVE  Ended(<<r>>) = {1}
  BY <1>1, <1>2 DEF Ended, Openings
<1>3. ASSUME r.code \in Openings
      PROVE  Ended(<<r>>) = {}
  BY <1>1, <1>3 DEF Ended, Openings
<1>4. Cardinality({1}) = 1 /\ Cardinality({}) = 0
  BY FS_EmptySet, FS_Singleton
<1>5. QED
  BY <1>2, <1>3, <1>4

LEMMA PairEnded ==
  ASSUME NEW r, NEW e, r.code \in Openings, e.code \notin Openings
  PROVE  Cardinality(Ended(<<r, e>>)) = 1
<1>1. DOMAIN <<r, e>> = {1, 2} /\ <<r, e>>[1] = r /\ <<r, e>>[2] = e
  BY Pair
<1>2. Ended(<<r, e>>) = {2}
  BY <1>1 DEF Ended, Openings
<1>3. Cardinality({2}) = 1
  BY FS_Singleton
<1>4. QED
  BY <1>2, <1>3

LEMMA NoneEnded == Len(<<>>) = 0 /\ Cardinality(Ended(<<>>)) = 0
<1>1. Ended(<<>>) = {}
  BY DEF Ended
<1>2. Len(<<>>) = 0
  OBVIOUS
<1>3. QED
  BY <1>1, <1>2, FS_EmptySet

LEMMA OwedIs ==
  ASSUME NEW m \in Nat, NEW n \in Nat, Len(cmds) = m, Cardinality(Ended(replies)) = n
  PROVE  /\ xfer = NoXfer => Owed = m + n
         /\ xfer # NoXfer => Owed = m + n + 1
<1>1. Owed = m + n + IF xfer = NoXfer THEN 0 ELSE 1
  BY DEF Owed, Ended
<1>2. QED
  BY <1>1

LEMMA AskedOwes ==
  ASSUME NEW at, Asked(at)
  PROVE  Owed = 1
<1>1. PICK c \in Commands : cmds = <<c>> /\ replies = <<>> /\ xfer = NoXfer
  BY DEF Asked
<1>2. Len(cmds) = 1 /\ Cardinality(Ended(replies)) = 0
  BY <1>1, Single, NoneEnded
<1>3. QED
  BY <1>1, <1>2, OwedIs

LEMMA AnsweredOwes ==
  ASSUME Answered
  PROVE  Owed = 1
<1>1. PICK r \in Replies : /\ r.code \notin Openings
                           /\ cmds = <<>> /\ replies = <<r>> /\ xfer = NoXfer
  BY DEF Answered
<1>2. Len(cmds) = 0 /\ Cardinality(Ended(replies)) = 1
  BY <1>1, OneEnded, NoneEnded
<1>3. QED
  BY <1>1, <1>2, OwedIs

\* Flow names the reply, so that InStep can count it.
LEMMA FlowOwes ==
  ASSUME Flow, op.at \in Resting \cup Asking \cup {"opening"} \cup Transferring
  PROVE  Owed = IF op.at \in Resting THEN 0 ELSE 1
<1>1. CASE op.at \in Resting
  <2>1. cmds = <<>> /\ replies = <<>> /\ xfer = NoXfer
    BY <1>1 DEF Flow, Clear
  <2>2. Len(cmds) = 0 /\ Cardinality(Ended(replies)) = 0
    BY <2>1, NoneEnded
  <2>3. Owed = 0
    BY <2>1, <2>2, OwedIs
  <2>4. QED
    BY <1>1, <2>3
<1>2. ASSUME op.at \notin Resting
      PROVE  Owed = 1
  <2>1. CASE op.at \in Asking
    <3>1. Asked(op.at) \/ Answered
      BY <2>1 DEF Flow
    <3>2. QED
      BY <3>1, AskedOwes, AnsweredOwes
  <2>2. ASSUME cmds = <<>>, replies = <<>>, xfer # NoXfer
        PROVE  Owed = 1
    <3>1. Len(cmds) = 0 /\ Cardinality(Ended(replies)) = 0
      BY <2>2, NoneEnded
    <3>2. QED
      BY <2>2, <3>1, OwedIs
  <2>3. CASE op.at \in Transferring
    <3>1. (cmds = <<>> /\ replies = <<>> /\ xfer # NoXfer) \/ Answered
      BY <2>3 DEF Flow
    <3>2. QED
      BY <3>1, <2>2, AnsweredOwes
  <2>4. ASSUME NEW r \in Replies, r.code \in Openings, cmds = <<>>, replies = <<r>>, xfer # NoXfer
        PROVE  Owed = 1
    <3>1. Len(cmds) = 0 /\ Cardinality(Ended(replies)) = 0
      BY <2>4, OneEnded, NoneEnded
    <3>2. QED
      BY <2>4, <3>1, OwedIs
  <2>5. ASSUME NEW r \in Replies, NEW e \in Replies, r.code \in Openings, e.code \notin Openings,
               cmds = <<>>, replies = <<r, e>>, xfer = NoXfer
        PROVE  Owed = 1
    <3>1. Len(cmds) = 0 /\ Cardinality(Ended(replies)) = 1
      BY <2>5, PairEnded, NoneEnded
    <3>2. QED
      BY <2>5, <3>1, OwedIs
  <2>6. CASE op.at = "opening"
    <3>1. \/ Asked("opening") \/ Answered
          \/ \E r \in Replies : /\ r.code \in Openings
                                /\ cmds = <<>> /\ replies = <<r>> /\ xfer # NoXfer
          \/ \E r \in Replies, e \in Replies :
               /\ r.code \in Openings /\ e.code \notin Openings
               /\ cmds = <<>> /\ replies = <<r, e>> /\ xfer = NoXfer
      BY <2>6 DEF Flow
    <3>2. CASE Asked("opening") \/ Answered
      BY <3>2, AskedOwes, AnsweredOwes
    <3>3. QED
      BY <3>1, <3>2, <2>4, <2>5, Zenon
  <2>7. QED
    BY <1>2, <2>1, <2>3, <2>6
<1>3. QED
  BY <1>1, <1>2

\* Client and server stay in step: as long as no control read has failed, no transfer
\* was abandoned and no directory change stopped halfway, a waiting client is owed
\* exactly one reply and a resting one none, and _current is the session's directory.
THEOREM StaysInStep == Spec => []InStep
<1>1. ASSUME Inv
      PROVE  InStep
  <2>1. SUFFICES ASSUME up /\ ~fault
                 PROVE  /\ Owed = IF op.at \in Resting THEN 0 ELSE 1
                        /\ op.at \notin {"CWD", "enter", "leave"} => cwd = current
    BY Zenon DEF InStep, Resting
  <2>2. Flow /\ Whereabouts
    BY <1>1, <2>1 DEF Inv
  <2>3. op.at \in Resting \cup Asking \cup {"opening"} \cup Transferring
    <3>1. op \in Ops
      BY <1>1 DEF Inv, Types, CallTypes
    <3>2. QED
      BY <3>1 DEF Ops
  <2>4. op.at \notin {"CWD", "enter", "leave"} => cwd = current
    BY <2>2 DEF Whereabouts
  <2>5. QED
    BY <2>2, <2>3, <2>4, FlowOwes
<1>2. QED
  BY <1>1, InvHolds, PTL

=============================================================================
