--------------------------- MODULE FtpStore_proofs ---------------------------
(***************************************************************************)
(* FtpFileTransfer is a file store, but for the departures that FileStore  *)
(* names: FtpSession implements FileStore, for every set of names, every   *)
(* server and any number of calls and reconnects.                          *)
(*                                                                         *)
(* Being in step is not enough for that.  What the client concludes from a *)
(* reply has to be true when it is concluded, so the invariant says what   *)
(* each reply on its way means for the path of the call (Truths), on top   *)
(* of where the session is (Whereabouts) and that the files form a tree.   *)
(***************************************************************************)
EXTENDS FtpSession_proofs

Logging == {"greeting", "USER", "PASS", "FEAT"}
Probing == {"MLST", "SIZE", "enter", "leave"}
Local == Probing \cup {"create", "remove"} \cup Fetching
Naming == {"MLST", "SIZE", "enter", "create", "remove", "opening"}
Probes == {"exists", "createDir", "isDirectory", "remove"}
Namers == {"exists", "createDir", "isDirectory"}
Makers == {"createDir", "remove"}

\* Which call o gets where, and that it acts in the directory it has changed to.
Role(o, dir) ==
  /\ o.at \in Logging => o.api = "connect"
  /\ o.at \notin Logging \cup {"idle"} => o.api \in Apis
  /\ o.at \notin {"idle", "begin"} /\ o.api \in Namers => o.path # <<>>
  /\ o.at \in Probing => o.api \in Probes /\ o.path # <<>>
  /\ o.at = "create" => o.api = "createDir"
  /\ o.at = "remove" => o.api = "remove"
  /\ o.at \in Local => dir = Place(o)
Roles == Role(op, current)

\* The files form a tree.
KindIn(store, p) == IF p = <<>> THEN "dir" ELSE IF p \in Paths THEN store[p] ELSE "none"
TreeOf(store) == \A p \in Paths : store[p] # "none" => KindIn(store, Parent(p)) = "dir"
Tree == TreeOf(fs)

\* The first reply on its way; that the transfer has ended well is said by any of them.
Tells(rs, code) == rs # <<>> /\ rs[1].code = code
Announced(rs) == rs # <<>> /\ rs[1].code \in Openings
Over(rs) == \E i \in DOMAIN rs : rs[i].code = 226

\* The command on its way names the path of the call.
NameOf(o) == IF o.api = "list" THEN "" ELSE FileName(o.path)
VerbOf(o) == IF o.api = "list" THEN "LIST" ELSE IF o.api = "read" THEN "RETR" ELSE "STOR"
Placed(o, cs, d) ==
  /\ o.at \in Naming /\ cs # <<>> => cs[1].name = NameOf(o)
  /\ o.at = "opening" /\ cs # <<>> => cs[1].verb = VerbOf(o) /\ d \in {"open", "stray"}

\* What the reply to a probe says of the path, whose kind is k, is so.
Told(o, rs, k) ==
  /\ o.at = "MLST" /\ Tells(rs, 250) =>
       k # "none" /\ (rs[1].fact # "none" => (rs[1].fact = "dir" <=> k = "dir"))
  /\ o.at = "SIZE" /\ Tells(rs, 213) => k \in {"file", "cut"}
  /\ o.at = "enter" /\ Tells(rs, 250) => k = "dir"
  /\ o.at = "leave" => k = "dir"

\* createDir and remove have changed nothing before the server says so.
Made(o, rs, k) ==
  o.api \in Makers =>
    k = IF o.at = "create" /\ Tells(rs, 257) THEN "dir"
        ELSE IF o.at = "remove" /\ Tells(rs, 250) THEN "none" ELSE o.before

\* The server has begun the transfer; what is so while it lasts; what is so when the
\* server has said that all data was moved.
Begun(o, rs) == o.at \in Transferring \/ (o.at = "opening" /\ Announced(rs))
Running(o, d, x, k) ==
  /\ x.verb = VerbOf(o)
  /\ o.api = "write" => /\ x.path = o.path /\ o.path \in Paths /\ k = "cut"
                        /\ d \in {"open", "stray", "whole"}
  /\ o.api # "write" => d = "stray" \/ (d = "open" /\ o.at # "completion")
Finished(o, d, k) ==
  /\ o.api = "write" => k = "file"
  /\ o.api = "read" => IF o.at = "completion" THEN o.got ELSE d = "whole"
Moved(o, rs, d, x, k) ==
  /\ o.at = "completion" /\ o.api = "write" => o.got
  /\ Begun(o, rs) => /\ o.api = "read" => k \in {"file", "cut"}
                     /\ x # NoXfer => Running(o, d, x, k)
                     /\ Over(rs) => Finished(o, d, k)

\* The session's directory exists, and the replies are true.
Truths ==
  /\ KindIn(fs, cwd) = "dir"
  /\ Placed(op, cmds, data)
  /\ Told(op, replies, KindIn(fs, op.path))
  /\ Made(op, replies, KindIn(fs, op.path))
  /\ Moved(op, replies, data, xfer, KindIn(fs, op.path))

\* The inductive invariant.
SInv == Inv /\ Roles /\ Tree /\ (up /\ ~fault => Truths)

-----------------------------------------------------------------------------
(* What the store sees.                                                    *)

Trouble == fault \/ late # {}

\* The answer a to call o is one the store may give for a path of kind k.
Honest(o, a, k) ==
  \/ a = "error" /\ (o.api \in Makers => k = o.before \/ fault')
  \/ o.api = "createDir" /\ a = "ok" /\ k # "none"
  \/ o.api = "remove" /\ a = "ok" /\ k = "none"
  \/ o.api = "write" /\ a = "ok" /\ k = "file"
  \/ o.api = "read" /\ a = "ok" /\ k \in {"file", "cut"}
  \/ o.api = "list" /\ a \in {"ok", "cut"} /\ k = "dir"
  \/ o.api = "exists" /\ a = "true" /\ k # "none"
  \/ o.api = "exists" /\ a = "false"
  \/ o.api = "isDirectory" /\ a = "true" /\ k = "dir"
  \/ o.api = "isDirectory" /\ a = "false" /\ k # "dir"

\* A step of the session as the store sees it: nothing, a part of connect, a call, a
\* change of the files, an answer.
Unseen == /\ fs' = fs /\ answer' = answer
          /\ op'.api = op.api /\ op'.path = op.path /\ op'.before = op.before
Outside == fs' = fs /\ answer' = answer /\ op.api \notin Apis /\ op'.api \notin Apis
Called == /\ fs' = fs /\ answer' = "none" /\ op.api \notin Apis
          /\ op'.api \in Apis /\ op'.path \in Nodes /\ op'.before = KindIn(fs, op'.path)
Allowed(k) ==
  \/ op.api = "createDir" /\ fs[op.path] = "none" /\ k = "dir"
  \/ op.api = "remove" /\ Children(op.path) = {} /\ k = "none"
  \/ op.api = "write" /\ fs[op.path] # "dir" /\ k \in {"file", "cut"}
Changed(k) == /\ op' = op /\ answer' = answer /\ op.path \in Paths /\ fs' = Put(op.path, k)
              /\ Allowed(k)
Replied(a) == /\ fs' = fs /\ answer' = a /\ op' = NoOp /\ op.api \in Apis
              /\ Honest(op, a, KindIn(fs, op.path))

Replyable == {"ok", "cut", "true", "false", "error"}
Seen == \/ Trouble \/ Unseen \/ Outside \/ Called
        \/ \E k \in Kinds : Changed(k)
        \/ \E a \in Replyable : Replied(a)

\* What a step has to establish besides Inv'.
Good == Roles' /\ Tree' /\ (up' /\ ~fault' => Truths') /\ Seen

-----------------------------------------------------------------------------
(* Paths and kinds.                                                        *)

\* A path is a name in a directory.
LEMMA PathForms ==
  ASSUME NEW p \in Paths
  PROVE  /\ p \in Nodes /\ p # <<>> /\ p \in Seq(Names) /\ Len(p) \in 1..2
         /\ Parent(p) \in Nodes /\ Len(Parent(p)) = Len(p) - 1 /\ Parent(p) # p
         /\ FileName(p) \in Names /\ Append(Parent(p), FileName(p)) = p
<1>1. ASSUME NEW d \in Nodes, NEW n \in Names, Append(d, n) = p, p # <<>>, Len(p) \in 1..2
      PROVE  /\ Parent(p) = d /\ Len(d) = Len(p) - 1 /\ FileName(p) = n /\ d # p
  <2>1. d \in Seq(Names) /\ Len(d) \in Nat
    BY NodeLen
  <2>2. Parent(Append(d, n)) = d
    BY <2>1, ParentAppend
  <2>3. Len(p) = Len(d) + 1 /\ p[Len(d) + 1] = n
    BY <1>1, <2>1, AppendProperties
  <2>4. FileName(p) = n
    BY <1>1, <2>3 DEF FileName, Last
  <2>5. Len(d) = Len(p) - 1 /\ Len(d) # Len(p)
    BY <2>1, <2>3
  <2>6. QED
    BY <1>1, <2>2, <2>4, <2>5, Zenon
<1>2. p \in Nodes
  BY Zenon DEF Nodes
<1>3. p \in Seq(Names)
  BY <1>2, NodeLen
<1>4. PICK d \in Nodes, n \in Names : Append(d, n) = p /\ p # <<>> /\ Len(p) \in 1..2
  <2>1. CASE \E n \in Names : p = <<n>>
    <3>1. PICK n \in Names : p = <<n>>
      BY <2>1
    <3>2. Append(<<>>, n) = p /\ p # <<>> /\ Len(p) = 1
      BY <3>1, Single
    <3>3. <<>> \in Nodes /\ 1 \in 1..2
      BY DEF Nodes
    <3>4. QED
      BY <3>2, <3>3, Zenon
  <2>2. CASE \E m \in Names, n \in Names : p = <<m, n>>
    <3>1. PICK m \in Names, n \in Names : p = <<m, n>>
      BY <2>2
    <3>2. Append(<<m>>, n) = p /\ p # <<>> /\ Len(p) = 2
      BY <3>1, Pair
    <3>3. <<m>> \in Nodes /\ 2 \in 1..2
      BY DEF Nodes, Paths
    <3>4. QED
      BY <3>2, <3>3, Zenon
  <2>3. QED
    BY <2>1, <2>2 DEF Paths
<1>5. QED
  BY <1>1, <1>2, <1>3, <1>4, Zenon

\* An empty name is no path.
LEMMA NoSuchPath ==
  ASSUME NEW dir \in Nodes
  PROVE  Append(dir, "") \notin Nodes
<1> DEFINE a == Append(dir, "")
           S == Names \cup {""}
<1>1. dir \in Seq(Names) /\ Len(dir) \in Nat /\ Names \subseteq S /\ "" \in S
  BY NodeLen
<1> HIDE DEF S
<1>2. dir \in Seq(S)
  BY <1>1, SeqMonotonic
<1>3. Len(a) = Len(dir) + 1 /\ a[Len(dir) + 1] = ""
  BY <1>1, <1>2, AppendProperties
<1> HIDE DEF a
<1>4. ASSUME a \in Nodes
      PROVE  FALSE
  <2>1. a \in Seq(Names)
    BY <1>4, NodeLen
  <2>2. Len(dir) + 1 \in 1..Len(a)
    <3>1. Len(a) = Len(dir) + 1
      BY <1>3, Zenon
    <3>2. Len(dir) \in Nat
      BY <1>1, Zenon
    <3>3. QED
      BY <3>1, <3>2
  <2>3. a[Len(dir) + 1] \in Names
    BY <2>1, <2>2, ElementOfSeq
  <2>4. QED
    BY <1>3, <2>3, NamesAssumption
<1>5. QED
  BY <1>4 DEF a

\* Kind and KindIn are the same.
LEMMA KindIs ==
  ASSUME NEW p
  PROVE  Kind(p) = KindIn(fs, p)
BY DEF Kind, KindIn

LEMMA KindTypes ==
  ASSUME NEW store \in [Paths -> Kinds], NEW p
  PROVE  KindIn(store, p) \in Kinds
BY DEF KindIn, Kinds

\* Only a path and the root are of a kind.
LEMMA KindOnTree ==
  ASSUME NEW store, NEW p, KindIn(store, p) # "none"
  PROVE  p \in Nodes
BY Zenon DEF KindIn, Nodes

\* Changing one path.
LEMMA PutKind ==
  ASSUME fs \in [Paths -> Kinds], NEW p \in Paths, NEW k \in Kinds, NEW q
  PROVE  KindIn(Put(p, k), q) = IF q = p THEN k ELSE KindIn(fs, q)
<1>1. p # <<>>
  BY PathForms
<1>2. \A r \in Paths : Put(p, k)[r] = IF r = p THEN k ELSE fs[r]
  BY DEF Put
<1>3. QED
  BY <1>1, <1>2, Zenon DEF KindIn

\* A change keeps the tree if a new path is in a directory and what is not a directory
\* any more has nothing in it.
LEMMA PutTree ==
  ASSUME fs \in [Paths -> Kinds], Tree, NEW p \in Paths, NEW k \in Kinds,
         k # "none" => KindIn(fs, Parent(p)) = "dir",
         k = "dir" \/ \A q \in Paths : Parent(q) = p => fs[q] = "none"
  PROVE  TreeOf(Put(p, k))
<1>1. SUFFICES ASSUME NEW q \in Paths, Put(p, k)[q] # "none"
               PROVE  KindIn(Put(p, k), Parent(q)) = "dir"
  BY DEF TreeOf
<1>2. KindIn(Put(p, k), Parent(q)) = IF Parent(q) = p THEN k ELSE KindIn(fs, Parent(q))
  BY PutKind
<1>3. Put(p, k)[q] = IF q = p THEN k ELSE fs[q]
  BY DEF Put
<1>4. CASE q = p
  <2>1. Parent(p) # p
    BY PathForms
  <2>2. QED
    BY <1>1, <1>2, <1>3, <1>4, <2>1, Zenon
<1>5. CASE q # p
  <2>1. fs[q] # "none" /\ KindIn(fs, Parent(q)) = "dir"
    BY <1>1, <1>3, <1>5, Zenon DEF Tree, TreeOf
  <2>2. QED
    BY <1>2, <2>1, Zenon
<1>6. QED
  BY <1>4, <1>5

\* What is not a directory has nothing in it.
LEMMA NothingIn ==
  ASSUME Tree, NEW p, KindIn(fs, p) # "dir"
  PROVE  \A q \in Paths : Parent(q) = p => fs[q] = "none"
BY Zenon DEF Tree, TreeOf

\* What is below a path is below it as the store says it.
LEMMA Below ==
  ASSUME NEW p \in Paths, NEW q \in Paths
  PROVE  /\ IsPrefix(p, q) <=> Len(p) <= Len(q) /\ SubSeq(q, 1, Len(p)) = p
         /\ Len(q) > Len(p) /\ IsPrefix(p, q) <=> Parent(q) = p
<1>1. /\ p \in Seq(Names) /\ Len(p) \in 1..2 /\ q \in Seq(Names) /\ Len(q) \in 1..2
      /\ Len(Parent(q)) = Len(q) - 1 /\ Parent(q) = SubSeq(q, 1, Len(q) - 1)
  <2>1. q \in Nodes /\ q # <<>>
    BY PathForms
  <2>2. Parent(q) = SubSeq(q, 1, Len(q) - 1)
    BY <2>1, NodeType
  <2>3. QED
    BY <2>2, PathForms
<1>2. SubSeq(p, 1, Len(p)) = p
  <2> DEFINE s == SubSeq(p, 1, Len(p))
  <2>1. Len(p) \in 0..Len(p)
    BY <1>1
  <2>2. s \in Seq(Names) /\ Len(s) = Len(p) /\ \A i \in 1..Len(p) : s[i] = p[i]
    BY <1>1, <2>1, Prefix
  <2> HIDE DEF s
  <2>3. s = p
    BY <1>1, <2>2, SeqEqual
  <2>4. QED
    BY <2>3 DEF s
<1>3. IsPrefix(p, q) <=> Len(p) <= Len(q) /\ SubSeq(q, 1, Len(p)) = p
  BY <1>2, Zenon DEF IsPrefix
<1>4. ASSUME Len(q) > Len(p), IsPrefix(p, q)
      PROVE  Parent(q) = p
  <2>1. Len(q) - 1 = Len(p)
    BY <1>1, <1>4
  <2>2. QED
    BY <1>1, <1>3, <1>4, <2>1, Zenon
<1>5. ASSUME Parent(q) = p
      PROVE  Len(q) > Len(p) /\ IsPrefix(p, q)
  <2>1. Len(p) = Len(q) - 1
    BY <1>1, <1>5, Zenon
  <2>2. Len(q) > Len(p) /\ Len(p) <= Len(q)
    BY <1>1, <2>1
  <2>3. SubSeq(q, 1, Len(p)) = p
    BY <1>1, <1>5, <2>1, Zenon
  <2>4. QED
    BY <1>3, <2>2, <2>3, Zenon
<1>6. QED
  BY <1>3, <1>4, <1>5, Zenon

\* Nothing below a path is nothing in it.
LEMMA ChildrenIn ==
  ASSUME NEW p \in Paths
  PROVE  Children(p) = {} <=> \A q \in Paths : Parent(q) = p => fs[q] = "none"
<1>1. \A q \in Paths : Len(q) > Len(p) /\ IsPrefix(p, q) <=> Parent(q) = p
  BY Below
<1>2. QED
  BY <1>1, Zenon DEF Children

-----------------------------------------------------------------------------
(* Such a step is a step of the store.                                     *)

\* The call as the store sees it.
CallOf(o) == IF o.api \in Apis THEN [api |-> o.api, path |-> o.path, before |-> o.before]
             ELSE [api |-> "none", path |-> <<>>, before |-> "none"]

LEMMA CallFields ==
  ASSUME NEW o
  PROVE  /\ o.api \in Apis => /\ CallOf(o).api = o.api /\ CallOf(o).path = o.path
                              /\ CallOf(o).before = o.before /\ CallOf(o) # Store!NoCall
         /\ o.api \notin Apis => CallOf(o) = Store!NoCall
<1>1. ASSUME o.api \in Apis
      PROVE  /\ CallOf(o).api = o.api /\ CallOf(o).path = o.path
             /\ CallOf(o).before = o.before /\ CallOf(o) # Store!NoCall
  <2>1. CallOf(o) = [api |-> o.api, path |-> o.path, before |-> o.before]
    BY <1>1 DEF CallOf
  <2>2. CallOf(o).api = o.api /\ CallOf(o).path = o.path /\ CallOf(o).before = o.before
    BY <2>1
  <2>3. Store!NoCall.api = "none" /\ "none" \notin Apis
    BY DEF Store!NoCall, Apis
  <2>4. QED
    BY <1>1, <2>2, <2>3, Zenon
<1>2. o.api \notin Apis => CallOf(o) = Store!NoCall
  BY Zenon DEF CallOf, Store!NoCall
<1>3. QED
  BY <1>1, <1>2

\* An honest answer is one the store allows.
LEMMA HonestTruthful ==
  ASSUME Types, op.api \in Apis, NEW a, Honest(op, a, KindIn(fs, op.path))
  PROVE  Store!Truthful(a)
<1>1. PICK k : k = KindIn(fs, op.path)
  OBVIOUS
<1>2. PICK c : c = CallOf(op)
  OBVIOUS
<1>3. c.api = op.api /\ c.path = op.path /\ c.before = op.before
  BY <1>2, CallFields, Zenon
<1>4. Store!Kind(fs, c.path) = k
  BY <1>1, <1>3, Zenon DEF Store!Kind, KindIn
<1>5. PICK t \in BOOLEAN : t <=> (fault \/ late # {})'
  OBVIOUS
<1>6. Honest(op, a, k)
  BY <1>1
<1>7. /\ Store!Promised(a, k) <=>
           IF a = "error" THEN c.api \in {"createDir", "remove"} => k = c.before \/ t
           ELSE CASE c.api = "createDir"   -> a = "ok" /\ k = "dir"
                  [] c.api = "remove"      -> a = "ok" /\ k = "none"
                  [] c.api = "write"       -> a = "ok" /\ k = "file"
                  [] c.api = "read"        -> a = "ok" /\ k \in {"file", "cut"}
                  [] c.api = "list"        -> a = "ok" /\ k = "dir"
                  [] c.api = "exists"      -> a = IF k = "none" THEN "false" ELSE "true"
                  [] c.api = "isDirectory" -> a = IF k = "dir" THEN "true" ELSE "false"
                  [] OTHER -> FALSE
      /\ Store!Departs(a, k) <=>
           \/ c.api = "createDir" /\ a = "ok" /\ k \in {"file", "cut"}
           \/ c.api = "exists" /\ a = "false" /\ k # "none"
           \/ c.api = "list" /\ a = "cut" /\ k = "dir"
  BY <1>2, <1>5 DEF Store!Promised, Store!Departs, CallOf
<1>8. Store!Truthful(a) <=> Store!Promised(a, k) \/ Store!Departs(a, k)
  BY <1>2, <1>4 DEF Store!Truthful, CallOf
<1>9. CASE a = "error"
  <2>1. c.api \in {"createDir", "remove"} => k = c.before \/ fault'
    BY <1>3, <1>6, <1>9 DEF Honest, Makers
  <2>2. c.api \in {"createDir", "remove"} => k = c.before \/ t
    BY <1>5, <2>1, Zenon
  <2>3. QED
    BY <1>7, <1>8, <1>9, <2>2
<1>10. CASE a # "error"
  <2>1. /\ c.api = "createDir" => a = "ok" /\ k \in {"dir", "file", "cut"}
        /\ c.api = "remove" => a = "ok" /\ k = "none"
        /\ c.api = "write" => a = "ok" /\ k = "file"
        /\ c.api = "read" => a = "ok" /\ k \in {"file", "cut"}
        /\ c.api = "list" => a \in {"ok", "cut"} /\ k = "dir"
        /\ c.api = "exists" => a = "false" \/ (a = "true" /\ k # "none")
        /\ c.api = "isDirectory" => a = IF k = "dir" THEN "true" ELSE "false"
    <3>1. k \in Kinds
      BY <1>1, KindTypes DEF Types, ServerTypes
    <3>2. QED
      BY <1>3, <1>6, <1>10, <3>1 DEF Honest, Makers, Kinds
  <2>2. c.api \in {"createDir", "remove", "write", "read", "list", "exists", "isDirectory"}
    BY <1>3 DEF Apis
  <2>3. Store!Promised(a, k) \/ Store!Departs(a, k)
    BY <1>7, <1>10, <2>1, <2>2
  <2>4. QED
    BY <1>8, <2>3
<1>11. QED
  BY <1>9, <1>10

LEMMA SeenIsNext ==
  ASSUME Types, Seen
  PROVE  Store!Next
<1>1. PICK c, d : c = CallOf(op) /\ d = CallOf(op')
  OBVIOUS
<1>2. Store!NoCall = CallOf(NoOp)
  <2>1. NoOp.api \notin Apis
    BY DEF NoOp, Apis
  <2>2. QED
    BY <2>1, CallFields
<1>3. CASE Trouble
  BY <1>3, Zenon DEF Trouble, Store!Next
<1>4. ASSUME fs' = fs, answer' = answer, CallOf(op') = CallOf(op)
      PROVE  Store!Next
  BY <1>4, Zenon DEF Store!Next, CallOf
<1>5. CASE Unseen
  <2>1. CallOf(op') = CallOf(op)
    BY <1>5, Zenon DEF Unseen, CallOf
  <2>2. QED
    BY <1>4, <1>5, <2>1 DEF Unseen
<1>6. CASE Outside
  <2>1. CallOf(op') = CallOf(op)
    BY <1>6, Zenon DEF Outside, CallOf
  <2>2. QED
    BY <1>4, <1>6, <2>1 DEF Outside
<1>7. CASE Called
  <2>1. PICK api \in Apis, p \in Paths \cup {<<>>} :
          op'.api = api /\ op'.path = p /\ op'.before = KindIn(fs, p)
    BY <1>7 DEF Called, Nodes
  <2>2. CallOf(op) = Store!NoCall
    BY <1>7, CallFields DEF Called
  <2>3. Store!Kind(fs, p) = KindIn(fs, p)
    BY Zenon DEF Store!Kind, KindIn
  <2>4. CallOf(op') = [api |-> api, path |-> p, before |-> Store!Kind(fs, p)]
    BY <2>1, <2>3, Zenon DEF CallOf
  <2>5. Store!Begin(api, p)
    BY <1>7, <2>2, <2>4, Zenon DEF Store!Begin, Called, CallOf
  <2>6. QED
    BY <2>5, Zenon DEF Store!Next
<1>8. ASSUME NEW k \in Kinds, Changed(k)
      PROVE  Store!Next
  <2>1. op.api \in Apis /\ op.path \in Paths /\ fs' = Put(op.path, k) /\ op' = op /\ answer' = answer
    BY <1>8 DEF Changed, Allowed, Apis
  <2>2. c.api = op.api /\ c.path = op.path
    BY <1>1, <2>1, CallFields
  <2>3. fs' = [fs EXCEPT ![c.path] = k] /\ d = c
    BY <1>1, <2>1, <2>2 DEF Put
  <2>4. op.api = "remove" => Store!Empty(fs, c.path)
    <3>1. SUFFICES ASSUME op.api = "remove"
                   PROVE  Store!Empty(fs, c.path)
      OBVIOUS
    <3>2. Children(op.path) = {}
      BY <1>8, <3>1 DEF Changed, Allowed
    <3>3. \A q \in Paths : Parent(q) = op.path => fs[q] = "none"
      BY <2>1, <3>2, ChildrenIn
    <3>4. ASSUME NEW q \in Paths, Len(q) > Len(op.path), SubSeq(q, 1, Len(op.path)) = op.path
          PROVE  fs[q] = "none"
      <4>1. Len(op.path) <= Len(q)
        <5>1. Len(op.path) \in 1..2 /\ Len(q) \in 1..2
          BY <2>1, PathForms
        <5>2. QED
          BY <3>4, <5>1
      <4>2. Parent(q) = op.path
        BY <2>1, <3>4, <4>1, Below
      <4>3. QED
        BY <3>3, <4>2
    <3>5. QED
      BY <2>2, <3>4, Zenon DEF Store!Empty
  <2>5. CASE c.api = "createDir"
    <3>1. fs[c.path] = "none" /\ k = "dir"
      BY <1>8, <2>2, <2>5 DEF Changed, Allowed
    <3>2. Store!Change
      BY <1>1, <2>1, <2>2, <2>3, <2>5, <3>1 DEF Store!Change, CallOf, Kinds
    <3>3. QED
      BY <3>2, Zenon DEF Store!Next
  <2>6. CASE c.api = "remove"
    <3>1. Store!Empty(fs, c.path) /\ k = "none"
      BY <1>8, <2>2, <2>4, <2>6 DEF Changed, Allowed
    <3>2. Store!Change
      BY <1>1, <2>1, <2>2, <2>3, <2>6, <3>1 DEF Store!Change, CallOf, Kinds
    <3>3. QED
      BY <3>2, Zenon DEF Store!Next
  <2>7. CASE c.api = "write"
    <3>1. fs[c.path] # "dir" /\ k \in {"file", "cut"}
      BY <1>8, <2>2, <2>7 DEF Changed, Allowed
    <3>2. Store!Change
      BY <1>1, <2>1, <2>2, <2>3, <2>7, <3>1 DEF Store!Change, CallOf, Kinds
    <3>3. QED
      BY <3>2, Zenon DEF Store!Next
  <2>8. QED
    BY <1>8, <2>2, <2>5, <2>6, <2>7 DEF Changed, Allowed
<1>9. ASSUME NEW a \in Replyable, Replied(a)
      PROVE  Store!Next
  <2>1. /\ fs' = fs /\ answer' = a /\ op' = NoOp /\ op.api \in Apis
        /\ Honest(op, a, KindIn(fs, op.path))
    BY <1>9 DEF Replied
  <2>2. Store!Truthful(a)
    BY <2>1, HonestTruthful
  <2>3. c # Store!NoCall /\ d = Store!NoCall
    BY <1>1, <1>2, <2>1, CallFields, Zenon
  <2>4. Store!Answer(a)
    BY <1>1, <2>1, <2>2, <2>3, Zenon DEF Store!Answer, CallOf
  <2>5. QED
    BY <2>4, Zenon DEF Store!Next, Replyable
<1>10. QED
  BY <1>3, <1>5, <1>6, <1>7, <1>8, <1>9, Zenon DEF Seen

LEMMA InitIsInit ==
  ASSUME Init
  PROVE  Store!Init
<1>1. CallOf(NoOp) = Store!NoCall
  <2>1. NoOp.api \notin Apis
    BY DEF NoOp, Apis
  <2>2. QED
    BY <2>1, CallFields
<1>2. op = NoOp /\ answer = "none" /\ (fault \/ late # {}) = FALSE
  BY DEF Init
<1>3. QED
  BY <1>1, <1>2, Zenon DEF Init, Store!Init, CallOf

-----------------------------------------------------------------------------
(* What a step of the client establishes.                                  *)

\* Between calls there is nothing to be true but that the directory exists.
LEMMA NoCallIsTrue ==
  ASSUME NEW cs, NEW rs, NEW d, NEW x, NEW k, NEW dir
  PROVE  /\ Role(NoOp, dir) /\ Placed(NoOp, cs, d) /\ Told(NoOp, rs, k) /\ Made(NoOp, rs, k)
         /\ Moved(NoOp, rs, d, x, k)
<1>1. NoOp.at = "idle" /\ NoOp.api = "none"
  BY DEF NoOp
<1>2. NoOp.at \notin Logging \cup Local \cup Naming \cup Transferring
  BY <1>1 DEF Logging, Local, Probing, Fetching, Naming, Transferring
<1>3. Role(NoOp, dir)
  BY <1>1, <1>2 DEF Role, Local
<1>4. Placed(NoOp, cs, d) /\ Told(NoOp, rs, k)
  BY <1>1, <1>2 DEF Placed, Told
<1>5. Made(NoOp, rs, k)
  BY <1>1 DEF Made, Makers
<1>6. Moved(NoOp, rs, d, x, k)
  BY <1>1, <1>2 DEF Moved, Begun
<1>7. QED
  BY <1>3, <1>4, <1>5, <1>6

LEMMA SameFiles ==
  ASSUME SInv, fs' = fs
  PROVE  Tree'
BY DEF SInv, Tree

\* A call that ends.
LEMMA EndsGood ==
  ASSUME SInv, up, NEW x, NEW a \in Replyable, Return(x, a), fs' = fs,
         up' /\ ~fault' => KindIn(fs, cwd') = "dir",
         op.api \in Apis \cup {"connect"},
         op.api \in Apis /\ ~fault => Honest(op, a, KindIn(fs, op.path))
  PROVE  Good
<1>1. op' = NoOp /\ answer' = IF op.api = "connect" THEN answer ELSE a
  BY DEF Return
<1>2. Roles' /\ (up' /\ ~fault' => Truths')
  <2>1. Role(op', current')
    BY <1>1, NoCallIsTrue, Zenon
  <2>2. /\ Placed(op', cmds', data') /\ Told(op', replies', KindIn(fs', op'.path))
        /\ Made(op', replies', KindIn(fs', op'.path))
        /\ Moved(op', replies', data', xfer', KindIn(fs', op'.path))
    BY <1>1, NoCallIsTrue, Zenon
  <2>3. QED
    BY <2>1, <2>2, Zenon DEF Roles, Truths
<1>3. Tree'
  BY SameFiles
<1>4. Seen
  <2>1. CASE op.api = "connect"
    <3>1. op.api \notin Apis /\ op'.api \notin Apis /\ answer' = answer
      BY <1>1, <2>1 DEF Apis, NoOp
    <3>2. QED
      BY <3>1, Zenon DEF Seen, Outside
  <2>2. CASE op.api \in Apis /\ ~fault
    <3>1. answer' = a
      <4>1. op.api # "connect"
        BY <2>2 DEF Apis
      <4>2. QED
        BY <1>1, <4>1
    <3>2. Replied(a)
      BY <1>1, <2>2, <3>1, Zenon DEF Replied
    <3>3. QED
      BY <3>2, Zenon DEF Seen
  <2>3. CASE fault
    BY <2>3, Zenon DEF Seen, Trouble
  <2>4. QED
    BY <2>1, <2>2, <2>3, Zenon
<1>5. QED
  BY <1>2, <1>3, <1>4 DEF Good

\* The call is the same, somewhere else.
SameCall == op'.api = op.api /\ op'.path = op.path /\ op'.before = op.before /\ answer' = answer

\* A call that goes on, with nothing heard that it has not taken in.
LEMMA OnGood ==
  ASSUME SInv, up, SameCall, fs' = fs, cwd' = cwd,
         op.at \notin {"create", "remove"}, op'.at \notin {"idle", "begin"} \cup Transferring,
         Role(op', current'),
         ~fault' => ~fault /\ replies' = <<>> /\ Placed(op', cmds', data'),
         ~fault /\ op'.at = "leave" => KindIn(fs, op.path) = "dir"
  PROVE  Good
<1>1. Tree'
  BY SameFiles
<1>2. Seen
  BY Zenon DEF Seen, Unseen, SameCall
<1>3. ASSUME ~fault'
      PROVE  Truths'
  <2>1. PICK k : k = KindIn(fs, op.path)
    OBVIOUS
  <2>2. KindIn(fs', op'.path) = k
    BY <2>1, Zenon DEF SameCall
  <2>3. Truths /\ replies' = <<>> /\ ~fault /\ Placed(op', cmds', data')
    BY <1>3, Zenon DEF SInv
  <2>4. \A code : ~Tells(replies', code)
    BY <2>3, Zenon DEF Tells
  <2>5. Told(op', replies', k)
    BY <2>1, <2>3, <2>4, Zenon DEF Told
  <2>6. Made(op', replies', k)
    <3>1. op.api \in Makers => k = op.before
      BY <2>1, <2>3 DEF Truths, Made
    <3>2. op'.api \in Makers => k = op'.before
      BY <3>1, Zenon DEF SameCall
    <3>3. ~Tells(replies', 257) /\ ~Tells(replies', 250)
      BY <2>4
    <3>4. QED
      BY <3>2, <3>3 DEF Made
  <2>7. Moved(op', replies', data', xfer', k)
    <3>1. ~Begun(op', replies')
      BY <2>3, Zenon DEF Begun, Announced
    <3>2. op'.at # "completion"
      BY DEF Transferring
    <3>3. QED
      BY <3>1, <3>2, Zenon DEF Moved
  <2>8. KindIn(fs', cwd') = "dir"
    BY <2>3, Zenon DEF Truths
  <2>9. QED
    BY <2>2, <2>3, <2>5, <2>6, <2>7, <2>8, Zenon DEF Truths
<1>4. QED
  BY <1>1, <1>2, <1>3, Zenon DEF Good, Roles

\* A call that goes on with another command, in the directory it has changed to.
LEMMA AskGood ==
  ASSUME SInv, up, NEW x, NEW at \in Local, at \notin Transferring, NEW verb, NEW name,
         Ask(x, at, verb, name), fs' = fs, cwd' = cwd, current' = Place(op),
         op.at \notin Logging \cup {"idle", "create", "remove"},
         ~fault' => ~fault /\ x.cmds = <<>> /\ replies' = <<>>,
         op.api \in Namers => op.path # <<>>,
         at \in Probing => op.api \in Probes /\ op.path # <<>>,
         at = "create" => op.api = "createDir", at = "remove" => op.api = "remove",
         at \in Naming => name = NameOf(op),
         at = "opening" => verb = VerbOf(op) /\ data' \in {"open", "stray"},
         ~fault /\ at = "leave" => KindIn(fs, op.path) = "dir"
  PROVE  Good
<1> DEFINE c == [verb |-> verb, name |-> name]
<1>1. op \in Ops /\ op.api \in Apis
  BY Zenon DEF SInv, Inv, Types, CallTypes, Roles, Role
<1>2. op' = [op EXCEPT !.at = at, !.plan = <<>>] /\ cmds' = Append(x.cmds, c) /\ answer' = answer
  BY DEF Ask
<1>3. /\ op'.at = at /\ op'.api = op.api /\ op'.path = op.path /\ op'.before = op.before
  BY <1>1, <1>2 DEF Ops
<1>4. c.verb = verb /\ c.name = name
  OBVIOUS
<1> HIDE DEF c
<1>5. SameCall
  BY <1>2, <1>3 DEF SameCall
<1>6. at \notin Logging \cup {"idle", "begin"}
  BY DEF Local, Logging, Probing, Fetching, Transferring
<1>7. Place(op') = Place(op) /\ NameOf(op') = NameOf(op) /\ VerbOf(op') = VerbOf(op)
  BY <1>3, Zenon DEF Place, NameOf, VerbOf
<1>8. Role(op', current')
  BY <1>1, <1>3, <1>6, <1>7, Zenon DEF Role
<1>9. ASSUME ~fault'
      PROVE  ~fault /\ replies' = <<>> /\ Placed(op', cmds', data')
  <2>1. Append(<<>>, c) = <<c>> /\ <<c>>[1] = c
    BY Single
  <2>2. cmds'[1] = c
    BY <1>2, <1>9, <2>1, Zenon
  <2>3. QED
    BY <1>3, <1>4, <1>7, <1>9, <2>2, Zenon DEF Placed
<1>10. op'.at \notin {"idle", "begin"} \cup Transferring
  BY <1>3, <1>6, Zenon
<1>11. op.at \notin {"create", "remove"} /\ (~fault /\ op'.at = "leave" => KindIn(fs, op.path) = "dir")
  BY <1>3, Zenon
<1>12. QED
  BY <1>5, <1>8, <1>9, <1>10, <1>11, OnGood, Zenon

\* What a handler may conclude from what it hears.
LEMMA Hears ==
  ASSUME SInv, op.at \in Asking, NEW x \in Receipts, replies' = x.replies,
         ~fault' => ~fault /\ ~x.dead
  PROVE  /\ up /\ (~fault => Truths)
         /\ ~fault' => ~fault /\ x.cmds = <<>> /\ replies' = <<>>
         /\ ~fault /\ x.reply.code # 0 => replies # <<>> /\ replies[1] = x.reply
         /\ ~fault' /\ replies # <<>> => replies[1] = x.reply
<1>1. Types /\ Inv
  BY DEF SInv, Inv
<1>2. up
  <2>1. op.at # "idle"
    BY DEF Asking
  <2>2. QED
    BY <1>1, <2>1 DEF Inv, Down
<1>3. ~fault => Truths /\ Flow
  BY <1>1, <1>2, Zenon DEF SInv, Inv
<1>4. Failed.code = 0
  BY DEF Failed
<1>5. ~fault /\ ~x.dead =>
        /\ x.cmds = <<>> /\ x.replies = <<>>
        /\ \/ cmds = <<>> /\ replies = <<x.reply>>
           \/ replies = <<>> /\ x.reply = Failed
  <2>1. SUFFICES ASSUME ~fault, ~x.dead
                 PROVE  /\ x.cmds = <<>> /\ x.replies = <<>>
                        /\ \/ cmds = <<>> /\ replies = <<x.reply>>
                           \/ replies = <<>> /\ x.reply = Failed
    OBVIOUS
  <2>2. /\ ClearFor(x)
        /\ \/ cmds = <<>> /\ replies = <<x.reply>>
           \/ replies = <<>> /\ x.reply = Failed
    BY <1>1, <1>3, <2>1, Taken, Zenon
  <2>3. QED
    BY <2>2, Zenon DEF ClearFor
<1>6. x.dead => x.reply.code = 0
  BY <1>1, <1>4, ReceiptForms, Zenon
<1>7. replies = <<x.reply>> => replies # <<>> /\ replies[1] = x.reply
  BY Single, Zenon
<1>8. ~fault /\ x.reply.code # 0 => replies # <<>> /\ replies[1] = x.reply
  BY <1>4, <1>5, <1>6, <1>7, Zenon
<1>9. ~fault' /\ replies # <<>> => replies[1] = x.reply
  BY <1>5, <1>7, Zenon
<1>10. ~fault' => ~fault /\ x.cmds = <<>> /\ replies' = <<>>
  BY <1>5, Zenon
<1>11. QED
  BY <1>2, <1>3, <1>8, <1>9, <1>10, Zenon

\* The handler leaves the files and the session alone and has taken in what was heard.
Heeds(x) ==
  /\ up /\ fs' = fs /\ cwd' = cwd /\ (~fault => Truths)
  /\ ~fault' => ~fault /\ x.cmds = <<>> /\ replies' = <<>>

LEMMA StillHome ==
  ASSUME NEW x, Heeds(x)
  PROVE  ~fault' => KindIn(fs, cwd') = "dir"
BY Zenon DEF Heeds, Truths

LEMMA ReturnGood ==
  ASSUME SInv, NEW x, Heeds(x), NEW a \in Replyable, Return(x, a), op.api \in Apis,
         ~fault => Honest(op, a, KindIn(fs, op.path))
  PROVE  Good
<1>1. ~fault' => KindIn(fs, cwd') = "dir"
  BY StillHome
<1>2. up /\ fs' = fs
  BY DEF Heeds
<1>3. QED
  BY <1>1, <1>2, EndsGood, Zenon

\* An error is honest where the call has changed nothing or changes nothing at all.
LEMMA ErrorGood ==
  ASSUME SInv, NEW x, Heeds(x), Return(x, "error"), op.api \in Apis,
         ~fault' /\ op.at \in {"create", "remove"} => KindIn(fs, op.path) = op.before
  PROVE  Good
<1>1. PICK k : k = KindIn(fs, op.path)
  OBVIOUS
<1>2. ~fault /\ ~fault' /\ op.api \in Makers => k = op.before
  <2>1. SUFFICES ASSUME ~fault, ~fault', op.api \in Makers, op.at \notin {"create", "remove"}
                 PROVE  k = op.before
    BY <1>1, Zenon
  <2>2. Made(op, replies, k)
    BY <1>1, <2>1, Zenon DEF Heeds, Truths
  <2>3. QED
    BY <2>1, <2>2 DEF Made
<1>3. PICK a \in Replyable : a = "error"
  BY DEF Replyable
<1>4. ~fault => Honest(op, a, k)
  BY <1>2, <1>3, Zenon DEF Honest
<1>5. Return(x, a)
  BY <1>3
<1>6. QED
  BY <1>1, <1>4, <1>5, ReturnGood, Zenon

\* Where a call may ask for the name of its path.
AtPath == /\ op.api \in Probes /\ op.path # <<>> /\ current' = Place(op)
          /\ op.at \notin Logging \cup {"idle", "create", "remove"}

LEMMA NameIs ==
  ASSUME op.api \in Probes
  PROVE  NameOf(op) = FileName(op.path) /\ op.api \in Apis
<1>1. op.api # "list" /\ op.api \in Apis
  BY DEF Probes, Apis
<1>2. QED
  BY <1>1, Zenon DEF NameOf

LEMMA AskNameGood ==
  ASSUME SInv, NEW x, Heeds(x), AtPath, NEW at \in Probing \cup {"create", "remove"}, at # "leave",
         NEW verb, Ask(x, at, verb, FileName(op.path)),
         at = "create" => op.api = "createDir", at = "remove" => op.api = "remove"
  PROVE  Good
<1>1. /\ op.api \in Probes /\ op.path # <<>> /\ current' = Place(op)
      /\ op.at \notin Logging \cup {"idle", "create", "remove"}
  BY Zenon DEF AtPath
<1>2. /\ up /\ fs' = fs /\ cwd' = cwd
      /\ ~fault' => ~fault /\ x.cmds = <<>> /\ replies' = <<>>
  BY Zenon DEF Heeds
<1>3. PICK name : name = FileName(op.path)
  OBVIOUS
<1>4. name = NameOf(op) /\ Ask(x, at, verb, name)
  BY <1>1, <1>3, NameIs, Zenon
<1>5. at \in Local /\ at \notin Transferring /\ at # "opening"
  BY DEF Local, Probing, Transferring
<1>6. QED
  BY <1>1, <1>2, <1>4, <1>5, AskGood, Zenon

LEMMA ProbeGood ==
  ASSUME SInv, NEW x, Heeds(x), AtPath, NEW extensions, Probe(x, extensions)
  PROVE  Good
<1>1. PICK at \in {"MLST", "SIZE", "enter"}, verb \in Verbs : Ask(x, at, verb, FileName(op.path))
  BY Awaited DEF Probe
<1>2. at \in Probing \cup {"create", "remove"} /\ at \notin {"leave", "create", "remove"}
  BY DEF Probing
<1>3. QED
  BY <1>1, <1>2, AskNameGood, Zenon

LEMMA FoundGood ==
  ASSUME SInv, NEW x, Heeds(x), AtPath, ExistsLike, Found(x), ~fault => KindIn(fs, op.path) # "none"
  PROVE  Good
<1>1. PICK a : a = IF op.api = "exists" THEN "true" ELSE "ok"
  OBVIOUS
<1>2. Return(x, a)
  BY <1>1 DEF Found
<1>3. a \in Replyable /\ op.api \in Apis
  BY <1>1 DEF Replyable, ExistsLike, Apis
<1>4. PICK k : k = KindIn(fs, op.path)
  OBVIOUS
<1>5. ~fault => Honest(op, a, k)
  <2>1. (op.api = "exists" /\ a = "true") \/ (op.api = "createDir" /\ a = "ok")
    BY <1>1 DEF ExistsLike
  <2>2. QED
    BY <1>4, <2>1, Zenon DEF Honest
<1>6. QED
  BY <1>2, <1>3, <1>4, <1>5, ReturnGood, Zenon

LEMMA IsDirGood ==
  ASSUME SInv, NEW x, Heeds(x), AtPath, NEW dir, IsDir(x, dir),
         ~fault => (dir <=> KindIn(fs, op.path) = "dir")
  PROVE  Good
<1>1. CASE op.api = "isDirectory" /\ Return(x, IF dir THEN "true" ELSE "false")
  <2>1. PICK a : a = IF dir THEN "true" ELSE "false"
    OBVIOUS
  <2>2. Return(x, a)
    BY <1>1, <2>1
  <2>3. a \in Replyable /\ op.api \in Apis
    BY <1>1, <2>1 DEF Replyable, Apis
  <2>4. PICK k : k = KindIn(fs, op.path)
    OBVIOUS
  <2>5. ~fault => Honest(op, a, k)
    <3>1. (dir /\ a = "true") \/ (~dir /\ a = "false")
      BY <2>1
    <3>2. QED
      BY <1>1, <2>4, <3>1, Zenon DEF Honest
  <2>6. QED
    BY <2>2, <2>3, <2>4, <2>5, ReturnGood, Zenon
<1>2. CASE op.api = "remove" /\ Ask(x, "remove", IF dir THEN "RMD" ELSE "DELE", FileName(op.path))
  <2>1. PICK at \in Probing \cup {"create", "remove"} : at = "remove"
    OBVIOUS
  <2>2. at # "leave" /\ at # "create"
    BY <2>1
  <2>3. PICK verb : Ask(x, at, verb, FileName(op.path))
    BY <1>2, <2>1
  <2>4. QED
    BY <1>2, <2>1, <2>2, <2>3, AskNameGood, Zenon
<1>3. QED
  BY <1>1, <1>2 DEF IsDir

-----------------------------------------------------------------------------
(* The probes.                                                             *)

\* Where exactly one reply is owed, what a handler hears was said to it.
Said(x) ==
  /\ ~fault /\ x.reply.code # 0 => replies # <<>> /\ replies[1] = x.reply
  /\ ~fault' /\ replies # <<>> => replies[1] = x.reply

LEMMA QueryHeeds ==
  ASSUME SInv, NEW at \in Probing \cup {"create", "remove"}, NEW x \in Receipts, Waits(at, x),
         NEW event, Note(x, event), UNCHANGED <<client, data, server, calls>>
  PROVE  op.at = at /\ Heeds(x) /\ Said(x) /\ op.api \in Apis /\ (at \in Probing => AtPath)
<1>1. op.at = at /\ replies' = x.replies
  BY DEF Waits
<1>2. op.at \in Asking /\ op.at \notin Logging \cup {"idle"} /\ op.at \in Local
  BY <1>1 DEF Probing, Asking, Logging, Local
<1>3. fs' = fs /\ cwd' = cwd /\ current' = current
  BY DEF client, server
<1>4. ~fault' => ~fault /\ ~x.dead
  BY Zenon DEF Note
<1>5. /\ up /\ (~fault => Truths)
      /\ ~fault' => ~fault /\ x.cmds = <<>> /\ replies' = <<>>
      /\ ~fault /\ x.reply.code # 0 => replies # <<>> /\ replies[1] = x.reply
      /\ ~fault' /\ replies # <<>> => replies[1] = x.reply
  BY <1>1, <1>2, <1>4, Hears, Zenon
<1>6. Heeds(x) /\ Said(x)
  BY <1>3, <1>5, Zenon DEF Heeds, Said
<1>7. op.api \in Apis /\ current' = Place(op)
  BY <1>2, <1>3, Zenon DEF SInv, Roles, Role
<1>8. ASSUME at \in Probing
      PROVE  AtPath
  <2>1. op.at \notin {"create", "remove"}
    BY <1>1, <1>8 DEF Probing
  <2>2. QED
    BY <1>1, <1>2, <1>7, <1>8, <2>1, Zenon DEF SInv, Roles, Role, AtPath
<1>9. QED
  BY <1>1, <1>6, <1>7, <1>8, Zenon

LEMMA MlstGood ==
  ASSUME SInv, HearMlst, UNCHANGED <<client, data, server, calls>>
  PROVE  Good
<1>1. PICK x \in Receipts :
        /\ Waits("MLST", x) /\ Note(x, FALSE)
        /\ \/ ExistsLike /\ x.reply.code = 250 /\ Found(x)
           \/ ExistsLike /\ x.reply.code # 250 /\ Probe(x, {"SIZE"})
           \/ ~ExistsLike /\ x.reply.code = 250 /\ x.reply.fact # "none" /\ IsDir(x, x.reply.fact = "dir")
           \/ ~ExistsLike /\ ~(x.reply.code = 250 /\ x.reply.fact # "none") /\ Probe(x, {})
  BY Zenon DEF HearMlst
<1>2. PICK at \in Probing \cup {"create", "remove"} : at = "MLST" /\ at \in Probing
  BY DEF Probing
<1>3. op.at = "MLST" /\ Heeds(x) /\ Said(x) /\ AtPath
  BY <1>1, <1>2, QueryHeeds, Zenon
<1>4. PICK k : k = KindIn(fs, op.path)
  OBVIOUS
<1>5. ASSUME ~fault, x.reply.code = 250
      PROVE  k # "none" /\ (x.reply.fact # "none" => (x.reply.fact = "dir" <=> k = "dir"))
  <2>1. x.reply.code # 0
    BY <1>5
  <2>2. Tells(replies, 250) /\ replies[1] = x.reply
    BY <1>3, <1>5, <2>1, Zenon DEF Said, Tells
  <2>3. Told(op, replies, k)
    BY <1>3, <1>4, <1>5, Zenon DEF Heeds, Truths
  <2>4. QED
    BY <1>3, <2>2, <2>3, Zenon DEF Told
<1>6. CASE ExistsLike /\ x.reply.code = 250 /\ Found(x)
  BY <1>3, <1>4, <1>5, <1>6, FoundGood, Zenon
<1>7. CASE \E extensions : Probe(x, extensions)
  BY <1>3, <1>7, ProbeGood, Zenon
<1>8. CASE x.reply.code = 250 /\ x.reply.fact # "none" /\ IsDir(x, x.reply.fact = "dir")
  <2>1. PICK dir : dir = (x.reply.fact = "dir")
    OBVIOUS
  <2>2. IsDir(x, dir)
    BY <1>8, <2>1
  <2>3. ~fault => (dir <=> KindIn(fs, op.path) = "dir")
    BY <1>4, <1>5, <1>8, <2>1, Zenon
  <2>4. QED
    BY <1>3, <2>2, <2>3, IsDirGood, Zenon
<1>9. QED
  BY <1>1, <1>6, <1>7, <1>8, Zenon

LEMMA SizeGood ==
  ASSUME SInv, HearSize, UNCHANGED <<client, data, server, calls>>
  PROVE  Good
<1>1. PICK x \in Receipts :
        /\ Waits("SIZE", x) /\ Note(x, FALSE)
        /\ \/ ExistsLike /\ x.reply.code = 213 /\ Found(x)
           \/ ExistsLike /\ x.reply.code # 213 /\ Probe(x, {})
           \/ ~ExistsLike /\ x.reply.code = 213 /\ IsDir(x, FALSE)
           \/ ~ExistsLike /\ x.reply.code # 213 /\ Return(x, "error")
  BY Zenon DEF HearSize
<1>2. PICK at \in Probing \cup {"create", "remove"} : at = "SIZE" /\ at \in Probing
  BY DEF Probing
<1>3. op.at = "SIZE" /\ Heeds(x) /\ Said(x) /\ AtPath /\ op.api \in Apis
  BY <1>1, <1>2, QueryHeeds, Zenon
<1>4. PICK k : k = KindIn(fs, op.path)
  OBVIOUS
<1>5. ASSUME ~fault, x.reply.code = 213
      PROVE  k # "none" /\ k # "dir"
  <2>1. x.reply.code # 0
    BY <1>5
  <2>2. Tells(replies, 213)
    BY <1>3, <1>5, <2>1, Zenon DEF Said, Tells
  <2>3. Told(op, replies, k)
    BY <1>3, <1>4, <1>5, Zenon DEF Heeds, Truths
  <2>4. k \in {"file", "cut"}
    BY <1>3, <2>2, <2>3, Zenon DEF Told
  <2>5. QED
    BY <2>4
<1>6. CASE ExistsLike /\ x.reply.code = 213 /\ Found(x)
  BY <1>3, <1>4, <1>5, <1>6, FoundGood, Zenon
<1>7. CASE \E extensions : Probe(x, extensions)
  BY <1>3, <1>7, ProbeGood, Zenon
<1>8. CASE x.reply.code = 213 /\ IsDir(x, FALSE)
  <2>1. ~fault => (FALSE <=> KindIn(fs, op.path) = "dir")
    BY <1>4, <1>5, <1>8, Zenon
  <2>2. QED
    BY <1>3, <1>8, <2>1, IsDirGood, Zenon
<1>9. CASE Return(x, "error")
  <2>1. op.at \notin {"create", "remove"}
    BY <1>3
  <2>2. QED
    BY <1>3, <1>9, <2>1, ErrorGood, Zenon
<1>10. QED
  BY <1>1, <1>6, <1>7, <1>8, <1>9, Zenon

LEMMA EnterGood ==
  ASSUME SInv, HearEnter, UNCHANGED <<client, data, server, calls>>
  PROVE  Good
<1>1. PICK x \in Receipts :
        /\ Waits("enter", x) /\ Note(x, FALSE)
        /\ \/ x.reply.code = 250 /\ Ask(x, "leave", "CWD", "..")
           \/ op.api = "exists" /\ Return(x, "false")
           \/ op.api = "createDir" /\ Ask(x, "create", "MKD", FileName(op.path))
           \/ Ask(x, "SIZE", "SIZE", FileName(op.path))
           \/ Return(x, "error")
  BY Zenon DEF HearEnter
<1>2. PICK at \in Probing \cup {"create", "remove"} : at = "enter" /\ at \in Probing
  BY DEF Probing
<1>3. op.at = "enter" /\ Heeds(x) /\ Said(x) /\ AtPath /\ op.api \in Apis
  BY <1>1, <1>2, QueryHeeds, Zenon
<1>4. CASE x.reply.code = 250 /\ Ask(x, "leave", "CWD", "..")
  <2>1. ASSUME ~fault
        PROVE  KindIn(fs, op.path) = "dir"
    <3>1. x.reply.code # 0
      BY <1>4
    <3>2. Tells(replies, 250)
      BY <1>3, <1>4, <2>1, <3>1, Zenon DEF Said, Tells
    <3>3. Told(op, replies, KindIn(fs, op.path))
      BY <1>3, <2>1, Zenon DEF Heeds, Truths
    <3>4. QED
      BY <1>3, <3>2, <3>3, Zenon DEF Told
  <2>2. PICK to, verb, name : to = "leave" /\ Ask(x, to, verb, name)
    BY <1>4
  <2>3. to \in Local /\ to \notin Transferring \cup Naming /\ to \notin {"create", "remove", "opening"}
    BY <2>2 DEF Local, Probing, Transferring, Naming
  <2>4. /\ up /\ fs' = fs /\ cwd' = cwd
        /\ ~fault' => ~fault /\ x.cmds = <<>> /\ replies' = <<>>
    BY <1>3, Zenon DEF Heeds
  <2>5. /\ op.api \in Probes /\ op.path # <<>> /\ current' = Place(op)
        /\ op.at \notin Logging \cup {"idle", "create", "remove"}
    BY <1>3, Zenon DEF AtPath
  <2>6. QED
    BY <2>1, <2>2, <2>3, <2>4, <2>5, AskGood, Zenon
<1>5. CASE op.api = "exists" /\ Return(x, "false")
  <2>1. PICK a \in Replyable : a = "false"
    BY DEF Replyable
  <2>2. Honest(op, a, KindIn(fs, op.path))
    BY <1>5, <2>1, Zenon DEF Honest
  <2>3. Return(x, a)
    BY <1>5, <2>1
  <2>4. QED
    BY <1>3, <2>2, <2>3, ReturnGood, Zenon
<1>6. CASE op.api = "createDir" /\ Ask(x, "create", "MKD", FileName(op.path))
  <2>1. PICK to \in Probing \cup {"create", "remove"}, verb \in Verbs :
          to = "create" /\ Ask(x, to, verb, FileName(op.path))
    BY <1>6 DEF Verbs
  <2>2. to # "leave" /\ to # "remove"
    BY <2>1
  <2>3. QED
    BY <1>3, <1>6, <2>1, <2>2, AskNameGood, Zenon
<1>7. CASE Ask(x, "SIZE", "SIZE", FileName(op.path))
  <2>1. PICK to \in Probing \cup {"create", "remove"}, verb \in Verbs :
          to = "SIZE" /\ Ask(x, to, verb, FileName(op.path))
    BY <1>7 DEF Probing, Verbs
  <2>2. to # "leave" /\ to # "remove" /\ to # "create"
    BY <2>1
  <2>3. QED
    BY <1>3, <2>1, <2>2, AskNameGood, Zenon
<1>8. CASE Return(x, "error")
  <2>1. op.at \notin {"create", "remove"}
    BY <1>3
  <2>2. QED
    BY <1>3, <1>8, <2>1, ErrorGood, Zenon
<1>9. QED
  BY <1>1, <1>4, <1>5, <1>6, <1>7, <1>8, Zenon

LEMMA LeaveGood ==
  ASSUME SInv, HearLeave, UNCHANGED <<client, data, server, calls>>
  PROVE  Good
<1>1. PICK x \in Receipts, event \in BOOLEAN :
        /\ Waits("leave", x) /\ Note(x, event)
        /\ \/ ExistsLike /\ Found(x)
           \/ IsDir(x, TRUE)
           \/ Return(x, "error")
  BY Zenon DEF HearLeave
<1>2. PICK at \in Probing \cup {"create", "remove"} : at = "leave" /\ at \in Probing
  BY DEF Probing
<1>3. op.at = "leave" /\ Heeds(x) /\ AtPath /\ op.api \in Apis
  BY <1>1, <1>2, QueryHeeds, Zenon
<1>4. ~fault => KindIn(fs, op.path) = "dir"
  BY <1>3, Zenon DEF Heeds, Truths, Told
<1>5. ~fault => KindIn(fs, op.path) # "none"
  BY <1>4
<1>6. ~fault => (TRUE <=> KindIn(fs, op.path) = "dir")
  BY <1>4, Zenon
<1>7. op.at \notin {"create", "remove"}
  BY <1>3
<1>8. QED
  BY <1>1, <1>3, <1>5, <1>6, <1>7, FoundGood, IsDirGood, ErrorGood, Zenon

\* createDir and remove report what the server said of their command.
Verdict(x, at, code, a) ==
  /\ at \in {"create", "remove"} /\ code \in {257, 250}
  /\ Waits(at, x) /\ Note(x, FALSE) /\ Return(x, a)
  /\ a = IF x.reply.code = code THEN "ok" ELSE "error"
  /\ code = IF at = "create" THEN 257 ELSE 250

LEMMA VerdictGood ==
  ASSUME SInv, NEW x \in Receipts, NEW at, NEW code, NEW a, Verdict(x, at, code, a),
         UNCHANGED <<client, data, server, calls>>
  PROVE  Good
<1>1. /\ at \in {"create", "remove"} /\ code \in {257, 250}
      /\ Waits(at, x) /\ Note(x, FALSE) /\ Return(x, a)
      /\ a = IF x.reply.code = code THEN "ok" ELSE "error"
      /\ code = IF at = "create" THEN 257 ELSE 250
  BY DEF Verdict
<1>2. op.at = at /\ Heeds(x) /\ Said(x) /\ op.api \in Apis
  <2>1. at \in Probing \cup {"create", "remove"}
    BY <1>1
  <2>2. QED
    BY <1>1, <2>1, QueryHeeds, Zenon
<1>3. op.api \in Makers /\ (at = "create" => op.api = "createDir") /\ (at = "remove" => op.api = "remove")
  <2>1. (at = "create" => op.api = "createDir") /\ (at = "remove" => op.api = "remove")
    BY <1>1, <1>2, Zenon DEF SInv, Roles, Role
  <2>2. QED
    BY <1>1, <2>1 DEF Makers
<1>4. PICK k : k = KindIn(fs, op.path)
  OBVIOUS
<1>5. ~fault => k = IF op.at = "create" /\ Tells(replies, 257) THEN "dir"
                    ELSE IF op.at = "remove" /\ Tells(replies, 250) THEN "none" ELSE op.before
  BY <1>1, <1>2, <1>3, <1>4, Zenon DEF Heeds, Truths, Made
<1>6. CASE x.reply.code = code
  <2>1. a = "ok" /\ a \in Replyable
    BY <1>1, <1>6 DEF Replyable
  <2>2. ~fault => Honest(op, a, k)
    <3>1. SUFFICES ASSUME ~fault
                   PROVE  Honest(op, a, k)
      OBVIOUS
    <3>2. x.reply.code # 0
      BY <1>1, <1>6
    <3>3. Tells(replies, code)
      BY <1>1, <1>2, <1>6, <3>1, <3>2, Zenon DEF Said, Tells
    <3>4. k = IF at = "create" THEN "dir" ELSE "none"
      BY <1>1, <1>2, <1>5, <3>1, <3>3
    <3>5. CASE at = "create"
      BY <1>1, <1>3, <2>1, <3>4, <3>5 DEF Honest
    <3>6. CASE at = "remove"
      BY <1>1, <1>3, <2>1, <3>4, <3>6 DEF Honest
    <3>7. QED
      BY <1>1, <3>5, <3>6
  <2>3. QED
    BY <1>1, <1>2, <1>4, <2>1, <2>2, ReturnGood, Zenon
<1>7. CASE x.reply.code # code
  <2>1. Return(x, "error")
    BY <1>1, <1>7
  <2>2. ASSUME ~fault'
        PROVE  k = op.before
    <3>1. ~fault /\ ~Tells(replies, code)
      BY <1>1, <1>2, <1>7, <2>2, Zenon DEF Heeds, Said, Tells
    <3>2. QED
      BY <1>1, <1>2, <1>5, <3>1
  <2>3. QED
    BY <1>1, <1>2, <1>4, <2>1, <2>2, ErrorGood, Zenon
<1>8. QED
  BY <1>1, <1>6, <1>7

LEMMA LastGood ==
  ASSUME SInv, HearCreate \/ HearRemove, UNCHANGED <<client, data, server, calls>>
  PROVE  Good
<1>1. CASE HearCreate
  <2>1. PICK x \in Receipts :
          Waits("create", x) /\ Note(x, FALSE) /\ Return(x, IF x.reply.code = 257 THEN "ok" ELSE "error")
    BY <1>1 DEF HearCreate
  <2>2. PICK a : a = IF x.reply.code = 257 THEN "ok" ELSE "error"
    OBVIOUS
  <2>3. Verdict(x, "create", 257, a)
    BY <2>1, <2>2 DEF Verdict
  <2>4. QED
    BY <2>3, VerdictGood, Zenon
<1>2. CASE HearRemove
  <2>1. PICK x \in Receipts :
          Waits("remove", x) /\ Note(x, FALSE) /\ Return(x, IF x.reply.code = 250 THEN "ok" ELSE "error")
    BY <1>2 DEF HearRemove
  <2>2. PICK a : a = IF x.reply.code = 250 THEN "ok" ELSE "error"
    OBVIOUS
  <2>3. Verdict(x, "remove", 250, a)
    BY <2>1, <2>2 DEF Verdict
  <2>4. QED
    BY <2>3, VerdictGood, Zenon
<1>3. QED
  BY <1>1, <1>2

-----------------------------------------------------------------------------
(* The directory change.                                                   *)

\* The first command in place.
LEMMA InPlaceGood ==
  ASSUME SInv, NEW x, Heeds(x), op.at \in {"begin", "CWD"}, op.api \in Apis, ~Trivial,
         current' = Place(op), InPlace(x)
  PROVE  Good
<1>1. /\ op.at \notin Logging \cup {"idle", "create", "remove"}
      /\ op.api \in Namers => op.path # <<>>
  BY DEF Logging, Trivial, Namers
<1>2. /\ up /\ fs' = fs /\ cwd' = cwd
      /\ ~fault' => ~fault /\ x.cmds = <<>> /\ replies' = <<>>
  BY Zenon DEF Heeds
<1>3. ASSUME op.api \in Probes, op.path # <<>>, NEW extensions, Probe(x, extensions)
      PROVE  Good
  <2>1. AtPath
    BY <1>1, <1>3, Zenon DEF AtPath
  <2>2. QED
    BY <1>3, <2>1, ProbeGood, Zenon
<1>4. CASE ExistsLike /\ Probe(x, {"MLST", "SIZE"})
  <2>1. op.api \in Probes /\ op.path # <<>>
    BY <1>1, <1>4 DEF ExistsLike, Probes, Namers
  <2>2. QED
    BY <1>3, <1>4, <2>1, Zenon
<1>5. CASE op.api \in {"isDirectory", "remove"} /\ op.path # <<>> /\ Probe(x, {"MLST"})
  <2>1. op.api \in Probes
    BY <1>5 DEF Probes
  <2>2. QED
    BY <1>3, <1>5, <2>1, Zenon
<1>6. CASE op.api = "remove" /\ op.path = <<>> /\ Ask(x, "remove", "RMD", "")
  <2>1. PICK at, verb, name : at = "remove" /\ name = "" /\ Ask(x, at, verb, name)
    BY <1>6
  <2>2. /\ at \in Local /\ at \notin Transferring \cup Probing
        /\ at # "create" /\ at # "opening" /\ at # "leave"
    BY <2>1 DEF Local, Probing, Transferring
  <2>3. name = NameOf(op)
    <3>1. op.api # "list"
      BY <1>6
    <3>2. QED
      BY <1>6, <2>1, <3>1, Zenon DEF NameOf, FileName
  <2>4. QED
    BY <1>1, <1>2, <1>6, <2>1, <2>2, <2>3, AskGood, Zenon
<1>7. CASE Ask(x, "PASV", "PASV", "")
  <2>1. PICK at, verb, name : at = "PASV" /\ Ask(x, at, verb, name)
    BY <1>7
  <2>2. /\ at \in Local /\ at \notin Transferring \cup Probing \cup Naming
        /\ at # "create" /\ at # "opening" /\ at # "leave" /\ at # "remove"
    BY <2>1 DEF Local, Probing, Transferring, Naming, Fetching
  <2>3. QED
    BY <1>1, <1>2, <2>1, <2>2, AskGood, Zenon
<1>8. QED
  BY <1>4, <1>5, <1>6, <1>7, Zenon DEF InPlace

\* A directory change on its way says nothing of the path yet.
LEMMA CwdGood ==
  ASSUME SInv, NEW x, Heeds(x), op.at \in {"begin", "CWD"}, op.api \in Apis, ~Trivial,
         op'.at = "CWD", SameCall
  PROVE  Good
<1>1. /\ op'.at \notin {"idle", "begin"} \cup Transferring \cup Logging \cup Probing \cup Local \cup Naming
      /\ op'.at \notin {"create", "remove", "opening", "leave"}
  BY DEF Transferring, Logging, Probing, Local, Naming, Fetching
<1>2. op.api \in Namers => op.path # <<>>
  BY DEF Trivial, Namers
<1>3. Role(op', current')
  BY <1>1, <1>2, Zenon DEF Role, SameCall
<1>4. Placed(op', cmds', data')
  BY <1>1, Zenon DEF Placed
<1>5. /\ up /\ fs' = fs /\ cwd' = cwd /\ op.at \notin {"create", "remove"}
      /\ ~fault' => ~fault /\ replies' = <<>>
  BY DEF Heeds
<1>6. QED
  BY <1>1, <1>3, <1>4, <1>5, OnGood, Zenon

LEMMA BeginGood ==
  ASSUME SInv, Begin
  PROVE  Good
<1>1. /\ op.at = "begin" /\ fs' = fs /\ cwd' = cwd /\ replies' = replies /\ (fault' <=> fault)
  BY DEF Begin, server
<1>2. up /\ Inv
  <2>1. op.at # "idle"
    BY <1>1
  <2>2. QED
    BY <2>1, Zenon DEF SInv, Inv, Down
<1>3. ~fault => Truths /\ Clear
  <2>1. op.at \in Resting
    BY <1>1 DEF Resting
  <2>2. QED
    BY <1>2, <2>1, Zenon DEF SInv, Inv, Flow
<1>4. Quiet.cmds = cmds
  BY DEF Quiet, Heard
<1>5. Heeds(Quiet)
  BY <1>1, <1>2, <1>3, <1>4, Zenon DEF Heeds, Clear
<1>6. op.api \in Apis
  <2>1. op.at \notin Logging \cup {"idle"}
    BY <1>1 DEF Logging
  <2>2. QED
    BY <2>1, Zenon DEF SInv, Roles, Role
<1>7. CASE Trivial /\ Return(Quiet, IF op.api = "createDir" THEN "ok" ELSE "true")
  <2>1. PICK a : a = IF op.api = "createDir" THEN "ok" ELSE "true"
    OBVIOUS
  <2>2. PICK k : k = KindIn(fs, op.path)
    OBVIOUS
  <2>3. k = "dir"
    BY <1>7, <2>2, Zenon DEF Trivial, KindIn
  <2>4. a \in Replyable /\ Return(Quiet, a)
    BY <1>7, <2>1 DEF Replyable
  <2>5. Honest(op, a, k)
    BY <1>7, <2>1, <2>3 DEF Honest, Trivial
  <2>6. QED
    BY <1>5, <1>6, <2>2, <2>4, <2>5, ReturnGood, Zenon
<1>8. CASE ~Trivial /\ InPlace(Quiet) /\ current' = Place(op)
  BY <1>1, <1>5, <1>6, <1>8, InPlaceGood
<1>9. CASE /\ ~Trivial /\ answer' = answer
           /\ op' = [op EXCEPT !.at = "CWD", !.plan = Plan(current, Place(op))]
  <2>1. op'.at = "CWD" /\ SameCall
    BY <1>2, <1>9 DEF Inv, Types, CallTypes, Ops, SameCall
  <2>2. op.at \in {"begin", "CWD"}
    BY <1>1
  <2>3. QED
    BY <1>5, <1>6, <1>9, <2>1, <2>2, CwdGood, Zenon
<1>10. QED
  BY <1>7, <1>8, <1>9, Zenon DEF Begin

LEMMA HeardHeeds ==
  ASSUME SInv, op.at \in Asking, NEW x \in Receipts, replies' = x.replies, fs' = fs, cwd' = cwd,
         ~fault' => ~fault /\ ~x.dead
  PROVE  Heeds(x) /\ Said(x)
<1>1. /\ up /\ (~fault => Truths)
      /\ ~fault' => ~fault /\ x.cmds = <<>> /\ replies' = <<>>
      /\ ~fault /\ x.reply.code # 0 => replies # <<>> /\ replies[1] = x.reply
      /\ ~fault' /\ replies # <<>> => replies[1] = x.reply
  BY Hears, Zenon
<1>2. QED
  BY <1>1, Zenon DEF Heeds, Said

LEMMA ChangeGood ==
  ASSUME SInv, Change
  PROVE  Good
<1>1. PICK x \in Receipts, event \in BOOLEAN :
        /\ Waits("CWD", x) /\ Note(x, event)
        /\ \/ op' = [op EXCEPT !.plan = Tail(op.plan)] /\ answer' = answer
           \/ InPlace(x) /\ current' = Place(op)
           \/ Return(x, "error")
  BY Zenon DEF Change
<1>2. op.at = "CWD" /\ replies' = x.replies
  BY <1>1 DEF Waits
<1>3. op.at \in Asking /\ op.at \notin Logging \cup {"idle", "begin"} /\ op.at \notin {"create", "remove"}
  BY <1>2 DEF Asking, Logging
<1>4. Heeds(x)
  <2>1. fs' = fs /\ cwd' = cwd
    BY DEF Change, server
  <2>2. ~fault' => ~fault /\ ~x.dead
    BY <1>1, Zenon DEF Note
  <2>3. QED
    BY <1>2, <1>3, <2>1, <2>2, HeardHeeds, Zenon
<1>5. op.api \in Apis /\ (op.api \in Namers => op.path # <<>>)
  BY <1>3, Zenon DEF SInv, Roles, Role
<1>6. ~Trivial /\ op.at \in {"begin", "CWD"}
  BY <1>2, <1>5 DEF Trivial, Namers
<1>7. CASE op' = [op EXCEPT !.plan = Tail(op.plan)] /\ answer' = answer
  <2>1. op'.at = "CWD" /\ SameCall
    BY <1>2, <1>7 DEF SInv, Inv, Types, CallTypes, Ops, SameCall
  <2>2. QED
    BY <1>4, <1>5, <1>6, <2>1, CwdGood, Zenon
<1>8. CASE InPlace(x) /\ current' = Place(op)
  BY <1>4, <1>5, <1>6, <1>8, InPlaceGood, Zenon
<1>9. CASE Return(x, "error")
  BY <1>3, <1>4, <1>5, <1>9, ErrorGood, Zenon
<1>10. QED
  BY <1>1, <1>7, <1>8, <1>9, Zenon

-----------------------------------------------------------------------------
(* The transfers.                                                          *)

\* list, read and write are in their directory and change nothing by themselves.
LEMMA AtTransfer ==
  ASSUME SInv, op.at \in Fetching
  PROVE  /\ up /\ op.api \in TransferApis /\ op.api \in Apis /\ op.api \notin Makers \cup Namers
         /\ current = Place(op) /\ op.at \notin Logging \cup {"idle", "create", "remove"}
<1>1. op.api \in TransferApis
  BY Zenon DEF SInv, Inv, Types, CallTypes
<1>2. op.at \in Local /\ op.at \notin Logging \cup {"idle", "create", "remove"}
  BY DEF Fetching, Local, Logging, Transferring
<1>3. op.api \in Apis /\ op.api \notin Makers \cup Namers
  BY <1>1 DEF TransferApis, Apis, Makers, Namers
<1>4. up /\ current = Place(op)
  BY <1>2, Zenon DEF SInv, Inv, Down, Roles, Role
<1>5. QED
  BY <1>1, <1>2, <1>3, <1>4, Zenon

LEMMA PasvGood ==
  ASSUME SInv, HearPasv
  PROVE  Good
<1>1. PICK x \in Receipts :
        /\ Waits("PASV", x) /\ Note(x, FALSE)
        /\ \/ /\ op' = [op EXCEPT !.at = IF ParsePasvResponse(x.reply) THEN "dial" ELSE "dial anywhere"]
              /\ answer' = answer
           \/ Return(x, "error")
  BY Zenon DEF HearPasv
<1>2. op.at = "PASV" /\ replies' = x.replies
  BY <1>1 DEF Waits
<1>3. op.at \in Asking /\ op.at \in Fetching
  BY <1>2 DEF Asking, Fetching
<1>4. fs' = fs /\ cwd' = cwd /\ current' = current
  BY DEF HearPasv, client, server
<1>5. Heeds(x)
  <2>1. ~fault' => ~fault /\ ~x.dead
    BY <1>1, Zenon DEF Note
  <2>2. QED
    BY <1>2, <1>3, <1>4, <2>1, HeardHeeds, Zenon
<1>6. /\ op.api \in TransferApis /\ op.api \in Apis /\ op.api \notin Makers \cup Namers
      /\ current = Place(op) /\ op.at \notin Logging \cup {"idle", "create", "remove"}
  BY <1>3, AtTransfer, Zenon
<1>7. CASE /\ op' = [op EXCEPT !.at = IF ParsePasvResponse(x.reply) THEN "dial" ELSE "dial anywhere"]
           /\ answer' = answer
  <2>1. SameCall /\ op'.at \in {"dial", "dial anywhere"}
    BY <1>7 DEF SInv, Inv, Types, CallTypes, Ops, SameCall
  <2>2. /\ op'.at \notin {"idle", "begin"} \cup Transferring \cup Logging \cup Probing \cup Naming
        /\ op'.at \notin {"create", "remove", "opening", "leave"}
    BY <2>1 DEF Transferring, Logging, Probing, Naming
  <2>3. Place(op') = Place(op)
    BY <2>1, Zenon DEF Place, SameCall
  <2>4. Role(op', current')
    BY <1>4, <1>6, <2>1, <2>2, <2>3, Zenon DEF Role, SameCall
  <2>5. Placed(op', cmds', data')
    BY <2>2, Zenon DEF Placed
  <2>6. up /\ (~fault' => ~fault /\ replies' = <<>>)
    BY <1>5 DEF Heeds
  <2>7. QED
    BY <1>4, <1>6, <2>1, <2>2, <2>4, <2>5, <2>6, OnGood, Zenon
<1>8. CASE Return(x, "error")
  BY <1>5, <1>6, <1>8, ErrorGood, Zenon
<1>9. QED
  BY <1>1, <1>7, <1>8, Zenon

LEMMA DialGood ==
  ASSUME SInv, Dial
  PROVE  Good
<1>1. op.at \in Fetching /\ op.at \in Resting
  BY DEF Dial, Fetching, Resting
<1>2. /\ fs' = fs /\ cwd' = cwd /\ current' = current /\ replies' = replies /\ (fault' <=> fault)
  BY DEF Dial, client, server
<1>3. /\ up /\ op.api \in TransferApis /\ op.api \in Apis /\ op.api \notin Makers \cup Namers
      /\ current = Place(op) /\ op.at \notin Logging \cup {"idle", "create", "remove"}
  BY <1>1, AtTransfer, Zenon
<1>4. ~fault => Truths /\ Clear
  BY <1>1, <1>3, Zenon DEF SInv, Inv, Flow
<1>5. PICK x : x = Quiet
  OBVIOUS
<1>6. x.cmds = cmds
  BY <1>5 DEF Quiet, Heard
<1>7. Heeds(x)
  BY <1>2, <1>3, <1>4, <1>6, Zenon DEF Heeds, Clear
<1>8. CASE /\ Ask(x, "opening", Verb, IF op.api = "list" THEN "" ELSE FileName(op.path))
           /\ data' \in {"open", "stray"}
  <2>1. PICK at, verb, name :
          /\ at = "opening" /\ verb = Verb /\ Ask(x, at, verb, name)
          /\ name = IF op.api = "list" THEN "" ELSE FileName(op.path)
    BY <1>8
  <2>2. name = NameOf(op)
    BY <2>1 DEF NameOf
  <2>3. verb = VerbOf(op)
    BY <1>3, <2>1 DEF VerbOf, Verb, TransferApis
  <2>4. /\ at \in Local /\ at \notin Transferring \cup Probing
        /\ at # "create" /\ at # "leave" /\ at # "remove"
    BY <2>1 DEF Local, Probing, Transferring, Fetching
  <2>5. /\ current' = Place(op)
        /\ ~fault' => ~fault /\ x.cmds = <<>> /\ replies' = <<>>
    BY <1>2, <1>3, <1>7, Zenon DEF Heeds
  <2>6. QED
    BY <1>2, <1>3, <1>8, <2>1, <2>2, <2>3, <2>4, <2>5, AskGood, Zenon
<1>9. CASE Return(x, "error")
  BY <1>3, <1>7, <1>9, ErrorGood, Zenon
<1>10. QED
  <2>1. data' \in (IF op.at = "dial" THEN {"open"} ELSE {"open", "stray"})
          => data' \in {"open", "stray"}
    OBVIOUS
  <2>2. QED
    BY <1>5, <1>8, <1>9, <2>1, Zenon DEF Dial

LEMMA OverTail ==
  ASSUME NEW s \in Seq(Replies), s # <<>>, Over(Tail(s))
  PROVE  Over(s)
<1>1. /\ Tail(s) \in Seq(Replies) /\ Len(Tail(s)) = Len(s) - 1
      /\ \A i \in 1..Len(Tail(s)) : Tail(s)[i] = s[i + 1]
  BY HeadTailProperties
<1>2. PICK i \in DOMAIN Tail(s) : Tail(s)[i].code = 226
  BY DEF Over
<1>3. DOMAIN s = 1..Len(s) /\ DOMAIN Tail(s) = 1..Len(Tail(s)) /\ Len(s) \in Nat
  BY <1>1, LenProperties
<1>4. i + 1 \in DOMAIN s
  BY <1>1, <1>3
<1>5. s[i + 1].code = 226
  BY <1>1, <1>2, <1>3
<1>6. QED
  BY <1>4, <1>5 DEF Over

LEMMA OverFirst ==
  ASSUME NEW s \in Seq(Replies), s # <<>>, s[1].code = 226
  PROVE  Over(s)
<1>1. 1 \in DOMAIN s
  BY EmptySeq, LenProperties
<1>2. QED
  BY <1>1 DEF Over

\* A call that is in its transfer before and after the step.
LEMMA MovesGood ==
  ASSUME SInv, op.at \in Fetching, SameCall, op'.at \in Transferring, current' = current,
         fs' = fs, cwd' = cwd, ~fault' => ~fault,
         ~fault' => Moved(op', replies', data', xfer', KindIn(fs, op.path))
  PROVE  Good
<1>1. /\ up /\ op.api \in TransferApis /\ op.api \in Apis /\ op.api \notin Makers \cup Namers
      /\ current = Place(op)
  BY AtTransfer, Zenon
<1>2. /\ op'.at \notin {"idle", "begin"} \cup Logging \cup Probing \cup Naming
      /\ op'.at \notin {"create", "remove", "opening", "leave", "MLST", "SIZE", "enter"}
  BY DEF Transferring, Logging, Probing, Naming
<1>3. Roles'
  <2>1. Place(op') = Place(op)
    BY Zenon DEF Place, SameCall
  <2>2. QED
    BY <1>1, <1>2, <2>1, Zenon DEF Roles, Role, SameCall
<1>4. Tree' /\ Seen
  <2>1. Tree'
    BY SameFiles
  <2>2. Seen
    BY Zenon DEF Seen, Unseen, SameCall
  <2>3. QED
    BY <2>1, <2>2
<1>5. ASSUME ~fault'
      PROVE  Truths'
  <2>1. KindIn(fs', cwd') = "dir"
    BY <1>1, <1>5, Zenon DEF SInv, Truths
  <2>2. Placed(op', cmds', data') /\ Told(op', replies', KindIn(fs', op'.path))
    BY <1>2 DEF Placed, Told
  <2>3. Made(op', replies', KindIn(fs', op'.path))
    BY <1>1, Zenon DEF Made, SameCall
  <2>4. Moved(op', replies', data', xfer', KindIn(fs', op'.path))
    BY <1>5, Zenon DEF SameCall
  <2>5. QED
    BY <2>1, <2>2, <2>3, <2>4, Zenon DEF Truths
<1>6. QED
  BY <1>3, <1>4, <1>5, Zenon DEF Good

\* The transfer as it stood before the step.
LEMMA WasMoved ==
  ASSUME SInv, up, ~fault, Begun(op, replies), NEW k, k = KindIn(fs, op.path)
  PROVE  /\ op.at = "completion" /\ op.api = "write" => op.got
         /\ op.api = "read" => k \in {"file", "cut"}
         /\ xfer # NoXfer => Running(op, data, xfer, k)
         /\ Over(replies) => Finished(op, data, k)
BY Zenon DEF SInv, Truths, Moved

LEMMA OpeningGood ==
  ASSUME SInv, HearOpening
  PROVE  Good
<1>1. PICK x \in Receipts :
        /\ Waits("opening", x) /\ Note(x, x.reply.code = 125)
        /\ \/ /\ x.reply.code = 150 /\ op' = [op EXCEPT !.at = "data"]
              /\ cmds' = x.cmds /\ answer' = answer /\ data' = data
           \/ x.reply.code # 150 /\ Return(x, "error")
  BY DEF HearOpening
<1>2. op.at = "opening" /\ replies' = x.replies
  BY <1>1 DEF Waits
<1>3. op.at \in Fetching
  BY <1>2 DEF Fetching
<1>4. fs' = fs /\ cwd' = cwd /\ current' = current /\ xfer' = xfer
  BY DEF HearOpening, client, server
<1>5. /\ up /\ op.api \in TransferApis /\ op.api \in Apis /\ op.api \notin Makers \cup Namers
      /\ current = Place(op) /\ op.at \notin Logging \cup {"idle", "create", "remove"}
  BY <1>3, AtTransfer, Zenon
<1>6. ~fault' => ~fault /\ ~x.dead /\ x.reply.code # 125
  BY <1>1, Zenon DEF Note
<1>7. Types /\ (~fault => Truths /\ Flow)
  BY <1>5, Zenon DEF SInv, Inv
<1>8. CASE /\ x.reply.code = 150 /\ op' = [op EXCEPT !.at = "data"]
           /\ cmds' = x.cmds /\ answer' = answer /\ data' = data
  <2>1. SameCall /\ op'.at = "data" /\ op'.at \in Transferring /\ op'.at # "completion"
    BY <1>8 DEF SInv, Inv, Types, CallTypes, Ops, SameCall, Transferring
  <2>2. PICK k : k = KindIn(fs, op.path)
    OBVIOUS
  <2>3. ASSUME ~fault'
        PROVE  Moved(op', replies', data', xfer', k)
    <3>1. x.reply # Failed /\ x.reply.code \in Openings
      BY <1>8 DEF Failed, Openings
    <3>2. replies # <<>> /\ x.reply = Head(replies) /\ replies' = Tail(replies)
      BY <1>2, <1>7, <3>1, ReceiptForms, Zenon
    <3>3. replies \in Seq(Replies)
      BY <1>7 DEF Types, LineTypes
    <3>4. x.reply = replies[1]
      BY <3>2, <3>3
    <3>5. Begun(op, replies)
      BY <1>2, <3>1, <3>2, <3>4, Zenon DEF Begun, Announced
    <3>6. /\ op.api = "read" => k \in {"file", "cut"}
          /\ xfer # NoXfer => Running(op, data, xfer, k)
          /\ Over(replies) => Finished(op, data, k)
      BY <1>5, <1>6, <2>2, <2>3, <3>5, WasMoved, Zenon
    <3>7. Over(replies') => Over(replies)
      BY <3>2, <3>3, OverTail, Zenon
    <3>8. VerbOf(op') = VerbOf(op)
      BY <2>1, Zenon DEF VerbOf, SameCall
    <3>9. Running(op, data, xfer, k) => Running(op', data, xfer, k)
      BY <2>1, <3>8, Zenon DEF Running, SameCall
    <3>10. op.at # "completion"
      BY <1>2
    <3>11. Finished(op, data, k) => Finished(op', data, k)
      BY <2>1, <3>10, Zenon DEF Finished, SameCall
    <3>12. QED
      BY <1>4, <1>8, <2>1, <3>6, <3>7, <3>9, <3>11, Zenon DEF Moved, SameCall
  <2>4. QED
    BY <1>3, <1>4, <1>6, <2>1, <2>2, <2>3, MovesGood, Zenon
<1>9. CASE x.reply.code # 150 /\ Return(x, "error")
  <2>1. ASSUME ~fault'
        PROVE  x.cmds = <<>> /\ x.replies = <<>>
    <3>1. x.reply.code \notin Openings
      BY <1>6, <1>9, <2>1 DEF Openings
    <3>2. ClearFor(x)
      BY <1>2, <1>6, <1>7, <2>1, <3>1, OpeningTaken, Zenon
    <3>3. QED
      BY <3>2 DEF ClearFor
  <2>2. Heeds(x)
    BY <1>2, <1>4, <1>5, <1>6, <1>7, <2>1, Zenon DEF Heeds
  <2>3. QED
    BY <1>5, <1>9, <2>2, ErrorGood, Zenon
<1>10. QED
  BY <1>1, <1>8, <1>9

LEMMA DataGood ==
  ASSUME SInv, Receive \/ Upload
  PROVE  Good
<1>1. /\ op.at = "data" /\ fs' = fs /\ cwd' = cwd /\ current' = current /\ xfer' = xfer
      /\ replies' = replies /\ answer' = answer /\ (fault' <=> fault)
  BY DEF Receive, Upload, client, server
<1>2. op.at \in Fetching /\ op.at \in Transferring /\ op.at # "completion"
  BY <1>1 DEF Fetching, Transferring
<1>3. op \in Ops /\ up
  BY <1>2, AtTransfer, Zenon DEF SInv, Inv, Types, CallTypes
<1>4. PICK g \in BOOLEAN :
        /\ op' = [op EXCEPT !.at = "completion", !.got = g]
        /\ \/ /\ op.api \in {"list", "read"} /\ data' = data /\ (data = "whole" => g)
              /\ data \in {"whole", "cut", "stray"}
           \/ op.api = "write" /\ data' = (IF data = "open" THEN "whole" ELSE data) /\ g
  <2>1. CASE Receive
    BY <2>1 DEF Receive
  <2>2. CASE Upload
    BY <2>2 DEF Upload
  <2>3. QED
    BY <2>1, <2>2
<1>5. SameCall /\ op'.at = "completion" /\ op'.got = g /\ op'.at \in Transferring
  BY <1>1, <1>3, <1>4 DEF Ops, SameCall, Transferring
<1>6. PICK k : k = KindIn(fs, op.path)
  OBVIOUS
<1>7. ASSUME ~fault'
      PROVE  Moved(op', replies', data', xfer', k)
  <2>1. Begun(op, replies)
    BY <1>2 DEF Begun
  <2>2. /\ op.api = "read" => k \in {"file", "cut"}
        /\ xfer # NoXfer => Running(op, data, xfer, k)
        /\ Over(replies) => Finished(op, data, k)
    BY <1>1, <1>3, <1>6, <1>7, <2>1, WasMoved, Zenon
  <2>3. VerbOf(op') = VerbOf(op)
    BY <1>5, Zenon DEF VerbOf, SameCall
  <2>4. Running(op, data, xfer, k) => Running(op', data', xfer, k)
    <3>1. SUFFICES ASSUME Running(op, data, xfer, k)
                   PROVE  Running(op', data', xfer, k)
      OBVIOUS
    <3>2. CASE op.api = "write"
      <4>1. /\ xfer.verb = VerbOf(op) /\ xfer.path = op.path /\ op.path \in Paths /\ k = "cut"
            /\ data \in {"open", "stray", "whole"}
        BY <3>1, <3>2, Zenon DEF Running
      <4>2. data' \in {"open", "stray", "whole"}
        BY <1>4, <3>2, <4>1
      <4>3. QED
        BY <1>5, <2>3, <3>2, <4>1, <4>2, Zenon DEF Running, SameCall
    <3>3. CASE op.api # "write"
      <4>1. xfer.verb = VerbOf(op) /\ data \in {"stray", "open"}
        BY <3>1, <3>3 DEF Running
      <4>2. data' = "stray"
        BY <1>4, <3>3, <4>1
      <4>3. QED
        BY <1>5, <2>3, <3>3, <4>1, <4>2, Zenon DEF Running, SameCall
    <3>4. QED
      BY <3>2, <3>3
  <2>5. Finished(op, data, k) => Finished(op', data', k)
    <3>1. op.api = "read" => (data = "whole" => g)
      BY <1>4
    <3>2. QED
      BY <1>2, <1>5, <3>1, Zenon DEF Finished, SameCall
  <2>6. op.api = "write" => g
    BY <1>4
  <2>7. QED
    BY <1>1, <1>5, <2>2, <2>4, <2>5, <2>6, Zenon DEF Moved, SameCall
<1>8. QED
  BY <1>1, <1>2, <1>5, <1>6, <1>7, MovesGood, Zenon

LEMMA ChunkGood ==
  ASSUME SInv, MoreData \/ Chunk
  PROVE  Good
<1>1. /\ op.at \in {"data", "chunk"} /\ fs' = fs /\ cwd' = cwd /\ current' = current
      /\ xfer' = xfer /\ data' = data /\ replies' = replies /\ answer' = answer
      /\ (fault' <=> fault)
  BY DEF MoreData, Chunk, client, server
<1>2. op.at \in Fetching /\ op.at \in Transferring /\ op.at # "completion"
  BY <1>1 DEF Fetching, Transferring
<1>3. op \in Ops /\ up
  BY <1>2, AtTransfer, Zenon DEF SInv, Inv, Types, CallTypes
<1>4. PICK at \in {"data", "chunk"} : op' = [op EXCEPT !.at = at]
  BY DEF MoreData, Chunk
<1>5. SameCall /\ op'.at \in Transferring /\ op'.at # "completion" /\ op'.got = op.got
  BY <1>1, <1>3, <1>4 DEF Ops, SameCall, Transferring
<1>6. PICK k : k = KindIn(fs, op.path)
  OBVIOUS
<1>7. ASSUME ~fault'
      PROVE  Moved(op', replies', data', xfer', k)
  <2>1. Begun(op, replies)
    BY <1>2 DEF Begun
  <2>2. /\ op.api = "read" => k \in {"file", "cut"}
        /\ xfer # NoXfer => Running(op, data, xfer, k)
        /\ Over(replies) => Finished(op, data, k)
    BY <1>1, <1>3, <1>6, <1>7, <2>1, WasMoved, Zenon
  <2>3. VerbOf(op') = VerbOf(op)
    BY <1>5, Zenon DEF VerbOf, SameCall
  <2>4. Running(op, data, xfer, k) => Running(op', data', xfer', k)
    BY <1>1, <1>5, <2>3, Zenon DEF Running, SameCall
  <2>5. Finished(op, data, k) => Finished(op', data', k)
    BY <1>1, <1>2, <1>5, Zenon DEF Finished, SameCall
  <2>6. QED
    BY <1>1, <1>5, <2>2, <2>4, <2>5, Zenon DEF Moved, SameCall
<1>8. QED
  BY <1>1, <1>2, <1>5, <1>6, <1>7, MovesGood, Zenon

\* A call that ends with its process.
LEMMA CrashGood ==
  ASSUME SInv, Crash
  PROVE  Good
<1>1. op.at = "dial anywhere" /\ fs' = fs /\ up' = FALSE
  BY DEF Crash, Disconnect
<1>2. op.at \in Fetching
  BY <1>1 DEF Fetching
<1>3. up /\ op.api \in Apis /\ op.api \notin Makers
  BY <1>2, AtTransfer, Zenon
<1>4. PICK a \in Replyable : a = "error"
  BY DEF Replyable
<1>5. PICK x : Return(x, a)
  BY <1>4, Zenon DEF Crash, Disconnect
<1>6. Honest(op, a, KindIn(fs, op.path))
  BY <1>3, <1>4, Zenon DEF Honest
<1>7. QED
  BY <1>1, <1>3, <1>5, <1>6, EndsGood, Zenon

LEMMA AbandonGood ==
  ASSUME SInv, Abandon
  PROVE  Good
<1>1. op.at \in {"data", "chunk"} /\ fs' = fs /\ cwd' = cwd /\ fault' = TRUE
  BY DEF Abandon, server
<1>2. op.at \in Fetching
  BY <1>1 DEF Fetching, Transferring
<1>3. /\ up /\ op.api \in Apis /\ op.at \notin Logging \cup {"idle", "create", "remove"}
  BY <1>2, AtTransfer, Zenon
<1>4. PICK x : x = Quiet
  OBVIOUS
<1>5. Return(x, "error")
  BY <1>4 DEF Abandon
<1>6. Heeds(x)
  BY <1>1, <1>3, Zenon DEF Heeds, SInv
<1>7. QED
  BY <1>3, <1>5, <1>6, ErrorGood, Zenon

LEMMA CompletionGood ==
  ASSUME SInv, HearCompletion
  PROVE  Good
<1>1. PICK x \in Receipts, a \in Replyable :
        /\ Waits("completion", x) /\ Note(x, FALSE) /\ Return(x, a)
        /\ a = IF \/ x.reply.code = 226
                  \/ op.api = "list" /\ x.reply # Failed
               THEN IF op.got THEN "ok" ELSE "cut"
               ELSE "error"
  BY DEF HearCompletion, Replyable
<1>2. op.at = "completion" /\ replies' = x.replies
  BY <1>1 DEF Waits
<1>3. op.at \in Fetching /\ op.at \in Transferring
  BY <1>2 DEF Fetching, Transferring
<1>4. fs' = fs /\ cwd' = cwd
  BY DEF HearCompletion, server
<1>5. /\ up /\ op.api \in TransferApis /\ op.api \in Apis /\ op.api \notin Makers
      /\ current = Place(op)
  BY <1>3, AtTransfer, Zenon
<1>6. ~fault' => ~fault /\ ~x.dead
  BY <1>1, Zenon DEF Note
<1>7. Types /\ (~fault => Truths /\ Flow /\ Whereabouts)
  BY <1>5, Zenon DEF SInv, Inv
<1>8. Heeds(x)
  <2>1. ASSUME ~fault'
        PROVE  x.cmds = <<>> /\ x.replies = <<>>
    <3>1. (cmds = <<>> /\ replies = <<>>) \/ Answered
      BY <1>3, <1>6, <1>7, <2>1, Zenon DEF Flow
    <3>2. replies # <<>> /\ x.cmds = cmds /\ x.replies = Tail(replies)
      BY <1>2, <1>6, <1>7, <2>1, ReceiptForms, Zenon
    <3>3. PICK r \in Replies : cmds = <<>> /\ replies = <<r>>
      BY <3>1, <3>2, Zenon DEF Answered
    <3>4. Tail(<<r>>) = <<>>
      BY Single
    <3>5. QED
      BY <3>2, <3>3, <3>4, Zenon
  <2>2. QED
    BY <1>2, <1>4, <1>5, <1>6, <1>7, <2>1, Zenon DEF Heeds
<1>9. PICK k : k = KindIn(fs, op.path)
  OBVIOUS
<1>10. a \in Replyable
  BY <1>1 DEF Replyable
<1>11. ASSUME ~fault
       PROVE  Honest(op, a, k)
  <2>1. CASE a = "error"
    BY <1>5, <2>1, Zenon DEF Honest
  <2>2. CASE a # "error" /\ op.api = "list"
    <3>1. a \in {"ok", "cut"}
      BY <1>1, <2>2
    <3>2. cwd = current
      BY <1>2, <1>7, <1>11 DEF Whereabouts
    <3>3. op.path = cwd
      BY <1>5, <2>2, <3>2, Zenon DEF Place
    <3>4. k = "dir"
      BY <1>7, <1>9, <1>11, <3>3, Zenon DEF Truths
    <3>5. QED
      BY <2>2, <3>1, <3>4, Zenon DEF Honest
  <2>3. CASE a # "error" /\ op.api # "list"
    <3>1. x.reply.code = 226 /\ a = (IF op.got THEN "ok" ELSE "cut")
      BY <1>1, <2>3
    <3>2. x.reply # Failed
      BY <3>1 DEF Failed
    <3>3. replies # <<>> /\ x.reply = Head(replies) /\ replies \in Seq(Replies)
      BY <1>7, <3>2, ReceiptForms, Zenon DEF Types, LineTypes
    <3>4. replies[1].code = 226
      BY <3>1, <3>3
    <3>5. Over(replies) /\ Begun(op, replies)
      BY <1>3, <3>3, <3>4, OverFirst, Zenon DEF Begun
    <3>6. /\ op.api = "write" => op.got
          /\ op.api = "read" => k \in {"file", "cut"}
          /\ Finished(op, data, k)
      BY <1>2, <1>5, <1>9, <1>11, <3>5, WasMoved, Zenon
    <3>7. (op.api = "write" => k = "file") /\ (op.api = "read" => op.got)
      BY <1>2, <3>6, Zenon DEF Finished
    <3>8. op.api \in {"read", "write"}
      BY <1>5, <2>3 DEF TransferApis
    <3>9. a = "ok"
      BY <3>1, <3>6, <3>7, <3>8
    <3>10. QED
      BY <3>6, <3>7, <3>8, <3>9, Zenon DEF Honest
  <2>4. QED
    BY <2>1, <2>2, <2>3
<1>12. QED
  BY <1>1, <1>5, <1>8, <1>9, <1>10, <1>11, ReturnGood, Zenon

-----------------------------------------------------------------------------
(* Calls and connections.                                                  *)

\* Where nothing has been said about the path of the call yet.
LEMMA FreshIsTrue ==
  ASSUME NEW o, o.at \in Logging \cup {"begin"}, NEW cs, NEW rs, NEW d, NEW x, NEW k, NEW dir,
         IF o.at = "begin" THEN o.api \in Apis /\ k = o.before ELSE o.api = "connect"
  PROVE  /\ Role(o, dir) /\ Placed(o, cs, d) /\ Told(o, rs, k) /\ Made(o, rs, k)
         /\ Moved(o, rs, d, x, k)
<1>1. /\ o.at \notin Probing \cup Local \cup Naming \cup Transferring
      /\ o.at \notin {"create", "remove", "opening", "completion", "MLST", "SIZE", "enter", "leave"}
  BY DEF Logging, Probing, Local, Naming, Transferring, Fetching
<1>2. o.api = "connect" => o.api \notin Namers \cup Makers
  BY DEF Namers, Makers
<1>3. o.at = "begin" => o.at \notin Logging
  BY DEF Logging
<1>4. Role(o, dir)
  BY <1>1, <1>2, <1>3 DEF Role
<1>5. Placed(o, cs, d) /\ Told(o, rs, k) /\ Moved(o, rs, d, x, k)
  BY <1>1, Zenon DEF Placed, Told, Moved, Begun
<1>6. Made(o, rs, k)
  BY <1>1, <1>2 DEF Made
<1>7. QED
  BY <1>4, <1>5, <1>6

LEMMA CallGood ==
  ASSUME SInv, NEW api \in Apis, NEW path \in Targets, Call(api, path)
  PROVE  Good
<1>1. /\ up /\ op = NoOp /\ fs' = fs /\ cwd' = cwd /\ answer' = "none" /\ (fault' <=> fault)
      /\ op' = [NoOp EXCEPT !.api = api, !.path = path, !.at = "begin", !.before = Kind(path)]
  BY DEF Call, server
<1>2. op.api \notin Apis
  BY <1>1 DEF NoOp, Apis
<1>3. /\ op'.api = api /\ op'.path = path /\ op'.at = "begin" /\ op'.before = KindIn(fs, path)
  <2>1. Kind(path) = KindIn(fs, path)
    BY KindIs
  <2>2. QED
    BY <1>1, <2>1 DEF NoOp
<1>4. path \in Nodes
  BY TargetsAssumption DEF Nodes
<1>5. Seen
  BY <1>1, <1>2, <1>3, <1>4, Zenon DEF Seen, Called
<1>6. Tree'
  BY <1>1, SameFiles
<1>7. KindIn(fs', op'.path) = op'.before
  BY <1>1, <1>3, Zenon
<1>8. /\ Role(op', current') /\ Placed(op', cmds', data') /\ Told(op', replies', KindIn(fs', op'.path))
      /\ Made(op', replies', KindIn(fs', op'.path))
      /\ Moved(op', replies', data', xfer', KindIn(fs', op'.path))
  BY <1>3, <1>7, FreshIsTrue, Zenon
<1>9. ~fault' => KindIn(fs', cwd') = "dir"
  BY <1>1, Zenon DEF SInv, Truths
<1>10. QED
  BY <1>5, <1>6, <1>8, <1>9, Zenon DEF Good, Roles, Truths

LEMMA ConnectGood ==
  ASSUME SInv, NEW user, NEW pass, Connect(user, pass)
  PROVE  Good
<1>1. /\ op = NoOp /\ fs' = fs /\ cwd' = <<>> /\ answer' = answer
      /\ op' = [NoOp EXCEPT !.api = "connect", !.at = "greeting", !.user = user, !.pass = pass]
  BY DEF Connect
<1>2. op.api \notin Apis /\ op'.api = "connect" /\ op'.api \notin Apis /\ op'.at = "greeting"
  BY <1>1 DEF NoOp, Apis
<1>3. op'.at \in Logging \cup {"begin"} /\ op'.at # "begin"
  BY <1>2 DEF Logging
<1>4. Seen
  BY <1>1, <1>2, Zenon DEF Seen, Outside
<1>5. Tree'
  BY <1>1, SameFiles
<1>6. /\ Role(op', current') /\ Placed(op', cmds', data') /\ Told(op', replies', KindIn(fs', op'.path))
      /\ Made(op', replies', KindIn(fs', op'.path))
      /\ Moved(op', replies', data', xfer', KindIn(fs', op'.path))
  BY <1>2, <1>3, FreshIsTrue, Zenon
<1>7. KindIn(fs', cwd') = "dir"
  BY <1>1, Zenon DEF KindIn
<1>8. QED
  BY <1>4, <1>5, <1>6, <1>7, Zenon DEF Good, Roles, Truths

\* connect goes on with the next of its commands, or ends.
LEMMA LoginGood ==
  ASSUME SInv, NEW x, Heeds(x), op.at \in Logging, NEW user, NEW pass, Login(x, user, pass)
  PROVE  Good
<1>1. PICK at \in {"USER", "PASS", "FEAT"}, verb \in Verbs : Ask(x, at, verb, "")
  BY DEF Login, Verbs
<1>2. op \in Ops /\ op.api = "connect" /\ op.at \notin {"create", "remove"}
  BY DEF SInv, Inv, Types, CallTypes, Roles, Role, Logging
<1>3. op'.at = at /\ SameCall
  BY <1>1, <1>2 DEF Ask, Ops, SameCall
<1>4. op'.at \in Logging \cup {"begin"} /\ op'.at \notin {"idle", "begin", "leave"} \cup Transferring
  BY <1>3 DEF Logging, Transferring
<1>5. Role(op', current') /\ Placed(op', cmds', data')
  BY <1>2, <1>3, <1>4, FreshIsTrue, Zenon DEF SameCall
<1>6. /\ up /\ fs' = fs /\ cwd' = cwd /\ (~fault' => ~fault /\ replies' = <<>>)
  BY DEF Heeds
<1>7. QED
  BY <1>2, <1>3, <1>4, <1>5, <1>6, OnGood, Zenon

LEMMA ConnectEndsGood ==
  ASSUME SInv, op.at \in Logging, NEW x, NEW a \in Replyable, Return(x, a), fs' = fs,
         up' /\ ~fault' => KindIn(fs, cwd') = "dir"
  PROVE  Good
<1>1. op.at # "idle"
  BY DEF Logging
<1>2. up /\ op.api = "connect"
  BY <1>1, Zenon DEF SInv, Inv, Down, Roles, Role
<1>3. op.api \notin Apis /\ op.api \in Apis \cup {"connect"}
  BY <1>2 DEF Apis
<1>4. QED
  BY <1>2, <1>3, EndsGood, Zenon

LEMMA ConnectingGood ==
  ASSUME SInv, Connecting
  PROVE  Good
<1>1. PICK x \in Receipts, a \in Replyable :
        /\ Note(x, FALSE)
        /\ \/ Stay(x) /\ \/ \E user, pass : Login(x, user, pass)
                         \/ Return(x, a)
           \/ (\E y : Return(y, a)) /\ up' = FALSE
  <2>1. "error" \in Replyable /\ "ok" \in Replyable
    BY DEF Replyable
  <2>2. CASE HearGreeting
    <3>1. PICK x \in Receipts : /\ Stay(x) /\ Note(x, FALSE)
                                /\ Login(x, op.user, op.pass) \/ Return(x, "error")
      BY <2>2, Zenon DEF HearGreeting
    <3>2. CASE Login(x, op.user, op.pass)
      BY <2>1, <3>1, <3>2, Zenon
    <3>3. CASE Return(x, "error")
      BY <2>1, <3>1, <3>3, Zenon
    <3>4. QED
      BY <3>1, <3>2, <3>3, Zenon
  <2>3. CASE HearUser
    <3>1. PICK x \in Receipts : /\ Note(x, FALSE)
                                /\ \/ Stay(x) /\ Login(x, FALSE, op.pass)
                                   \/ Disconnect(x)
      BY <2>3, Zenon DEF HearUser
    <3>2. CASE Stay(x) /\ Login(x, FALSE, op.pass)
      BY <2>1, <3>1, <3>2, Zenon
    <3>3. CASE Disconnect(x)
      BY <2>1, <3>1, <3>3, Zenon DEF Disconnect
    <3>4. QED
      BY <3>1, <3>2, <3>3, Zenon
  <2>4. CASE HearPass
    BY <2>1, <2>4, Zenon DEF HearPass, Disconnect
  <2>5. CASE HearFeat
    BY <2>1, <2>5, Zenon DEF HearFeat
  <2>6. QED
    BY <2>2, <2>3, <2>4, <2>5 DEF Connecting
<1>2. op.at \in Logging /\ fs' = fs
  BY DEF Connecting, HearGreeting, HearUser, HearPass, HearFeat, Logging
<1>3. op.at \in Asking
  BY <1>2 DEF Logging, Asking
<1>4. ASSUME Stay(x)
      PROVE  Heeds(x)
  <2>1. ~fault' => ~fault /\ ~x.dead
    BY <1>1, Zenon DEF Note
  <2>2. replies' = x.replies /\ cwd' = cwd
    BY <1>4 DEF Stay
  <2>3. QED
    BY <1>2, <1>3, <2>1, <2>2, HeardHeeds, Zenon
<1>5. CASE Stay(x) /\ \E user, pass : Login(x, user, pass)
  BY <1>2, <1>4, <1>5, LoginGood, Zenon
<1>6. CASE Stay(x) /\ Return(x, a)
  BY <1>2, <1>4, <1>6, StillHome, ConnectEndsGood, Zenon
<1>7. CASE (\E y : Return(y, a)) /\ up' = FALSE
  BY <1>2, <1>7, ConnectEndsGood, Zenon
<1>8. QED
  BY <1>1, <1>5, <1>6, <1>7, Zenon

-----------------------------------------------------------------------------
(* What a reply of the server to command c says of p, the path that c      *)
(* names, which is of kind k.                                              *)

Refusal(r) == r.reply.code \in {421, 550} /\ r.fs = fs
Courtesy(c, r) == c.verb \in {"USER", "PASS", "FEAT", "PASV"} /\ r.fs = fs
Entry(dir, c, r, p, k) ==
  /\ c.verb = "CWD" /\ r.fs = fs
  /\ \/ c.name = ".." /\ r.cwd = Parent(dir)
     \/ c.name # ".." /\ r.cwd = p /\ k = "dir"
FactTold(c, r, k) ==
  /\ c.verb = "MLST" /\ r.fs = fs /\ k # "none"
  /\ r.reply.fact # "none" => (r.reply.fact = "dir" <=> k = "dir")
SizeTold(c, r, k) == c.verb = "SIZE" /\ r.fs = fs /\ k \in {"file", "cut"}
Making(dir, c, r, p, k) ==
  /\ c.verb = "MKD" /\ r.reply.code = 257 /\ p \in Paths /\ KindIn(fs, dir) = "dir" /\ k = "none"
  /\ r.fs = Put(p, "dir")
Removal(c, r, p, k) ==
  /\ c.verb \in {"DELE", "RMD"} /\ r.reply.code = 250 /\ p \in Paths /\ (k = "dir" => Children(p) = {})
  /\ r.fs = Put(p, "none")
Sending(c, r, k) ==
  /\ c.verb \in {"LIST", "RETR"} /\ r.fs = fs /\ r.xfer.verb = c.verb
  /\ r.reply.code \in Openings
  /\ c.verb = "RETR" => k \in {"file", "cut"}
Storing(dir, c, r, p, k) ==
  /\ c.verb = "STOR" /\ p \in Paths /\ KindIn(fs, dir) = "dir" /\ k # "dir"
  /\ r.fs = Put(p, "cut") /\ r.xfer.verb = "STOR" /\ r.xfer.path = p
  /\ r.reply.code \in Openings

Effect(dir, c, r, p, k) ==
  \/ Refusal(r) \/ Courtesy(c, r) \/ Entry(dir, c, r, p, k) \/ FactTold(c, r, k) \/ SizeTold(c, r, k)
  \/ Making(dir, c, r, p, k) \/ Removal(c, r, p, k) \/ Sending(c, r, k) \/ Storing(dir, c, r, p, k)

LEMMA CarriedOutcome ==
  ASSUME NEW dir \in Nodes, NEW c \in Commands, Possible(dir, c), NEW r \in Carried(dir, c),
         NEW p, p = Append(dir, c.name), NEW k, k = KindIn(fs, p)
  PROVE  Effect(dir, c, r, p, k)
<1>1. Kind(p) = k /\ Kind(dir) = KindIn(fs, dir)
  BY KindIs
<1>2. CASE c.verb \in {"USER", "PASS", "FEAT", "PASV"}
  <2>1. \/ \E code \in {230, 331, 211} : r = Says(code, "", dir)
        \/ \E f \in {"endpoint", "garbage"} : r = Says(227, f, dir)
    BY <1>2 DEF Carried
  <2>2. ASSUME NEW code, NEW f, r = Says(code, f, dir)
        PROVE  r.fs = fs
    BY <2>2 DEF Says, Result
  <2>3. r.fs = fs
    <3>1. CASE \E code \in {230, 331, 211} : r = Says(code, "", dir)
      <4>1. PICK code \in {230, 331, 211} : r = Says(code, "", dir)
        BY <3>1
      <4>2. QED
        BY <4>1 DEF Says, Result
    <3>2. CASE \E f \in {"endpoint", "garbage"} : r = Says(227, f, dir)
      BY <2>2, <3>2, Zenon
    <3>3. QED
      BY <2>1, <3>1, <3>2, Zenon
  <2>4. QED
    BY <1>2, <2>3, Zenon DEF Effect, Courtesy
<1>3. CASE c.verb = "CWD"
  <2>1. r = Says(250, "", IF c.name = ".." THEN Parent(dir) ELSE p)
    BY <1>3 DEF Carried
  <2>2. r.fs = fs /\ r.cwd = IF c.name = ".." THEN Parent(dir) ELSE p
    BY <2>1 DEF Says, Result
  <2>3. c.name = ".." \/ k = "dir"
    BY <1>1, <1>3 DEF Possible
  <2>4. Entry(dir, c, r, p, k)
    BY <1>3, <2>2, <2>3, Zenon DEF Entry
  <2>5. QED
    BY <2>4 DEF Effect
<1>4. CASE c.verb = "MLST"
  <2>1. \E f \in {IF k = "dir" THEN "dir" ELSE "file", "none"} : r = Says(250, f, dir)
    BY <1>1, <1>4 DEF Carried
  <2>2. PICK f \in {IF k = "dir" THEN "dir" ELSE "file", "none"} : r = Says(250, f, dir)
    BY <2>1
  <2>3. r.fs = fs /\ r.reply.fact = f
    BY <2>2 DEF Says, Result
  <2>4. k # "none"
    BY <1>1, <1>4 DEF Possible
  <2>5. f # "none" => (f = "dir" <=> k = "dir")
    OBVIOUS
  <2>6. FactTold(c, r, k)
    BY <1>4, <2>3, <2>4, <2>5, Zenon DEF FactTold
  <2>7. QED
    BY <2>6 DEF Effect
<1>5. CASE c.verb = "SIZE"
  <2>1. r = Says(213, "", dir)
    BY <1>5 DEF Carried
  <2>2. r.fs = fs
    BY <2>1 DEF Says, Result
  <2>3. k \in {"file", "cut"}
    BY <1>1, <1>5 DEF Possible
  <2>4. QED
    BY <1>5, <2>2, <2>3, Zenon DEF Effect, SizeTold
<1>6. CASE c.verb = "MKD"
  <2>1. r = Result(257, "", dir, Put(p, "dir"), NoXfer)
    BY <1>6 DEF Carried
  <2>2. r.fs = Put(p, "dir") /\ r.reply.code = 257
    BY <2>1 DEF Result
  <2>3. p \in Paths /\ KindIn(fs, dir) = "dir" /\ k = "none"
    BY <1>1, <1>6 DEF Possible
  <2>4. QED
    BY <1>6, <2>2, <2>3, Zenon DEF Effect, Making
<1>7. CASE c.verb \in {"DELE", "RMD"}
  <2>1. r = Result(250, "", dir, Put(p, "none"), NoXfer)
    BY <1>7 DEF Carried
  <2>2. r.fs = Put(p, "none") /\ r.reply.code = 250
    BY <2>1 DEF Result
  <2>3. p \in Paths /\ (k = "dir" => Children(p) = {})
    <3>1. CASE c.verb = "RMD"
      BY <1>1, <3>1 DEF Possible
    <3>2. CASE c.verb = "DELE"
      <4>1. k \in {"file", "cut"}
        BY <1>1, <3>2 DEF Possible
      <4>2. p # <<>> /\ k # "none" /\ k # "dir"
        BY <4>1 DEF KindIn
      <4>3. p \in Nodes
        BY <4>2, KindOnTree, Zenon
      <4>4. QED
        BY <4>2, <4>3, Zenon DEF Nodes
    <3>3. QED
      BY <1>7, <3>1, <3>2
  <2>4. QED
    BY <1>7, <2>2, <2>3, Zenon DEF Effect, Removal
<1>8. CASE c.verb \in {"LIST", "RETR"}
  <2>1. PICK code \in Openings : r = Result(code, "", dir, fs, [verb |-> c.verb, path |-> p])
    BY <1>8 DEF Carried, Openings
  <2>2. r.fs = fs /\ r.reply.code = code /\ r.xfer.verb = c.verb
    BY <2>1 DEF Result
  <2>3. c.verb = "RETR" => k \in {"file", "cut"}
    BY <1>1 DEF Possible
  <2>4. QED
    BY <1>8, <2>2, <2>3, Zenon DEF Effect, Sending
<1>9. CASE c.verb = "STOR"
  <2>1. PICK code \in Openings : r = Result(code, "", dir, Put(p, "cut"), [verb |-> "STOR", path |-> p])
    BY <1>9 DEF Carried, Openings
  <2>2. r.fs = Put(p, "cut") /\ r.reply.code = code /\ r.xfer.verb = "STOR" /\ r.xfer.path = p
    BY <2>1 DEF Result
  <2>3. p \in Paths /\ KindIn(fs, dir) = "dir" /\ k # "dir"
    BY <1>1, <1>9 DEF Possible
  <2>4. QED
    BY <1>9, <2>2, <2>3, Zenon DEF Effect, Storing
<1>10. QED
  <2>1. c.verb \in {"USER", "PASS", "FEAT", "CWD", "MLST", "SIZE", "MKD", "DELE", "RMD", "PASV",
                    "LIST", "RETR", "STOR"}
    BY DEF Commands, Verbs, TransferVerbs
  <2>2. QED
    BY <1>2, <1>3, <1>4, <1>5, <1>6, <1>7, <1>8, <1>9, <2>1

LEMMA Outcome ==
  ASSUME NEW dir \in Nodes, NEW c \in Commands, NEW r \in Results(dir, c),
         NEW p, p = Append(dir, c.name), NEW k, k = KindIn(fs, p)
  PROVE  Effect(dir, c, r, p, k)
<1>1. \/ \E code \in {421, 550} : r = Says(code, "", dir)
      \/ Possible(dir, c) /\ r \in Carried(dir, c)
  BY DEF Results
<1>2. ASSUME NEW code \in {421, 550}, r = Says(code, "", dir)
      PROVE  Refusal(r)
  <2>1. r.reply.code = code /\ r.fs = fs
    BY <1>2 DEF Says, Result
  <2>2. QED
    BY <2>1 DEF Refusal
<1>3. CASE Possible(dir, c) /\ r \in Carried(dir, c)
  BY <1>3, CarriedOutcome, Zenon
<1>4. QED
  BY <1>1, <1>2, <1>3, Zenon DEF Effect

\* Whatever the server does, the files stay a tree.
LEMMA AppendIn ==
  ASSUME NEW dir \in Nodes, NEW c \in Commands
  PROVE  Parent(Append(dir, c.name)) = dir
<1> DEFINE S == Steps \cup {""}
<1>1. dir \in Seq(Names) /\ Names \subseteq S /\ c.name \in S
  BY NodeLen DEF Steps, Commands
<1> HIDE DEF S
<1>2. dir \in Seq(S)
  BY <1>1, SeqMonotonic
<1>3. QED
  BY <1>1, <1>2, ParentAppend

LEMMA EffectTree ==
  ASSUME fs \in [Paths -> Kinds], Tree, NEW dir \in Nodes, NEW c \in Commands, NEW r,
         NEW p, p = Append(dir, c.name), NEW k, k = KindIn(fs, p), Effect(dir, c, r, p, k)
  PROVE  TreeOf(r.fs)
<1>1. Parent(p) = dir
  BY AppendIn
<1>2. CASE r.fs = fs
  BY <1>2 DEF Tree
<1>3. CASE Making(dir, c, r, p, k)
  <2>1. PICK new \in Kinds : new = "dir"
    BY DEF Kinds
  <2>2. p \in Paths /\ KindIn(fs, Parent(p)) = "dir" /\ r.fs = Put(p, new)
    BY <1>1, <1>3, <2>1 DEF Making
  <2>3. QED
    BY <2>1, <2>2, PutTree, Zenon
<1>4. CASE Removal(c, r, p, k)
  <2>1. PICK new \in Kinds : new = "none" /\ new # "dir"
    BY DEF Kinds
  <2>2. p \in Paths /\ r.fs = Put(p, new) /\ (k = "dir" => Children(p) = {})
    BY <1>4, <2>1 DEF Removal
  <2>3. \A q \in Paths : Parent(q) = p => fs[q] = "none"
    BY <2>2, ChildrenIn, NothingIn, Zenon
  <2>4. QED
    BY <2>1, <2>2, <2>3, PutTree, Zenon
<1>5. CASE Storing(dir, c, r, p, k)
  <2>1. PICK new \in Kinds : new = "cut"
    BY DEF Kinds
  <2>2. p \in Paths /\ r.fs = Put(p, new) /\ KindIn(fs, Parent(p)) = "dir" /\ k # "dir"
    BY <1>1, <1>5, <2>1 DEF Storing
  <2>3. \A q \in Paths : Parent(q) = p => fs[q] = "none"
    BY <2>2, NothingIn, Zenon
  <2>4. QED
    BY <2>2, <2>3, PutTree, Zenon
<1>6. QED
  BY <1>2, <1>3, <1>4, <1>5, Zenon
     DEF Effect, Refusal, Courtesy, Entry, FactTold, SizeTold, Sending

-----------------------------------------------------------------------------
(* The steps of the server.                                                *)

\* The command that a call waits at names its path, unless it names nothing at all.
LEMMA Aim ==
  ASSUME NEW path \in Nodes, NEW p, p = Append(Parent(path), FileName(path)), NEW k, k = KindIn(fs, p)
  PROVE  /\ p \in Paths \/ k # "none" => path = p /\ path # <<>>
         /\ path # <<>> => path = p
<1>1. CASE path = <<>>
  <2>1. p = Append(<<>>, "") /\ <<>> \in Nodes
    BY <1>1, Zenon DEF Parent, FileName
  <2>2. p \notin Nodes
    BY <2>1, NoSuchPath, Zenon
  <2>3. QED
    BY <1>1, <2>2, KindOnTree, Zenon DEF Nodes
<1>2. CASE path # <<>>
  <2>1. path \in Paths
    BY <1>2, Zenon DEF Nodes
  <2>2. p = path
    BY <2>1, PathForms, Zenon
  <2>3. QED
    BY <1>2, <2>2, Zenon
<1>3. QED
  BY <1>1, <1>2

\* What one reply tells.
LEMMA OneReply ==
  ASSUME NEW e, NEW rs, rs = <<e>>
  PROVE  /\ \A code : Tells(rs, code) <=> e.code = code
         /\ Announced(rs) <=> e.code \in Openings
         /\ Over(rs) => e.code = 226
         /\ rs[1] = e
<1>1. rs # <<>> /\ rs[1] = e /\ DOMAIN rs = {1}
  BY Single
<1>2. Over(rs) => e.code = 226
  BY <1>1 DEF Over
<1>3. QED
  BY <1>1, <1>2, Zenon DEF Tells, Announced

\* The server takes the one command there is and replies to it.
Exchange(c, r) ==
  /\ up /\ ~fault /\ op.at \in Asking \cup {"opening"}
  /\ c \in Commands /\ c.verb \in AwaitedVerbs(op.at) /\ cmds = <<c>> /\ replies = <<>>
  /\ r \in Results(cwd, c)
  /\ cmds' = <<>> /\ replies' = <<r.reply>> /\ fs' = r.fs /\ cwd' = r.cwd /\ xfer' = r.xfer
  /\ op' = op /\ data' = data /\ answer' = answer /\ current' = current

\* What there is to show of an exchange.
Holds(rs, x, k) == Told(op, rs, k) /\ Made(op, rs, k) /\ Moved(op, rs, data, x, k) /\ Seen

\* The path that the command names.
Aimed(c) ==
  /\ cwd \in Nodes /\ op.path \in Nodes
  /\ op.at \in Naming /\ op.api # "list" =>
       /\ c.name = FileName(op.path) /\ cwd = Parent(op.path)

LEMMA ExchangeAimed ==
  ASSUME SInv, NEW c, NEW r, Exchange(c, r)
  PROVE  Aimed(c)
<1>1. Types /\ Truths /\ Whereabouts
  BY Zenon DEF SInv, Inv, Exchange
<1>2. cwd \in Nodes /\ op.path \in Nodes
  BY <1>1 DEF Types, ServerTypes, CallTypes, Ops
<1>3. cmds # <<>> /\ cmds[1] = c
  BY Single, Zenon DEF Exchange
<1>4. ASSUME op.at \in Naming, op.api # "list"
      PROVE  c.name = FileName(op.path) /\ cwd = Parent(op.path)
  <2>1. c.name = FileName(op.path)
    BY <1>1, <1>3, <1>4, Zenon DEF Truths, Placed, NameOf
  <2>2. op.at \in Local /\ op.at \notin {"CWD", "leave"}
    BY <1>4 DEF Naming, Local, Probing, Fetching
  <2>3. cwd = current
    BY <1>1, <1>3, <2>2, Zenon DEF Whereabouts
  <2>4. current = Place(op)
    BY <2>2, Zenon DEF SInv, Roles, Role
  <2>5. QED
    BY <1>4, <2>1, <2>3, <2>4, Zenon DEF Place
<1>5. QED
  BY <1>2, <1>4, Zenon DEF Aimed

\* An exchange that changes no files and announces nothing.
LEMMA QuietExchange ==
  ASSUME SInv, NEW c, NEW r, Exchange(c, r), r.fs = fs, NEW k, k = KindIn(fs, op.path),
         Told(op, replies', k), op.at = "opening" => r.reply.code \notin Openings,
         op.at = "create" => r.reply.code # 257, op.at = "remove" => r.reply.code # 250
  PROVE  Holds(replies', xfer', k)
<1>1. Truths /\ op' = op /\ answer' = answer /\ fs' = fs /\ replies' = <<r.reply>> /\ replies = <<>>
  BY Zenon DEF SInv, Exchange
<1>2. Seen
  BY <1>1, Zenon DEF Seen, Unseen
<1>3. Made(op, replies', k)
  <2>1. Made(op, replies, k)
    BY <1>1, Zenon DEF Truths
  <2>2. ~Tells(replies, 257) /\ ~Tells(replies, 250)
    BY <1>1, Zenon DEF Tells
  <2>3. op.api \in Makers => k = op.before
    BY <2>1, <2>2, Zenon DEF Made
  <2>4. ~(op.at = "create" /\ Tells(replies', 257)) /\ ~(op.at = "remove" /\ Tells(replies', 250))
    BY <1>1, OneReply
  <2>5. QED
    BY <2>3, <2>4, Zenon DEF Made
<1>4. Moved(op, replies', data, xfer', k)
  <2>1. op.at \notin Transferring /\ op.at # "completion"
    BY DEF Exchange, Asking, Transferring
  <2>2. ~Begun(op, replies')
    BY <1>1, <2>1, OneReply DEF Begun
  <2>3. QED
    BY <2>1, <2>2, Zenon DEF Moved
<1>5. QED
  BY <1>2, <1>3, <1>4 DEF Holds

\* A refusal tells nothing.
LEMMA RefusalHolds ==
  ASSUME SInv, NEW c, NEW r, Exchange(c, r), Refusal(r), NEW k, k = KindIn(fs, op.path)
  PROVE  Holds(replies', xfer', k)
<1>1. /\ r.reply.code # 250 /\ r.reply.code # 257 /\ r.reply.code # 213 /\ r.reply.code \notin Openings
      /\ r.fs = fs
  BY DEF Refusal, Openings
<1>2. Truths /\ replies' = <<r.reply>>
  BY Zenon DEF SInv, Exchange
<1>3. ~Tells(replies', 250) /\ ~Tells(replies', 213)
  BY <1>1, <1>2, OneReply
<1>4. Told(op, replies', k)
  BY <1>2, <1>3, Zenon DEF Truths, Told
<1>5. /\ op.at = "opening" => r.reply.code \notin Openings
      /\ op.at = "create" => r.reply.code # 257
      /\ op.at = "remove" => r.reply.code # 250
  BY <1>1
<1>6. r.fs = fs
  BY <1>1
<1>7. QED
  BY <1>4, <1>5, <1>6, QuietExchange, Zenon

\* Logging in, changing directory, PASV, and leaving a directory that was a probe.
LEMMA ElsewhereHolds ==
  ASSUME SInv, NEW c, NEW r, Exchange(c, r), r.fs = fs, NEW k, k = KindIn(fs, op.path),
         op.at \in Logging \cup {"CWD", "PASV", "leave"}
  PROVE  Holds(replies', xfer', k)
<1>1. op.at \notin {"MLST", "SIZE", "enter", "create", "remove", "opening"}
  BY DEF Logging
<1>2. Truths
  BY Zenon DEF SInv, Exchange
<1>3. Told(op, replies', k)
  BY <1>1, <1>2 DEF Truths, Told
<1>4. QED
  BY <1>1, <1>3, QuietExchange, Zenon

\* The probes.
LEMMA ProbeHolds ==
  ASSUME SInv, NEW c, NEW r, Exchange(c, r), NEW k, k = KindIn(fs, op.path),
         op.at \in {"MLST", "SIZE", "enter"}, Effect(cwd, c, r, op.path, k)
  PROVE  Holds(replies', xfer', k)
<1>1. CASE Refusal(r)
  BY <1>1, RefusalHolds
<1>2. replies' = <<r.reply>> /\ op.at \notin {"leave", "create", "remove", "opening"}
  BY DEF Exchange
<1>3. /\ op.at = "MLST" => c.verb = "MLST"
      /\ op.at = "SIZE" => c.verb = "SIZE"
      /\ op.at = "enter" => c.verb = "CWD" /\ c.name # ".."
  <2>1. /\ op.at = "MLST" => c.verb = "MLST"
        /\ op.at = "SIZE" => c.verb = "SIZE"
        /\ op.at = "enter" => c.verb = "CWD"
    BY DEF Exchange, AwaitedVerbs
  <2>2. op.at = "enter" => c.name # ".."
    <3>1. SUFFICES ASSUME op.at = "enter"
                   PROVE  c.name # ".."
      OBVIOUS
    <3>2. op.at \in Naming /\ op.at \in Probing
      BY <3>1 DEF Naming, Probing
    <3>3. op.api \in Probes
      BY <3>2, Zenon DEF SInv, Roles, Role
    <3>4. op.api # "list"
      BY <3>3 DEF Probes
    <3>5. c.name = FileName(op.path) /\ op.path \in Nodes
      BY <3>2, <3>4, ExchangeAimed, Zenon DEF Aimed
    <3>6. CallTypes
      BY DEF SInv, Inv, Types
    <3>7. FileName(op.path) \in Names \cup {""}
      BY <3>6, OpFields
    <3>8. QED
      BY <3>5, <3>7, NameIsNoStep
  <2>3. QED
    BY <2>1, <2>2
<1>4. CASE ~Refusal(r)
  <2>1. /\ op.at = "MLST" => FactTold(c, r, k)
        /\ op.at = "SIZE" => SizeTold(c, r, k)
        /\ op.at = "enter" => Entry(cwd, c, r, op.path, k) /\ k = "dir"
    BY <1>3, <1>4 DEF Effect, Courtesy, Entry, FactTold, SizeTold, Making, Removal, Sending, Storing
  <2>2. r.fs = fs
    BY <2>1 DEF FactTold, SizeTold, Entry
  <2>3. replies'[1] = r.reply
    BY <1>2, OneReply, Zenon
  <2>4. Told(op, replies', k)
    BY <1>2, <2>1, <2>3, Zenon DEF Told, FactTold, SizeTold
  <2>5. QED
    BY <1>2, <2>2, <2>4, QuietExchange, Zenon
<1>5. QED
  BY <1>1, <1>4

\* An exchange that changes the path of the call.
LEMMA ChangedSeen ==
  ASSUME SInv, NEW c, NEW r, Exchange(c, r), op.path \in Paths, NEW new \in Kinds,
         r.fs = Put(op.path, new), Allowed(new)
  PROVE  Seen /\ KindIn(fs', op.path) = new
<1>1. op' = op /\ answer' = answer /\ fs' = Put(op.path, new) /\ fs \in [Paths -> Kinds]
  BY Zenon DEF Exchange, SInv, Inv, Types, ServerTypes
<1>2. Changed(new)
  BY <1>1 DEF Changed
<1>3. Seen
  BY <1>2 DEF Seen
<1>4. KindIn(fs', op.path) = new
  BY <1>1, PutKind
<1>5. QED
  BY <1>3, <1>4

LEMMA OnPath ==
  ASSUME NEW p \in Paths
  PROVE  KindIn(fs, p) = fs[p]
<1>1. p # <<>>
  BY PathForms
<1>2. QED
  BY <1>1 DEF KindIn

\* The commands of createDir and remove.
LEMMA CreateHolds ==
  ASSUME SInv, NEW c, NEW r, Exchange(c, r), op.at = "create",
         NEW p, p = Append(cwd, c.name), NEW k, k = KindIn(fs, p), Effect(cwd, c, r, p, k)
  PROVE  Holds(replies', xfer', KindIn(fs', op.path))
<1>1. c.verb = "MKD" /\ op.at \in Naming /\ op.at \notin {"idle", "begin", "completion"} \cup Transferring
  BY DEF Exchange, AwaitedVerbs, Naming, Transferring
<1>2. op.api = "createDir"
  BY Zenon DEF SInv, Roles, Role
<1>3. op.api # "list" /\ op.api \in Namers
  BY <1>2 DEF Namers
<1>4. op.path # <<>>
  BY <1>1, <1>3, Zenon DEF SInv, Roles, Role
<1>5. Aimed(c)
  BY ExchangeAimed, Zenon
<1>6. op.path = p
  BY <1>1, <1>3, <1>4, <1>5, Aim, Zenon DEF Aimed
<1>7. CASE Refusal(r)
  <2>1. fs' = fs
    BY <1>7, Zenon DEF Refusal, Exchange
  <2>2. QED
    BY <1>7, <2>1, RefusalHolds, Zenon
<1>8. CASE Making(cwd, c, r, p, k)
  <2>1. /\ op.path \in Paths /\ r.fs = Put(op.path, "dir") /\ fs[op.path] = "none"
        /\ r.reply.code = 257
    <3>1. p \in Paths /\ r.fs = Put(p, "dir") /\ k = "none" /\ r.reply.code = 257
      BY <1>8 DEF Making
    <3>2. fs[p] = k
      BY <3>1, OnPath, Zenon
    <3>3. QED
      BY <1>6, <3>1, <3>2, Zenon
  <2>2. PICK new \in Kinds : new = "dir" /\ r.fs = Put(op.path, new)
    BY <2>1 DEF Kinds
  <2>3. Seen /\ KindIn(fs', op.path) = new
    <3>1. Allowed(new)
      BY <1>2, <2>1, <2>2 DEF Allowed
    <3>2. r.fs = Put(op.path, new) /\ op.path \in Paths
      BY <2>1, <2>2, Zenon
    <3>3. QED
      BY <3>1, <3>2, ChangedSeen, Zenon
  <2>4. replies' = <<r.reply>>
    BY DEF Exchange
  <2>5. Tells(replies', 257)
    BY <2>1, <2>4, OneReply
  <2>6. Made(op, replies', new)
    BY <2>2, <2>5 DEF Made
  <2>7. Told(op, replies', new) /\ Moved(op, replies', data, xfer', new)
    BY <1>1 DEF Told, Moved, Begun
  <2>8. QED
    BY <2>3, <2>6, <2>7, Zenon DEF Holds
<1>9. QED
  BY <1>1, <1>7, <1>8 DEF Effect, Courtesy, Entry, FactTold, SizeTold, Removal, Sending, Storing

LEMMA RemoveHolds ==
  ASSUME SInv, NEW c, NEW r, Exchange(c, r), op.at = "remove",
         NEW p, p = Append(cwd, c.name), NEW k, k = KindIn(fs, p), Effect(cwd, c, r, p, k)
  PROVE  Holds(replies', xfer', KindIn(fs', op.path))
<1>1. c.verb \in {"RMD", "DELE"} /\ op.at \in Naming /\ op.at \notin {"completion"} \cup Transferring
  BY DEF Exchange, AwaitedVerbs, Naming, Transferring
<1>2. op.api = "remove"
  BY Zenon DEF SInv, Roles, Role
<1>3. op.api # "list"
  BY <1>2
<1>4. Aimed(c)
  BY ExchangeAimed, Zenon
<1>5. p \in Paths => op.path = p
  <2>1. op.path \in Nodes /\ p = Append(Parent(op.path), FileName(op.path))
    BY <1>1, <1>3, <1>4, Zenon DEF Aimed
  <2>2. QED
    BY <2>1, Aim, Zenon
<1>6. CASE Refusal(r)
  <2>1. fs' = fs
    BY <1>6, Zenon DEF Refusal, Exchange
  <2>2. QED
    BY <1>6, <2>1, RefusalHolds, Zenon
<1>7. CASE Removal(c, r, p, k)
  <2>1. op.path = p /\ p \in Paths /\ r.fs = Put(op.path, "none") /\ r.reply.code = 250
    BY <1>5, <1>7 DEF Removal
  <2>2. Children(op.path) = {}
    <3>1. CASE k = "dir"
      BY <1>7, <2>1, <3>1, Zenon DEF Removal
    <3>2. CASE k # "dir"
      <4>1. Tree
        BY DEF SInv
      <4>2. \A q \in Paths : Parent(q) = p => fs[q] = "none"
        BY <3>2, <4>1, NothingIn, Zenon
      <4>3. Children(p) = {}
        BY <2>1, <4>2, ChildrenIn
      <4>4. QED
        BY <2>1, <4>3, Zenon
    <3>3. QED
      BY <3>1, <3>2
  <2>3. PICK new \in Kinds : new = "none" /\ r.fs = Put(op.path, new)
    BY <2>1 DEF Kinds
  <2>4. Seen /\ KindIn(fs', op.path) = new
    <3>1. Allowed(new)
      BY <1>2, <2>2, <2>3 DEF Allowed
    <3>2. r.fs = Put(op.path, new) /\ op.path \in Paths
      BY <2>1, <2>3, Zenon
    <3>3. QED
      BY <3>1, <3>2, ChangedSeen, Zenon
  <2>5. replies' = <<r.reply>>
    BY DEF Exchange
  <2>6. Tells(replies', 250) /\ op.at # "create"
    BY <2>1, <2>5, OneReply
  <2>7. Made(op, replies', new)
    BY <2>3, <2>6 DEF Made
  <2>8. Told(op, replies', new) /\ Moved(op, replies', data, xfer', new)
    BY <1>1 DEF Told, Moved, Begun
  <2>9. QED
    BY <2>4, <2>7, <2>8, Zenon DEF Holds
<1>8. QED
  BY <1>1, <1>6, <1>7 DEF Effect, Courtesy, Entry, FactTold, SizeTold, Making, Sending, Storing

\* The command of a transfer.
LEMMA OpenHolds ==
  ASSUME SInv, NEW c, NEW r, Exchange(c, r), op.at = "opening",
         NEW p, p = Append(cwd, c.name), NEW k, k = KindIn(fs, p), Effect(cwd, c, r, p, k)
  PROVE  Holds(replies', xfer', KindIn(fs', op.path))
<1>1. /\ c.verb \in {"LIST", "RETR", "STOR"} /\ op.at \in Naming /\ op.at \in Fetching
      /\ op.at # "completion" /\ op.at \notin {"MLST", "SIZE", "enter", "leave"}
  BY DEF Exchange, AwaitedVerbs, TransferVerbs, Naming, Fetching
<1>2. op.api \in TransferApis /\ op.api \notin Makers
  BY <1>1, AtTransfer, Zenon
<1>3. c.verb = VerbOf(op) /\ data \in {"open", "stray"}
  <2>1. cmds # <<>> /\ cmds[1] = c
    BY Single, Zenon DEF Exchange
  <2>2. Truths
    BY Zenon DEF SInv, Exchange
  <2>3. QED
    BY <2>1, <2>2, Zenon DEF Truths, Placed
<1>4. /\ op.api = "list" <=> c.verb = "LIST"
      /\ op.api = "read" <=> c.verb = "RETR"
      /\ op.api = "write" <=> c.verb = "STOR"
  BY <1>1, <1>2, <1>3 DEF VerbOf, TransferApis
<1>5. Aimed(c)
  BY ExchangeAimed, Zenon
<1>6. op.api # "list" /\ (p \in Paths \/ k # "none") => op.path = p
  BY <1>1, <1>5, Aim, Zenon DEF Aimed
<1>7. replies' = <<r.reply>> /\ xfer' = r.xfer /\ fs' = r.fs /\ op' = op /\ answer' = answer
  BY DEF Exchange
<1>8. \A kind : Told(op, replies', kind) /\ Made(op, replies', kind)
  BY <1>1, <1>2, Zenon DEF Told, Made
<1>9. r.reply.code \in Openings => Announced(replies') /\ ~Over(replies')
  <2>1. SUFFICES ASSUME r.reply.code \in Openings
                 PROVE  Announced(replies') /\ ~Over(replies')
    OBVIOUS
  <2>2. r.reply.code # 226
    BY <2>1 DEF Openings
  <2>3. QED
    BY <1>7, <2>1, <2>2, OneReply
<1>10. CASE Refusal(r)
  <2>1. fs' = fs
    BY <1>10, Zenon DEF Refusal, Exchange
  <2>2. QED
    BY <1>10, <2>1, RefusalHolds, Zenon
<1>11. CASE Sending(c, r, k)
  <2>1. /\ c.verb \in {"LIST", "RETR"} /\ r.fs = fs /\ r.xfer.verb = c.verb
        /\ r.reply.code \in Openings /\ (c.verb = "RETR" => k \in {"file", "cut"})
    BY <1>11 DEF Sending
  <2>2. PICK j : j = KindIn(fs', op.path)
    OBVIOUS
  <2>3. op.api # "write"
    BY <1>4, <2>1
  <2>4. op.api = "read" => j \in {"file", "cut"}
    <3>1. SUFFICES ASSUME op.api = "read"
                   PROVE  j \in {"file", "cut"}
      OBVIOUS
    <3>2. k \in {"file", "cut"} /\ op.api # "list"
      BY <1>4, <2>1, <3>1
    <3>3. k # "none"
      BY <3>2
    <3>4. j = k
      BY <1>6, <1>7, <2>1, <2>2, <3>2, <3>3, Zenon
    <3>5. QED
      BY <3>2, <3>4, Zenon
  <2>5. data = "stray" \/ data = "open"
    BY <1>3
  <2>6. Running(op, data, xfer', j)
    BY <1>1, <1>3, <1>7, <2>1, <2>3, <2>5, Zenon DEF Running
  <2>7. Moved(op, replies', data, xfer', j)
    BY <1>1, <1>9, <2>1, <2>4, <2>6, Zenon DEF Moved
  <2>8. Seen
    BY <1>7, <2>1, Zenon DEF Seen, Unseen
  <2>9. QED
    BY <1>8, <2>2, <2>7, <2>8, Zenon DEF Holds
<1>12. CASE Storing(cwd, c, r, p, k)
  <2>1. /\ c.verb = "STOR" /\ p \in Paths /\ k # "dir" /\ r.fs = Put(p, "cut")
        /\ r.xfer.verb = "STOR" /\ r.xfer.path = p /\ r.reply.code \in Openings
    BY <1>12 DEF Storing
  <2>2. op.api = "write" /\ op.api # "read" /\ op.api # "list"
    BY <1>4, <2>1
  <2>3. op.path = p
    BY <1>6, <2>1, <2>2, Zenon
  <2>4. fs[op.path] # "dir"
    BY <2>1, <2>3, OnPath, Zenon
  <2>5. PICK new \in Kinds : new = "cut" /\ new \in {"file", "cut"}
    BY DEF Kinds
  <2>6. Seen /\ KindIn(fs', op.path) = new
    <3>1. Allowed(new)
      BY <2>2, <2>4, <2>5 DEF Allowed
    <3>2. r.fs = Put(op.path, new) /\ op.path \in Paths
      BY <2>1, <2>3, <2>5, Zenon
    <3>3. QED
      BY <3>1, <3>2, ChangedSeen, Zenon
  <2>7. data \in {"open", "stray", "whole"}
    BY <1>3
  <2>8. Running(op, data, xfer', new)
    BY <1>3, <1>7, <2>1, <2>2, <2>3, <2>5, <2>7, Zenon DEF Running
  <2>9. Moved(op, replies', data, xfer', new)
    BY <1>1, <1>9, <2>1, <2>2, <2>8, Zenon DEF Moved
  <2>10. QED
    BY <1>8, <2>6, <2>9, Zenon DEF Holds
<1>13. QED
  BY <1>1, <1>10, <1>11, <1>12 DEF Effect, Courtesy, Entry, FactTold, SizeTold, Making, Removal

\* The session's directory exists after the exchange.
LEMMA ServeHome ==
  ASSUME SInv, NEW c, NEW r, Exchange(c, r), Fits(cwd, c, r),
         NEW p, p = Append(cwd, c.name), NEW k, k = KindIn(fs, p), Effect(cwd, c, r, p, k)
  PROVE  KindIn(fs', cwd') = "dir"
<1>1. fs' = r.fs /\ cwd' = r.cwd /\ c \in Commands
  BY DEF Exchange
<1>2. Tree /\ fs \in [Paths -> Kinds] /\ cwd \in Nodes /\ KindIn(fs, cwd) = "dir"
  BY Zenon DEF SInv, Inv, Types, ServerTypes, Truths, Exchange
<1>3. ~(c.verb = "CWD" /\ r.reply.code = 250) => r.cwd = cwd
  BY Zenon DEF Fits
<1>4. CASE r.fs = fs /\ r.cwd = cwd
  BY <1>1, <1>2, <1>4, Zenon
<1>5. CASE Entry(cwd, c, r, p, k)
  <2>1. CASE r.cwd = Parent(cwd)
    <3>1. CASE cwd = <<>>
      BY <1>1, <1>2, <1>5, <2>1, <3>1, Zenon DEF Parent, Entry
    <3>2. CASE cwd # <<>>
      <4>1. cwd \in Paths
        BY <1>2, <3>2, Zenon DEF Nodes
      <4>2. fs[cwd] # "none"
        BY <1>2, <4>1, OnPath
      <4>3. KindIn(fs, Parent(cwd)) = "dir"
        BY <1>2, <4>1, <4>2, Zenon DEF Tree, TreeOf
      <4>4. QED
        BY <1>1, <1>5, <2>1, <4>3, Zenon DEF Entry
    <3>3. QED
      BY <3>1, <3>2
  <2>2. CASE r.cwd = p /\ k = "dir"
    BY <1>1, <1>5, <2>2, Zenon DEF Entry
  <2>3. QED
    BY <1>5, <2>1, <2>2, Zenon DEF Entry
<1>6. ASSUME p \in Paths, NEW new \in Kinds, r.fs = Put(p, new), r.cwd = cwd
      PROVE  KindIn(fs', cwd') = "dir"
  <2>1. Parent(p) = cwd
    BY <1>1, <1>2, AppendIn
  <2>2. cwd # p
    BY <1>6, <2>1, PathForms
  <2>3. KindIn(Put(p, new), cwd) = KindIn(fs, cwd)
    BY <1>2, <1>6, <2>2, PutKind
  <2>4. QED
    BY <1>1, <1>2, <1>6, <2>3, Zenon
<1>7. CASE Refusal(r)
  <2>1. r.fs = fs /\ r.reply.code # 250
    BY <1>7 DEF Refusal
  <2>2. QED
    BY <1>3, <1>4, <2>1, Zenon
<1>8. CASE c.verb # "CWD"
  <2>1. r.cwd = cwd
    BY <1>3, <1>8
  <2>2. "dir" \in Kinds /\ "none" \in Kinds /\ "cut" \in Kinds
    BY DEF Kinds
  <2>3. \/ r.fs = fs
        \/ p \in Paths /\ \E new \in Kinds : r.fs = Put(p, new)
    BY <1>7, <1>8, <2>2, Zenon
       DEF Effect, Refusal, Courtesy, Entry, FactTold, SizeTold, Making, Removal, Sending, Storing
  <2>4. QED
    BY <1>4, <1>6, <2>1, <2>3, Zenon
<1>9. CASE c.verb = "CWD"
  <2>1. Refusal(r) \/ Entry(cwd, c, r, p, k)
    BY <1>9 DEF Effect, Courtesy, Entry, FactTold, SizeTold, Making, Removal, Sending, Storing
  <2>2. QED
    BY <1>5, <1>7, <2>1
<1>10. QED
  BY <1>8, <1>9

\* An exchange keeps everything true.
LEMMA ExchangeGood ==
  ASSUME SInv, NEW c, NEW r, Exchange(c, r)
  PROVE  Truths' /\ Seen
<1>1. PICK p : p = Append(cwd, c.name)
  OBVIOUS
<1>2. PICK k : k = KindIn(fs, p)
  OBVIOUS
<1>3. c \in Commands /\ r \in Results(cwd, c) /\ cwd \in Nodes /\ fs \in [Paths -> Kinds]
  BY Zenon DEF Exchange, SInv, Inv, Types, ServerTypes
<1>4. Effect(cwd, c, r, p, k)
  BY <1>1, <1>2, <1>3, Outcome, Zenon
<1>5. Fits(cwd, c, r)
  BY <1>3, ResultsFit
<1>6. KindIn(fs', cwd') = "dir"
  BY <1>1, <1>2, <1>4, <1>5, ServeHome, Zenon
<1>7. op' = op /\ data' = data /\ cmds' = <<>> /\ fs' = r.fs
  BY DEF Exchange
<1>8. Holds(replies', xfer', KindIn(fs', op.path))
  <2>1. CASE op.at = "create"
    BY <1>1, <1>2, <1>4, <2>1, CreateHolds, Zenon
  <2>2. CASE op.at = "remove"
    BY <1>1, <1>2, <1>4, <2>2, RemoveHolds, Zenon
  <2>3. CASE op.at = "opening"
    BY <1>1, <1>2, <1>4, <2>3, OpenHolds, Zenon
  <2>4. CASE op.at \in {"MLST", "SIZE", "enter"}
    <3>1. op.at \in Naming /\ op.at \in Probing
      BY <2>4 DEF Naming, Probing
    <3>2. op.api \in Probes /\ op.path # <<>>
      BY <3>1, Zenon DEF SInv, Roles, Role
    <3>3. op.api # "list"
      BY <3>2 DEF Probes
    <3>4. Aimed(c)
      BY ExchangeAimed, Zenon
    <3>5. op.path \in Nodes /\ p = Append(Parent(op.path), FileName(op.path))
      BY <1>1, <3>1, <3>3, <3>4, Zenon DEF Aimed
    <3>6. op.path = p
      BY <3>2, <3>5, Aim, Zenon
    <3>7. Effect(cwd, c, r, op.path, k) /\ k = KindIn(fs, op.path)
      BY <1>2, <1>4, <3>6, Zenon
    <3>8. Holds(replies', xfer', k)
      BY <2>4, <3>7, ProbeHolds, Zenon
    <3>9. r.fs = fs
      <4>1. c.verb \in {"MLST", "SIZE", "CWD"}
        BY <2>4 DEF Exchange, AwaitedVerbs
      <4>2. QED
        BY <1>4, <4>1
           DEF Effect, Refusal, Courtesy, Entry, FactTold, SizeTold, Making, Removal, Sending, Storing
    <3>10. QED
      BY <1>7, <3>7, <3>8, <3>9, Zenon
  <2>5. CASE op.at \in Logging \cup {"CWD", "PASV", "leave"}
    <3>1. c.verb \in {"USER", "PASS", "FEAT", "CWD", "PASV"}
      BY <2>5 DEF Exchange, AwaitedVerbs, Logging
    <3>2. r.fs = fs
      BY <1>4, <3>1
         DEF Effect, Refusal, Courtesy, Entry, FactTold, SizeTold, Making, Removal, Sending, Storing
    <3>3. QED
      BY <1>7, <2>5, <3>2, ElsewhereHolds, Zenon
  <2>6. QED
    <3>1. op.at \in Asking \cup {"opening"}
      BY DEF Exchange
    <3>2. QED
      BY <2>1, <2>2, <2>3, <2>4, <2>5, <3>1 DEF Asking, Logging
<1>9. Placed(op', cmds', data')
  BY <1>7, Zenon DEF Placed
<1>10. QED
  BY <1>6, <1>7, <1>8, <1>9, Zenon DEF Truths, Holds

LEMMA ServeGood ==
  ASSUME SInv, Serve
  PROVE  Good
<1>1. Types /\ up /\ cmds # <<>>
  BY DEF SInv, Inv, Serve
<1>2. /\ cmds' = Tail(cmds) /\ current' = current /\ op' = op /\ answer' = answer /\ data' = data
      /\ (fault' <=> fault)
  BY DEF Serve, client
<1>3. PICK r \in Results(cwd, Head(cmds)) :
        fs' = r.fs /\ cwd' = r.cwd /\ xfer' = r.xfer /\ replies' = Append(replies, r.reply)
  BY DEF Serve
<1>4. cmds \in Seq(Commands) /\ cwd \in Nodes /\ fs \in [Paths -> Kinds] /\ Tree
  BY <1>1, Zenon DEF Types, CallTypes, ServerTypes, SInv
<1>5. Head(cmds) \in Commands
  BY <1>1, <1>4, HeadTailProperties
<1>6. Roles'
  BY <1>2, Zenon DEF SInv, Roles
<1>7. Tree'
  <2>1. PICK c \in Commands : c = Head(cmds)
    BY <1>5
  <2>2. PICK p, k : p = Append(cwd, c.name) /\ k = KindIn(fs, p)
    OBVIOUS
  <2>3. Effect(cwd, c, r, p, k)
    BY <1>3, <1>4, <2>1, <2>2, Outcome, Zenon
  <2>4. TreeOf(r.fs)
    BY <1>4, <2>1, <2>2, <2>3, EffectTree, Zenon
  <2>5. QED
    BY <1>3, <2>4, Zenon DEF Tree
<1>8. ASSUME ~fault
      PROVE  Truths' /\ Seen
  <2>1. Flow
    BY <1>1, <1>8, Zenon DEF SInv, Inv
  <2>2. op.at \in Asking \cup {"opening"} /\ Asked(op.at)
    BY <1>1, <2>1, CommandAwaited
  <2>3. PICK c \in Commands : /\ c.verb \in AwaitedVerbs(op.at)
                              /\ cmds = <<c>> /\ replies = <<>>
    BY <2>2 DEF Asked
  <2>4. Head(<<c>>) = c /\ Tail(<<c>>) = <<>> /\ Append(<<>>, r.reply) = <<r.reply>>
    BY Single
  <2>5. cmds' = <<>> /\ replies' = <<r.reply>> /\ r \in Results(cwd, c)
    BY <1>2, <1>3, <2>3, <2>4, Zenon
  <2>6. Exchange(c, r)
    BY <1>1, <1>2, <1>3, <1>8, <2>2, <2>3, <2>5, Zenon DEF Exchange
  <2>7. QED
    BY <2>6, ExchangeGood, Zenon
<1>9. QED
  BY <1>2, <1>6, <1>7, <1>8, Zenon DEF Good, Seen, Trouble

\* Where a transfer ends, the client waits for its completion or has yet to hear of its
\* beginning.
LEMMA XferBegun ==
  ASSUME Types, Flow, xfer # NoXfer
  PROVE  /\ cmds = <<>> /\ op.at \in Transferring \cup {"opening"} /\ Begun(op, replies)
         /\ replies = <<>> \/ \E o : replies = <<o>> /\ o.code \in Openings
<1>1. op.at \in Resting \cup Asking \cup {"opening"} \cup Transferring
  BY DEF Types, CallTypes, Ops
<1>2. op.at \notin Resting /\ op.at \notin Asking
  BY Zenon DEF Flow, Clear, Asked, Answered
<1>3. CASE op.at \in Transferring
  <2>1. cmds = <<>> /\ replies = <<>>
    BY <1>3, Zenon DEF Flow, Answered
  <2>2. QED
    BY <1>3, <2>1, Zenon DEF Begun
<1>4. CASE op.at = "opening"
  <2>1. PICK o \in Replies : o.code \in Openings /\ cmds = <<>> /\ replies = <<o>>
    BY <1>4, Zenon DEF Flow, Asked, Answered
  <2>2. Announced(replies)
    BY <2>1, OneReply
  <2>3. QED
    BY <1>4, <2>1, <2>2, Zenon DEF Begun
<1>5. QED
  BY <1>1, <1>2, <1>3, <1>4, Zenon

\* What the server does to the file at the end of a transfer.
LEMMA CompleteTree ==
  ASSUME fs \in [Paths -> Kinds], Tree, Complete
  PROVE  /\ TreeOf(fs')
         /\ fs' = fs \/ /\ xfer.path \in Paths /\ fs[xfer.path] = "cut" /\ fs' = Put(xfer.path, "file")
                        /\ xfer.verb = "STOR"
<1>1. \/ fs' = fs
      \/ fs[xfer.path] = "cut" /\ fs' = Put(xfer.path, "file") /\ xfer.verb = "STOR"
  BY DEF Complete
<1>2. CASE fs' = fs
  BY <1>2 DEF Tree
<1>3. CASE fs[xfer.path] = "cut" /\ fs' = Put(xfer.path, "file") /\ xfer.verb = "STOR"
  <2>1. CASE xfer.path \notin Paths
    <3>1. fs' = fs
      BY <1>3, <2>1 DEF Put
    <3>2. QED
      BY <3>1 DEF Tree
  <2>2. CASE xfer.path \in Paths
    <3>1. KindIn(fs, Parent(xfer.path)) = "dir"
      BY <1>3, <2>2 DEF Tree, TreeOf
    <3>2. KindIn(fs, xfer.path) # "dir"
      BY <1>3, <2>2, OnPath
    <3>3. \A q \in Paths : Parent(q) = xfer.path => fs[q] = "none"
      BY <3>2, NothingIn
    <3>4. PICK new \in Kinds : new = "file"
      BY DEF Kinds
    <3>5. TreeOf(Put(xfer.path, new))
      BY <2>2, <3>1, <3>3, PutTree, Zenon
    <3>6. QED
      BY <1>3, <2>2, <3>4, <3>5, Zenon
  <2>3. QED
    BY <2>1, <2>2
<1>4. QED
  BY <1>1, <1>2, <1>3

\* That the transfer ended well is said only if it did.
LEMMA CompleteOver ==
  ASSUME NEW e, replies' = Append(replies, e), Over(replies'),
         replies = <<>> \/ \E o : replies = <<o>> /\ o.code \in Openings
  PROVE  e.code = 226
<1>1. CASE replies = <<>>
  <2>1. replies' = <<e>>
    BY <1>1, Single
  <2>2. QED
    BY <2>1, OneReply
<1>2. CASE \E o : replies = <<o>> /\ o.code \in Openings
  <2>1. PICK o : replies = <<o>> /\ o.code \in Openings
    BY <1>2
  <2>2. replies' = <<o, e>>
    BY <2>1, Pair, Zenon
  <2>3. PICK i \in DOMAIN replies' : replies'[i].code = 226
    BY DEF Over
  <2>4. DOMAIN <<o, e>> = {1, 2} /\ <<o, e>>[1] = o /\ <<o, e>>[2] = e
    BY Pair
  <2>5. o.code = 226 \/ e.code = 226
    BY <2>2, <2>3, <2>4
  <2>6. o.code # 226
    BY <2>1 DEF Openings
  <2>7. QED
    BY <2>5, <2>6
<1>3. QED
  BY <1>1, <1>2

\* How the transfer ends.
Fate(code) ==
  \/ /\ xfer.verb # "STOR" /\ data = "open" /\ UNCHANGED fs
     /\ data' \in IF code = 226 THEN {"whole"} ELSE {"cut", "broken"}
  \/ xfer.verb = "STOR" /\ data = "open" /\ code = 426 /\ data' = "broken" /\ UNCHANGED fs
  \/ /\ xfer.verb = "STOR" /\ data = "whole" /\ UNCHANGED data
     /\ fs' = IF code = 226 /\ fs[xfer.path] = "cut" THEN Put(xfer.path, "file") ELSE fs
  \/ data = "none" /\ UNCHANGED <<data, fs>>
  \/ data = "stray" /\ code = 426 /\ UNCHANGED <<data, fs>>

LEMMA FateWell ==
  ASSUME NEW code, Fate(code), code = 226
  PROVE  \/ xfer.verb # "STOR" /\ data = "open" /\ data' = "whole"
         \/ /\ xfer.verb = "STOR" /\ data = "whole"
            /\ fs[xfer.path] = "cut" => fs' = Put(xfer.path, "file")
         \/ data = "none"
<1>1. code # 426
  OBVIOUS
<1>2. \/ /\ xfer.verb # "STOR" /\ data = "open"
         /\ data' \in IF code = 226 THEN {"whole"} ELSE {"cut", "broken"}
      \/ /\ xfer.verb = "STOR" /\ data = "whole"
         /\ fs' = IF code = 226 /\ fs[xfer.path] = "cut" THEN Put(xfer.path, "file") ELSE fs
      \/ data = "none"
  BY <1>1, Zenon DEF Fate
<1>3. QED
  BY <1>2, Zenon

LEMMA CompleteGood ==
  ASSUME SInv, Complete
  PROVE  Good
<1>1. Types /\ up /\ xfer # NoXfer /\ Tree /\ fs \in [Paths -> Kinds]
  BY DEF SInv, Inv, Types, ServerTypes, Complete
<1>2. /\ cmds' = cmds /\ current' = current /\ op' = op /\ answer' = answer /\ cwd' = cwd
      /\ (fault' <=> fault) /\ xfer' = NoXfer
  BY DEF Complete, client
<1>3. Roles'
  BY <1>2, Zenon DEF SInv, Roles
<1>4. /\ Tree'
      /\ fs' = fs \/ /\ xfer.path \in Paths /\ fs[xfer.path] = "cut" /\ fs' = Put(xfer.path, "file")
                     /\ xfer.verb = "STOR"
  BY <1>1, CompleteTree, Zenon DEF Tree
<1>5. ASSUME ~fault
      PROVE  Truths' /\ Seen
  <2>1. Truths /\ Flow
    BY <1>1, <1>5, Zenon DEF SInv, Inv
  <2>2. /\ cmds = <<>> /\ op.at \in Transferring \cup {"opening"} /\ Begun(op, replies)
        /\ replies = <<>> \/ \E o : replies = <<o>> /\ o.code \in Openings
    BY <1>1, <2>1, XferBegun, Zenon
  <2>3. op.at \in Fetching /\ op.at \notin {"MLST", "SIZE", "enter", "leave"}
    BY <2>2 DEF Fetching, Transferring
  <2>4. op.api \in TransferApis /\ op.api \notin Makers
    BY <2>3, AtTransfer, Zenon
  <2>5. PICK k : k = KindIn(fs, op.path)
    OBVIOUS
  <2>6. /\ op.at = "completion" /\ op.api = "write" => op.got
        /\ op.api = "read" => k \in {"file", "cut"}
        /\ Running(op, data, xfer, k)
    BY <1>1, <1>5, <2>2, <2>5, WasMoved, Zenon
  <2>7. op.api # "write" => xfer.verb # "STOR"
    BY <2>4, <2>6 DEF Running, VerbOf, TransferApis
  <2>8. op.api # "write" => fs' = fs
    BY <1>4, <2>7, Zenon
  <2>9. op.api = "write" => /\ xfer.verb = "STOR" /\ xfer.path = op.path /\ op.path \in Paths /\ k = "cut"
                            /\ fs[op.path] = "cut"
    <3>1. SUFFICES ASSUME op.api = "write"
                   PROVE  /\ xfer.verb = "STOR" /\ xfer.path = op.path /\ op.path \in Paths /\ k = "cut"
                          /\ fs[op.path] = "cut"
      OBVIOUS
    <3>2. xfer.verb = VerbOf(op) /\ xfer.path = op.path /\ op.path \in Paths /\ k = "cut"
      BY <2>6, <3>1, Zenon DEF Running
    <3>3. VerbOf(op) = "STOR"
      BY <3>1 DEF VerbOf
    <3>4. fs[op.path] = k
      BY <2>5, <3>2, OnPath, Zenon
    <3>5. QED
      BY <3>2, <3>3, <3>4, Zenon
  <2>10. fs' = fs \/ (op.api = "write" /\ fs' = Put(op.path, "file"))
    BY <1>4, <2>8, <2>9, Zenon
  <2>11. Seen
    <3>1. CASE fs' = fs
      BY <1>2, <3>1, Zenon DEF Seen, Unseen
    <3>2. CASE op.api = "write" /\ fs' = Put(op.path, "file")
      <4>1. PICK new \in Kinds : new = "file"
        BY DEF Kinds
      <4>2. Allowed(new)
        BY <2>9, <3>2, <4>1 DEF Allowed
      <4>3. Changed(new)
        BY <1>2, <2>9, <3>2, <4>1, <4>2, Zenon DEF Changed
      <4>4. QED
        BY <4>3 DEF Seen
    <3>3. QED
      BY <2>10, <3>1, <3>2
  <2>12. KindIn(fs', cwd') = "dir"
    <3>1. KindIn(fs, cwd) = "dir"
      BY <2>1 DEF Truths
    <3>2. CASE fs' = fs
      BY <1>2, <3>1, <3>2, Zenon
    <3>3. CASE op.api = "write" /\ fs' = Put(op.path, "file")
      <4>1. cwd # op.path
        BY <2>5, <2>9, <3>1, <3>3
      <4>2. PICK new \in Kinds : new = "file"
        BY DEF Kinds
      <4>3. KindIn(Put(op.path, new), cwd) = KindIn(fs, cwd)
        BY <1>1, <2>9, <3>3, <4>1, PutKind
      <4>4. QED
        BY <1>2, <3>1, <3>3, <4>2, <4>3, Zenon
    <3>4. QED
      BY <2>10, <3>2, <3>3
  <2>13. PICK j : j = KindIn(fs', op.path)
    OBVIOUS
  <2>14. ASSUME Over(replies')
         PROVE  Finished(op, data', j)
    <3>1. PICK code \in {226, 426} :
            replies' = Append(replies, [code |-> code, fact |-> ""]) /\ Fate(code)
      BY Zenon DEF Complete, Fate
    <3> DEFINE e == [code |-> code, fact |-> ""]
    <3>2. e.code = code
      OBVIOUS
    <3>3. replies' = Append(replies, e)
      BY <3>1
    <3> HIDE DEF e
    <3>4. code = 226
      <4>1. e.code = 226
        BY <2>2, <2>14, <3>3, CompleteOver
      <4>2. QED
        BY <3>2, <4>1
    <3>5. \/ xfer.verb # "STOR" /\ data = "open" /\ data' = "whole"
          \/ /\ xfer.verb = "STOR" /\ data = "whole"
             /\ fs[xfer.path] = "cut" => fs' = Put(xfer.path, "file")
          \/ data = "none"
      BY <3>1, <3>4, FateWell
    <3>6. CASE op.api = "write"
      <4>1. data \in {"open", "stray", "whole"}
        BY <2>6, <3>6, Zenon DEF Running
      <4>2. data # "none"
        BY <4>1
      <4>3. fs' = Put(op.path, "file")
        BY <2>9, <3>5, <3>6, <4>2, Zenon
      <4>4. PICK new \in Kinds : new = "file"
        BY DEF Kinds
      <4>5. KindIn(Put(op.path, new), op.path) = new
        BY <1>1, <2>9, <3>6, PutKind
      <4>6. j = "file"
        BY <2>13, <4>3, <4>4, <4>5, Zenon
      <4>7. op.api # "read"
        BY <3>6
      <4>8. QED
        BY <4>6, <4>7, Zenon DEF Finished
    <3>7. CASE op.api = "read"
      <4>1. data = "stray" \/ (data = "open" /\ op.at # "completion")
        BY <2>6, <3>7 DEF Running
      <4>2. xfer.verb # "STOR" /\ op.api # "write"
        BY <2>7, <3>7
      <4>3. data # "none" /\ (data = "open" => op.at # "completion")
        BY <4>1
      <4>4. data' = "whole" /\ op.at # "completion"
        BY <3>5, <4>2, <4>3, Zenon
      <4>5. QED
        BY <4>2, <4>4, Zenon DEF Finished
    <3>8. QED
      BY <3>6, <3>7, Zenon DEF Finished
  <2>15. Moved(op, replies', data', xfer', j)
    BY <1>2, <2>6, <2>8, <2>5, <2>13, <2>14, Zenon DEF Moved
  <2>16. Placed(op', cmds', data') /\ Told(op', replies', j) /\ Made(op', replies', j)
    BY <1>2, <2>2, <2>3, <2>4, Zenon DEF Placed, Told, Made
  <2>17. QED
    BY <1>2, <2>11, <2>12, <2>13, <2>15, <2>16, Zenon DEF Truths
<1>6. QED
  BY <1>2, <1>3, <1>4, <1>5, Zenon DEF Good, Seen, Trouble

\* Nothing has happened to what is said of the call.
LEMMA SameTruths ==
  ASSUME Truths, op' = op, cmds' = cmds, replies' = replies, data' = data, fs' = fs, cwd' = cwd,
         xfer' = xfer
  PROVE  Truths'
BY Zenon DEF Truths

\* What is left of an earlier session is trouble as long as it is there, and a fault if
\* it meets a call or takes the session's directory away.
LEMMA LateGood ==
  ASSUME SInv, Late
  PROVE  Good
<1>1. Types /\ fs \in [Paths -> Kinds] /\ late \subseteq Sessions /\ Tree /\ \A s \in late : s.cmds # <<>>
  BY Zenon DEF SInv, Inv, Types, ServerTypes
<1>2. /\ up' = up /\ current' = current /\ op' = op /\ cmds' = cmds /\ replies' = replies
      /\ data' = data /\ cwd' = cwd /\ xfer' = xfer
  BY DEF Late, client
<1>3. ~fault' => ~fault /\ (fs' = fs \/ op = NoOp) /\ Kind(cwd)' = "dir"
  BY Zenon DEF Late
<1>4. PICK s \in late :
        \/ late' = late \ {s} /\ fs' = fs
        \/ \E r \in Results(s.cwd, Head(s.cmds)) :
             fs' = r.fs /\ late' = (late \ {s}) \cup Unserved(r.cwd, Tail(s.cmds))
  BY DEF Late
<1>5. Tree'
  <2>1. CASE fs' = fs
    BY <2>1, SameFiles
  <2>2. CASE \E r \in Results(s.cwd, Head(s.cmds)) : fs' = r.fs
    <3>1. PICK r \in Results(s.cwd, Head(s.cmds)) : fs' = r.fs
      BY <2>2
    <3>2. s.cwd \in Nodes /\ s.cmds \in Seq(Commands) /\ s.cmds # <<>>
      BY <1>1 DEF Sessions
    <3>3. PICK c \in Commands : c = Head(s.cmds)
      BY <3>2, HeadTailProperties
    <3>4. PICK dir \in Nodes : dir = s.cwd
      BY <3>2
    <3>5. PICK p, k : p = Append(dir, c.name) /\ k = KindIn(fs, p)
      OBVIOUS
    <3>6. r \in Results(dir, c)
      BY <3>3, <3>4, Zenon
    <3>7. Effect(dir, c, r, p, k)
      BY <3>5, <3>6, Outcome, Zenon
    <3>8. TreeOf(r.fs)
      BY <1>1, <3>5, <3>7, EffectTree, Zenon
    <3>9. QED
      BY <3>1, <3>8, Zenon DEF Tree
  <2>3. QED
    BY <1>4, <2>1, <2>2, Zenon
<1>6. Roles'
  BY <1>2, Zenon DEF SInv, Roles
<1>7. Seen
  <2>1. late # {}
    BY <1>4
  <2>2. QED
    BY <2>1, Zenon DEF Seen, Trouble
<1>8. ASSUME up', ~fault'
      PROVE  Truths'
  <2>1. Truths
    BY <1>2, <1>3, <1>8, Zenon DEF SInv
  <2>2. CASE fs' = fs
    BY <1>2, <2>1, <2>2, SameTruths, Zenon
  <2>3. CASE op = NoOp
    <3>1. Kind(cwd)' = KindIn(fs', cwd')
      BY Zenon DEF Kind, KindIn
    <3>2. KindIn(fs', cwd') = "dir"
      BY <1>3, <1>8, <3>1, Zenon
    <3>3. op' = NoOp
      BY <1>2, <2>3, Zenon
    <3>4. /\ Placed(op', cmds', data') /\ Told(op', replies', KindIn(fs', op'.path))
          /\ Made(op', replies', KindIn(fs', op'.path))
          /\ Moved(op', replies', data', xfer', KindIn(fs', op'.path))
      BY <3>3, NoCallIsTrue, Zenon
    <3>5. QED
      BY <3>2, <3>4, Zenon DEF Truths
  <2>4. QED
    BY <1>3, <1>8, <2>2, <2>3, Zenon
<1>9. QED
  BY <1>5, <1>6, <1>7, <1>8, Zenon DEF Good

LEMMA StutterGood ==
  ASSUME SInv, UNCHANGED vars
  PROVE  Good
<1>1. /\ up' = up /\ current' = current /\ op' = op /\ cmds' = cmds /\ replies' = replies /\ answer' = answer
      /\ data' = data /\ cwd' = cwd /\ xfer' = xfer /\ fs' = fs /\ (fault' <=> fault)
  BY DEF vars
<1>2. Tree' /\ Roles'
  BY <1>1, Zenon DEF SInv, Tree, Roles
<1>3. Seen
  BY <1>1, Zenon DEF Seen, Unseen
<1>4. up' /\ ~fault' => Truths'
  BY <1>1, SameTruths, Zenon DEF SInv
<1>5. QED
  BY <1>2, <1>3, <1>4 DEF Good

-----------------------------------------------------------------------------
(* The theorem.                                                            *)

LEMMA NextGood ==
  ASSUME SInv, [Next]_vars
  PROVE  Good
<1>1. CASE \E c \in Credentials : Connect(c.user, c.pass)
  BY <1>1, ConnectGood, Zenon
<1>2. CASE \E api \in Apis, path \in Targets : Call(api, path)
  BY <1>2, CallGood, Zenon
<1>3. CASE Begin
  BY <1>3, BeginGood
<1>4. CASE Change
  BY <1>4, ChangeGood
<1>5. CASE Query
  <2>1. UNCHANGED <<client, data, server, calls>>
    BY <1>5, Zenon DEF Query
  <2>2. HearMlst \/ HearSize \/ HearEnter \/ HearLeave \/ (HearCreate \/ HearRemove)
    BY <1>5, Zenon DEF Query
  <2>3. QED
    BY <2>1, <2>2, MlstGood, SizeGood, EnterGood, LeaveGood, LastGood, Zenon
<1>6. CASE Transfer
  BY <1>6, PasvGood, DialGood, CrashGood, OpeningGood, ChunkGood, DataGood, AbandonGood,
     CompletionGood, Zenon
  DEF Transfer
<1>7. CASE Connecting
  BY <1>7, ConnectingGood
<1>8. CASE Serve
  BY <1>8, ServeGood
<1>9. CASE Complete
  BY <1>9, CompleteGood
<1>10. CASE Late
  BY <1>10, LateGood
<1>11. CASE UNCHANGED vars
  BY <1>11, StutterGood
<1>12. CASE MoreData
  BY <1>12, ChunkGood
<1>13. QED
  BY <1>1, <1>2, <1>3, <1>4, <1>5, <1>6, <1>7, <1>8, <1>9, <1>10, <1>11, <1>12, Zenon DEF Next, Client

LEMMA InitSInv ==
  ASSUME Init
  PROVE  SInv
<1>1. Inv
  BY InitInv
<1>2. op = NoOp /\ up = FALSE
  BY DEF Init
<1>3. Roles
  BY <1>2, NoCallIsTrue, Zenon DEF Roles
<1>4. Tree
  <2>1. SUFFICES ASSUME NEW p \in Paths, fs[p] # "none"
                 PROVE  KindIn(fs, Parent(p)) = "dir"
    BY DEF Tree, TreeOf
  <2>2. p \in Folders \cup Files
    BY <2>1 DEF Init
  <2>3. CASE Len(p) = 1
    <3>1. Parent(p) = <<>>
      <4>1. Len(Parent(p)) = 0 /\ Parent(p) \in Seq(Names)
        BY <2>3, PathForms, NodeLen
      <4>2. QED
        BY <4>1, EmptySeq
    <3>2. QED
      BY <3>1 DEF KindIn
  <2>4. CASE Len(p) = 2
    <3>1. <<p[1]>> \in Folders
      BY <2>2, <2>4, TreeAssumption
    <3>2. Parent(p) = <<p[1]>>
      <4>1. PICK m \in Names, n \in Names : p = <<m, n>>
        BY <2>4, Single DEF Paths
      <4>2. p = Append(<<m>>, n) /\ p[1] = m
        BY <4>1, Pair
      <4>3. <<m>> \in Seq(Names)
        OBVIOUS
      <4>4. QED
        BY <4>2, <4>3, ParentAppend
    <3>3. <<p[1]>> \in Paths
      BY <3>1, TreeAssumption
    <3>4. fs[<<p[1]>>] = "dir"
      BY <3>1, <3>3 DEF Init
    <3>5. QED
      BY <3>2, <3>3, <3>4, OnPath, Zenon
  <2>5. QED
    BY <2>3, <2>4, PathForms
<1>5. QED
  BY <1>1, <1>2, <1>3, <1>4 DEF SInv

\* While the session is in step, what a reply on its way says is true of the path of
\* the call: the invariant behind the refinement.
THEOREM RepliesAreTrue == Spec => []SInv
<1>1. Init => SInv
  BY InitSInv
<1>2. SInv /\ [Next]_vars => SInv'
  <2>1. SUFFICES ASSUME SInv, [Next]_vars
                 PROVE  SInv'
    OBVIOUS
  <2>2. Inv'
    BY <2>1, NextInv DEF SInv
  <2>3. Good
    BY <2>1, NextGood
  <2>4. QED
    BY <2>2, <2>3 DEF Good, SInv
<1>3. QED
  BY <1>1, <1>2, PTL DEF Spec

\* FtpFileTransfer is the file store FileStore describes: every behaviour of the
\* session, with the server's replies in any order the code can meet them, changes
\* files and gives answers as IAbstractFileTransfer promises, but for the departures
\* FileStore names one by one.
THEOREM StoreImplemented == Spec => ImplementsStore
<1>1. Init => Store!Init
  BY InitIsInit
<1>2. SInv /\ [Next]_vars => [Store!Next]_Store!vars
  <2>1. SUFFICES ASSUME SInv, [Next]_vars
                 PROVE  Store!Next
    OBVIOUS
  <2>2. Types
    BY <2>1 DEF SInv, Inv
  <2>3. Seen
    BY <2>1, NextGood DEF Good
  <2>4. QED
    BY <2>2, <2>3, SeenIsNext
<1>3. QED
  BY <1>1, <1>2, RepliesAreTrue, PTL DEF Spec, ImplementsStore, Store!Spec

==============================================================================
