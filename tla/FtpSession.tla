----------------------------- MODULE FtpSession -----------------------------
(***************************************************************************)
(* FtpFileTransfer and an FTP server: connect and the file operations,     *)
(* each a sequence of commands on the control connection whose replies     *)
(* decide how it goes on, with a data connection for list, read and write. *)
(*                                                                         *)
(* Nothing in a reply says which command it answers.  The client relies on *)
(* taking exactly one reply for every command (two for a transfer) and on  *)
(* _current being the directory the server has for the session.            *)
(***************************************************************************)
EXTENDS Integers, SequencesExt

CONSTANTS
  Names,       \* file names
  Folders,     \* paths that are directories at first
  Files,       \* paths that are files at first
  Targets,     \* paths the application uses
  Credentials, \* whether connect is given a user name and a password
  FeatureSets, \* the extensions a server may have: sets of "MLST" and "SIZE"
  MaxCalls,    \* bound: calls of connect and of the file operations
  MaxBacklog   \* bound: commands and replies that a call may find on their way

\* Plain absolute paths of at most two components; the root is <<>>.
Paths == {<<n>> : n \in Names} \cup {<<m, n>> : m \in Names, n \in Names}

Apis == {"list", "createDir", "exists", "remove", "read", "write", "isDirectory"}

ASSUME NamesAssumption == Names \cap {"", ".."} = {}
ASSUME TreeAssumption ==
  /\ Folders \cup Files \subseteq Paths /\ Folders \cap Files = {}
  /\ \A p \in Folders \cup Files : Len(p) = 2 => <<p[1]>> \in Folders
ASSUME TargetsAssumption == Targets \subseteq Paths \cup {<<>>}
ASSUME FeaturesAssumption == FeatureSets \subseteq SUBSET {"MLST", "SIZE"} /\ FeatureSets # {}
ASSUME CredentialsAssumption == Credentials \subseteq [user : BOOLEAN, pass : BOOLEAN]
ASSUME BoundAssumption == MaxCalls \in Nat /\ MaxBacklog \in Nat

VARIABLES
  \* the client
  up,       \* _socket is set
  dead,     \* the read buffer of _socket holds the zeros of a failed read
  current,  \* _navigator's _current
  caps,     \* _capabilities
  op,       \* the call in progress: api, path, at: what it waits for, plan: the
            \* directory changes left, user and pass: credentials to send,
            \* got: all data came, before: what the path was when called
  answer,   \* of the last file operation
  \* the control and data connections
  cmds,     \* commands on their way to the server
  replies,  \* replies on their way to the client
  data,     \* the data connection: "none", "open", "stray" (to another endpoint),
            \* "whole" (all data passed, closed), "cut" (closed early), "broken"
  \* the server (external)
  fs,       \* its files: path -> "none", "dir", "file", "cut" (partly written)
  cwd,      \* the session's working directory
  xfer,     \* the transfer in progress: verb and path, or NoXfer
  features, \* its extensions
  late,     \* earlier sessions with commands the server has yet to carry out
  \* history and bounds
  fault,    \* the session has met one of the events that put it out of step
  calls

client == <<up, current, caps>>
server == <<fs, cwd, xfer, features, late>>
vars == <<up, dead, current, caps, op, answer, cmds, replies, data, fs, cwd, xfer,
          features, late, fault, calls>>

-----------------------------------------------------------------------------
(* Paths.                                                                  *)

Parent(p) == IF p = <<>> THEN p ELSE Front(p)
FileName(p) == IF p = <<>> THEN "" ELSE Last(p)
Kind(p) == IF p = <<>> THEN "dir" ELSE IF p \in Paths THEN fs[p] ELSE "none"
Children(p) == {q \in Paths : Len(q) > Len(p) /\ IsPrefix(p, q) /\ fs[q] # "none"}

\* changeDirectory for absolute paths: up to the common ancestor, then down.
Plan(from, to) ==
  LET common == Len(LongestCommonPrefix({from, to}))
  IN [i \in 1..(Len(from) - common) |-> ".."] \o SubSeq(to, common + 1, Len(to))

\* The directory an operation navigates to first.
Place(o) == IF o.api = "list" THEN o.path ELSE Parent(o.path)

NoOp == [api |-> "none", path |-> <<>>, at |-> "idle", plan |-> <<>>,
         user |-> FALSE, pass |-> FALSE, got |-> FALSE, before |-> "none"]
NoXfer == [verb |-> "none", path |-> <<>>]

Init ==
  /\ up = FALSE /\ dead = FALSE /\ current = <<>> /\ caps = {} /\ op = NoOp /\ answer = "none"
  /\ cmds = <<>> /\ replies = <<>> /\ data = "none"
  /\ fs = [p \in Paths |-> IF p \in Folders THEN "dir" ELSE IF p \in Files THEN "file" ELSE "none"]
  /\ cwd = <<>> /\ xfer = NoXfer /\ features \in FeatureSets /\ late = {}
  /\ fault = FALSE /\ calls = 0

-----------------------------------------------------------------------------
(* The server.                                                             *)

Put(p, k) == [fs EXCEPT ![p] = k]

\* A reply, where it leaves the session, and what it makes of the files.
Result(code, fact, dir, store, transfer) ==
  [reply |-> [code |-> code, fact |-> fact], cwd |-> dir, fs |-> store, xfer |-> transfer]
Says(code, fact, dir) == Result(code, fact, dir, fs, NoXfer)

\* The server can carry the command out in directory dir.
Possible(dir, c) ==
  LET p == Append(dir, c.name) IN
  CASE c.verb = "CWD"  -> c.name = ".." \/ Kind(p) = "dir"
    [] c.verb = "MLST" -> "MLST" \in features /\ Kind(p) # "none"
    [] c.verb = "SIZE" -> "SIZE" \in features /\ Kind(p) \in {"file", "cut"}
    [] c.verb = "MKD"  -> p \in Paths /\ Kind(dir) = "dir" /\ Kind(p) = "none"
    [] c.verb = "RMD"  -> p \in Paths /\ Kind(p) = "dir" /\ Children(p) = {}
    [] c.verb = "STOR" -> p \in Paths /\ Kind(dir) = "dir" /\ Kind(p) # "dir"
    [] c.verb \in {"DELE", "RETR"} -> Kind(p) \in {"file", "cut"}
    [] OTHER -> TRUE

\* Opening the data connection is announced with 150; a server that has it open
\* already says 125.
Carried(dir, c) ==
  LET p == Append(dir, c.name) IN
  CASE c.verb = "USER" -> {Says(code, "", dir) : code \in {331, 230}}
    [] c.verb = "PASS" -> {Says(230, "", dir)}
    [] c.verb = "FEAT" -> {Says(211, "", dir)}
    [] c.verb = "CWD"  -> {Says(250, "", IF c.name = ".." THEN Parent(dir) ELSE p)}
    [] c.verb = "MLST" -> {Says(250, f, dir) : f \in {IF Kind(p) = "dir" THEN "dir" ELSE "file", "none"}}
    [] c.verb = "SIZE" -> {Says(213, "", dir)}
    [] c.verb = "MKD"  -> {Result(257, "", dir, Put(p, "dir"), NoXfer)}
    [] c.verb \in {"DELE", "RMD"} -> {Result(250, "", dir, Put(p, "none"), NoXfer)}
    [] c.verb = "PASV" -> {Says(227, f, dir) : f \in {"endpoint", "garbage"}}
    [] c.verb \in {"LIST", "RETR"} ->
         {Result(code, "", dir, fs, [verb |-> c.verb, path |-> p]) : code \in {150, 125}}
    [] c.verb = "STOR" ->
         {Result(code, "", dir, Put(p, "cut"), [verb |-> "STOR", path |-> p]) : code \in {150, 125}}

\* The server may refuse any command: not logged in, shutting down, not implemented.
Results(dir, c) ==
  {Says(421, "", dir)} \cup IF Possible(dir, c) THEN Carried(dir, c) ELSE {Says(550, "", dir)}

Serve ==
  /\ up /\ cmds # <<>> /\ xfer = NoXfer
  /\ \E r \in Results(cwd, Head(cmds)) :
       /\ fs' = r.fs /\ cwd' = r.cwd /\ xfer' = r.xfer
       /\ replies' = Append(replies, r.reply)
  /\ cmds' = Tail(cmds)
  /\ UNCHANGED <<client, dead, op, answer, data, features, late, fault, calls>>

\* The end of a transfer and its completion reply.  An upload whose client has gone
\* looks like a short file; one whose file was removed meanwhile does not restore it.
Complete ==
  /\ up /\ xfer # NoXfer
  /\ \E code \in {226, 426} :
       /\ replies' = Append(replies, [code |-> code, fact |-> ""])
       /\ \/ xfer.verb # "STOR" /\ data = "open" /\ UNCHANGED fs
             /\ data' \in IF code = 226 THEN {"whole"} ELSE {"cut", "broken"}
          \/ xfer.verb = "STOR" /\ data = "open" /\ code = 426 /\ data' = "broken" /\ UNCHANGED fs
          \/ xfer.verb = "STOR" /\ data = "whole" /\ UNCHANGED data
             /\ fs' = IF code = 226 /\ fs[xfer.path] = "cut" THEN Put(xfer.path, "file") ELSE fs
          \/ data = "none" /\ UNCHANGED <<data, fs>>
          \/ data = "stray" /\ code = 426 /\ UNCHANGED <<data, fs>>
  /\ xfer' = NoXfer
  /\ UNCHANGED <<client, dead, op, answer, cmds, cwd, features, late, fault, calls>>

\* A session with commands left.
Unserved(dir, cs) == IF cs = <<>> THEN {} ELSE {[cwd |-> dir, cmds |-> cs]}

\* A session that was given up: the server still carries out a command it has
\* received, or notices that the connection is closed.
Late ==
  /\ \E s \in late :
       \/ late' = late \ {s} /\ UNCHANGED fs
       \/ \E r \in Results(s.cwd, Head(s.cmds)) :
            /\ fs' = r.fs
            /\ late' = (late \ {s}) \cup Unserved(r.cwd, Tail(s.cmds))
  /\ UNCHANGED <<client, dead, op, answer, cmds, replies, data, cwd, xfer, features, calls>>
  /\ fault' = (fault \/ (fs' # fs /\ op # NoOp) \/ Kind(cwd)' # "dir")

-----------------------------------------------------------------------------
(* The control connection as the client sees it.                           *)

Failed == [code |-> 0, fact |-> "failed"]

Heard(reply, d, cs, rs) == [reply |-> reply, dead |-> d, cmds |-> cs, replies |-> rs]
Quiet == Heard(Failed, dead, cmds, replies)

\* Mutant: the reads have no timeout.
ReceiptsUntimed ==
  IF dead \/ replies = <<>> THEN {} ELSE {Heard(Head(replies), dead, cmds, Tail(replies))}

\* How sendAndReceiveResponse and receiveResponse end: with the next reply, with a
\* read that timed out or found the connection closed, or with a command that could
\* not be sent.  A failed read leaves zeros in the read buffer, after which
\* readUntil never again finds a line end near enough: no reply is ever taken.
Receipts ==
  (IF dead \/ replies = <<>> THEN {} ELSE {Heard(Head(replies), dead, cmds, Tail(replies))})
  \cup {Heard(Failed, TRUE, cmds, replies)}
  \cup (IF cmds = <<>> \/ op.at \in {"greeting", "completion"} THEN {}
        ELSE {Heard(Failed, dead, Front(cmds), replies)})

\* The operation goes on with another command, or ends.
Ask(x, at, verb, name) ==
  /\ cmds' = Append(x.cmds, [verb |-> verb, name |-> name])
  /\ op' = [op EXCEPT !.at = at, !.plan = <<>>]
  /\ UNCHANGED answer

Return(x, a) == cmds' = x.cmds /\ op' = NoOp /\ answer' = IF op.api = "connect" THEN answer ELSE a

Waits(at, x) == op.at = at /\ dead' = x.dead /\ replies' = x.replies

\* The history of what puts the session out of step.
Note(x, event) == fault' = (fault \/ x.dead \/ event)

-----------------------------------------------------------------------------
(* exists, isDirectory and the operations that begin with them.            *)

ExistsLike == op.api \in {"exists", "createDir"}

\* The next way of asking for a name, of those the server is known to support.
Probe(x, extensions) ==
  LET known == caps \cap extensions IN
  \/ "MLST" \in known /\ Ask(x, "MLST", "MLST", FileName(op.path))
  \/ known = {"SIZE"} /\ Ask(x, "SIZE", "SIZE", FileName(op.path))
  \/ known = {} /\ Ask(x, "enter", "CWD", FileName(op.path))

\* exists is true; createDir has nothing to do.
Found(x) == Return(x, IF op.api = "exists" THEN "true" ELSE "ok")

\* isDirectory knows; remove chooses its command.
IsDir(x, dir) ==
  \/ op.api = "isDirectory" /\ Return(x, IF dir THEN "true" ELSE "false")
  \/ op.api = "remove" /\ Ask(x, "remove", IF dir THEN "RMD" ELSE "DELE", FileName(op.path))

\* existsMlst; isDirectoryMlst.  Whatever is not an answer is asked another way.
HearMlst ==
  \E x \in Receipts :
    /\ Waits("MLST", x) /\ Note(x, FALSE)
    /\ \/ ExistsLike /\ x.reply.code = 250 /\ Found(x)
       \/ ExistsLike /\ x.reply.code # 250 /\ Probe(x, {"SIZE"})
       \/ ~ExistsLike /\ x.reply.code = 250 /\ x.reply.fact # "none" /\ IsDir(x, x.reply.fact = "dir")
       \/ ~ExistsLike /\ ~(x.reply.code = 250 /\ x.reply.fact # "none") /\ Probe(x, {})

\* existsSize.
HearSize ==
  \E x \in Receipts :
    /\ Waits("SIZE", x) /\ Note(x, FALSE)
    /\ \/ ExistsLike /\ x.reply.code = 213 /\ Found(x)
       \/ ExistsLike /\ x.reply.code # 213 /\ Probe(x, {})
       \/ ~ExistsLike /\ x.reply.code = 213 /\ IsDir(x, FALSE)
       \/ ~ExistsLike /\ x.reply.code # 213 /\ Return(x, "error")

\* Mutant: a probe that got in does not leave again.
HearEnterStays ==
  \E x \in Receipts :
    /\ Waits("enter", x) /\ Note(x, FALSE)
    /\ \/ ExistsLike /\ x.reply.code = 250 /\ Found(x)
       \/ ~ExistsLike /\ x.reply.code = 250 /\ IsDir(x, TRUE)
       \/ x.reply.code # 250 /\ Return(x, IF op.api = "exists" THEN "false" ELSE "error")

\* existsCwd; isDirectoryCwd: try to enter.
HearEnter ==
  \E x \in Receipts :
    /\ Waits("enter", x) /\ Note(x, FALSE)
    /\ \/ x.reply.code = 250 /\ Ask(x, "leave", "CWD", "..")
       \/ op.api = "exists" /\ x.reply.code # 250 /\ Return(x, "false")
       \/ op.api = "createDir" /\ x.reply.code # 250 /\ Ask(x, "create", "MKD", FileName(op.path))
       \/ ~ExistsLike /\ x.reply.code = 550 /\ "SIZE" \in caps /\ Ask(x, "SIZE", "SIZE", FileName(op.path))
       \/ ~ExistsLike /\ x.reply.code = 550 /\ "SIZE" \notin caps /\ Return(x, "error")
       \/ ~ExistsLike /\ x.reply.code \notin {250, 550} /\ Return(x, "error")

\* ... and to leave again; existsCwd only logs that it could not.
HearLeave ==
  \E x \in Receipts :
    /\ Waits("leave", x) /\ Note(x, x.reply.code # 250)
    /\ \/ ExistsLike /\ Found(x)
       \/ ~ExistsLike /\ x.reply.code = 250 /\ IsDir(x, TRUE)
       \/ ~ExistsLike /\ x.reply.code # 250 /\ Return(x, "error")

HearCreate ==
  \E x \in Receipts :
    Waits("create", x) /\ Note(x, FALSE) /\ Return(x, IF x.reply.code = 257 THEN "ok" ELSE "error")

HearRemove ==
  \E x \in Receipts :
    Waits("remove", x) /\ Note(x, FALSE) /\ Return(x, IF x.reply.code = 250 THEN "ok" ELSE "error")

Query ==
  /\ HearMlst \/ HearSize \/ HearEnter \/ HearLeave \/ HearCreate \/ HearRemove
  /\ UNCHANGED <<client, data, server, calls>>

-----------------------------------------------------------------------------
(* changeDirectory, with which every operation begins.                     *)

\* The first command in place.  isDirectory says yes to an empty name, so remove
\* asks nothing.
InPlace(x) ==
  \/ ExistsLike /\ Probe(x, {"MLST", "SIZE"})
  \/ op.api \in {"isDirectory", "remove"} /\ op.path # <<>> /\ Probe(x, {"MLST"})
  \/ op.api = "remove" /\ op.path = <<>> /\ Ask(x, "remove", "RMD", "")
  \/ op.api \in {"list", "read", "write"} /\ Ask(x, "PASV", "PASV", "")

Call(api, path) ==
  /\ up /\ op = NoOp /\ calls < MaxCalls
  /\ op' = [NoOp EXCEPT !.api = api, !.path = path, !.at = "begin", !.before = Kind(path)]
  /\ Len(cmds) + Len(replies) <= MaxBacklog
  /\ answer' = "none"
  /\ calls' = calls + 1
  /\ UNCHANGED <<client, dead, cmds, replies, data, server, fault>>

\* An empty name exists and is a directory.
Trivial == op.api \in {"exists", "isDirectory", "createDir"} /\ op.path = <<>>

Begin ==
  LET plan == Plan(current, Place(op)) IN
  /\ op.at = "begin"
  /\ \/ Trivial /\ Return(Quiet, IF op.api = "createDir" THEN "ok" ELSE "true") /\ UNCHANGED current
     \/ ~Trivial /\ plan = <<>> /\ InPlace(Quiet) /\ current' = Place(op)
     \/ /\ ~Trivial /\ plan # <<>>
        /\ op' = [op EXCEPT !.at = "CWD", !.plan = plan]
        /\ cmds' = Append(cmds, [verb |-> "CWD", name |-> Head(plan)])
        /\ UNCHANGED <<answer, current>>
  /\ UNCHANGED <<up, caps, dead, replies, data, server, fault, calls>>

\* ftpCd.  When it fails, _current stays although earlier steps have been made.
Change ==
  /\ \E x \in Receipts :
       /\ Waits("CWD", x)
       /\ \/ /\ x.reply.code = 250 /\ Len(op.plan) > 1
             /\ cmds' = Append(x.cmds, [verb |-> "CWD", name |-> op.plan[2]])
             /\ op' = [op EXCEPT !.plan = Tail(@)]
             /\ Note(x, FALSE) /\ UNCHANGED <<answer, current>>
          \/ /\ x.reply.code = 250 /\ Len(op.plan) = 1
             /\ InPlace(x) /\ current' = Place(op) /\ Note(x, FALSE)
          \/ /\ x.reply.code # 250
             /\ Return(x, "error") /\ UNCHANGED current
             /\ Note(x, op.plan # Plan(current, Place(op)))
  /\ UNCHANGED <<up, caps, data, server, calls>>

-----------------------------------------------------------------------------
(* list, read and write.                                                   *)

Verb == CASE op.api = "list" -> "LIST" [] op.api = "read" -> "RETR" [] op.api = "write" -> "STOR"

\* parsePasvResponse finds an address and a port.
ParsePasvResponse(reply) == reply.fact = "endpoint"

\* openDataConnection: the endpoint of the reply is used even if there is none.
HearPasv ==
  /\ \E x \in Receipts :
       /\ Waits("PASV", x) /\ Note(x, FALSE)
       /\ \/ /\ x.reply.code = 227
             /\ op' = [op EXCEPT !.at = IF ParsePasvResponse(x.reply) THEN "dial" ELSE "dial anywhere"]
             /\ cmds' = x.cmds /\ UNCHANGED answer
          \/ x.reply.code # 227 /\ Return(x, "error")
  /\ UNCHANGED <<client, data, server, calls>>

\* The data connection is made, and only then the transfer asked for.  Without an
\* endpoint the address is what happens to be in memory: the server's own, from an
\* earlier reply, or any other.
Dial ==
  /\ op.at \in {"dial", "dial anywhere"}
  /\ \/ /\ Ask(Quiet, "opening", Verb, IF op.api = "list" THEN "" ELSE FileName(op.path))
        /\ data' \in IF op.at = "dial" THEN {"open"} ELSE {"open", "stray"}
     \/ Return(Quiet, "error") /\ data' = "none"
  /\ UNCHANGED <<client, dead, replies, server, fault, calls>>

\* _socket.reset().
Disconnect(x) ==
  /\ Return([x EXCEPT !.cmds = <<>>], "error")
  /\ up' = FALSE /\ dead' = FALSE /\ replies' = <<>> /\ cwd' = <<>> /\ xfer' = NoXfer
  /\ late' = late \cup Unserved(cwd, x.cmds)

\* ... or, in a build with the library's assertions, the process ends there; the next
\* one begins with a new FtpFileTransfer.
Crash ==
  /\ op.at = "dial anywhere"
  /\ Disconnect(Quiet)
  /\ current' = <<>> /\ caps' = {} /\ data' = "none"
  /\ UNCHANGED <<fs, features, fault, calls>>

\* Only 150 opens a transfer; when the reply is 125 there is one all the same.
HearOpening ==
  /\ \E x \in Receipts :
       /\ Waits("opening", x) /\ Note(x, x.reply.code = 125)
       /\ \/ /\ x.reply.code = 150
             /\ op' = [op EXCEPT !.at = "data"] /\ cmds' = x.cmds /\ UNCHANGED <<answer, data>>
          \/ x.reply.code # 150 /\ Return(x, "error") /\ data' = "none"
  /\ UNCHANGED <<client, server, calls>>

\* A part of the data has come, or the callback has given one to write.
MoreData ==
  /\ op.at = "data" /\ (op.api = "write" \/ data \in {"open", "stray"})
  /\ op' = [op EXCEPT !.at = "chunk"]
  /\ UNCHANGED <<client, dead, answer, cmds, replies, data, server, fault, calls>>

\* It is stored, given to the callback or written; the next one has a timer of its own.
Chunk ==
  /\ op.at = "chunk"
  /\ op' = [op EXCEPT !.at = "data"]
  /\ UNCHANGED <<client, dead, answer, cmds, replies, data, server, fault, calls>>

\* The end of receiveRawResponse or of the loop around the callback: end of stream.
Receive ==
  /\ op.at = "data" /\ op.api \in {"list", "read"}
  /\ data \in {"whole", "cut", "stray"}
  /\ op' = [op EXCEPT !.at = "completion", !.got = data = "whole"]
  /\ UNCHANGED <<client, dead, answer, cmds, replies, data, server, fault, calls>>

\* The end of writeAll or of the loop around the callback, then data_socket.reset().
\* What a server does not take any more may still fit into the send buffer.
Upload ==
  /\ op.at = "data" /\ op.api = "write"
  /\ op' = [op EXCEPT !.at = "completion", !.got = TRUE]
  /\ data' = IF data = "open" THEN "whole" ELSE data
  /\ UNCHANGED <<client, dead, answer, cmds, replies, server, fault, calls>>

\* Mutant: the call is forgotten, not ended.
AbandonHalf ==
  /\ op.at \in {"data", "chunk"}
  /\ op' = [op EXCEPT !.at = "idle"]
  /\ data' = "none" /\ fault' = TRUE
  /\ UNCHANGED <<client, dead, answer, cmds, replies, server, calls>>

\* The data connection fails or times out, or the callback returns an error: the
\* operation ends, and the completion reply is left for the next one.
Abandon ==
  /\ op.at \in {"data", "chunk"}
  /\ Return(Quiet, "error")
  /\ data' = "none" /\ fault' = TRUE
  /\ UNCHANGED <<client, dead, replies, server, calls>>

\* Mutant: read and write, too, take any completion reply.
HearAnyCompletion ==
  /\ \E x \in Receipts :
       /\ Waits("completion", x) /\ Note(x, FALSE)
       /\ Return(x, IF x.reply = Failed THEN "error" ELSE IF op.got THEN "ok" ELSE "cut")
  /\ data' = IF op.api = "write" /\ xfer # NoXfer THEN data ELSE "none"
  /\ UNCHANGED <<client, server, calls>>

\* list takes any completion reply, read and write insist on 226.
HearCompletion ==
  /\ \E x \in Receipts :
       /\ Waits("completion", x) /\ Note(x, FALSE)
       /\ Return(x, IF \/ x.reply.code = 226
                       \/ op.api = "list" /\ x.reply # Failed
                    THEN IF op.got THEN "ok" ELSE "cut"
                    ELSE "error")
  /\ data' = IF op.api = "write" /\ xfer # NoXfer THEN data ELSE "none"
  /\ UNCHANGED <<client, server, calls>>

Transfer ==
  \/ HearPasv \/ Dial \/ Crash \/ HearOpening
  \/ Chunk \/ Receive \/ Upload \/ Abandon \/ HearCompletion

-----------------------------------------------------------------------------
(* connect.                                                                *)

\* Client::connect succeeds (otherwise nothing changes) and the new connection
\* replaces the old one; nothing else is reset, _current least of all.  A greeting
\* may have several lines.
Connect(user, pass) ==
  /\ op = NoOp /\ calls < MaxCalls
  /\ up' = TRUE /\ dead' = FALSE
  /\ op' = [NoOp EXCEPT !.api = "connect", !.at = "greeting", !.user = user, !.pass = pass]
  /\ cmds' = <<>> /\ data' = "none" /\ xfer' = NoXfer /\ cwd' = <<>>
  /\ late' = late \cup Unserved(cwd, cmds)
  /\ \E lines \in 1..2 :
       /\ replies' = [i \in 1..lines |-> [code |-> 220, fact |-> ""]]
       /\ fault' = (current # <<>> \/ lines > 1)
  /\ calls' = calls + 1
  /\ UNCHANGED <<current, caps, answer, fs, features>>

\* What comes next of USER, PASS and FEAT: credentials that are empty are left out.
Login(x, user, pass) ==
  \/ user /\ Ask(x, "USER", "USER", "")
  \/ ~user /\ pass /\ Ask(x, "PASS", "PASS", "")
  \/ ~user /\ ~pass /\ Ask(x, "FEAT", "FEAT", "")

Stay(x) == up' = TRUE /\ dead' = x.dead /\ replies' = x.replies /\ UNCHANGED <<late, cwd, xfer>>

\* The first line is taken for the greeting, whatever it says; without one connect
\* fails and keeps the socket.
HearGreeting ==
  /\ op.at = "greeting"
  /\ \E x \in Receipts :
       /\ Stay(x) /\ Note(x, FALSE)
       /\ \/ x.reply # Failed /\ Login(x, op.user, op.pass)
          \/ x.reply = Failed /\ Return(x, "error")
  /\ UNCHANGED <<current, caps, data, fs, features, calls>>

HearUser ==
  /\ op.at = "USER"
  /\ \E x \in Receipts :
       /\ Note(x, FALSE)
       /\ \/ x.reply.code \in {331, 230} /\ Stay(x) /\ Login(x, FALSE, op.pass)
          \/ x.reply.code \notin {331, 230} /\ Disconnect(x)
  /\ UNCHANGED <<current, caps, data, fs, features, calls>>

HearPass ==
  /\ op.at = "PASS"
  /\ \E x \in Receipts :
       /\ Note(x, FALSE)
       /\ \/ x.reply.code \in {230, 231} /\ Stay(x) /\ Login(x, FALSE, FALSE)
          \/ x.reply.code \notin {230, 231} /\ Disconnect(x)
  /\ UNCHANGED <<current, caps, data, fs, features, calls>>

\* What parseFeatures makes of a list of extensions: it only ever adds.
ParseFeatures(listed) == caps \cup listed

\* connect succeeds however FEAT ends.
HearFeat ==
  /\ op.at = "FEAT"
  /\ \E x \in Receipts :
       /\ Stay(x) /\ Note(x, FALSE) /\ Return(x, "ok")
       /\ caps' = IF x.reply.code = 211 THEN ParseFeatures(features) ELSE caps
  /\ UNCHANGED <<current, data, fs, features, calls>>

Connecting == HearGreeting \/ HearUser \/ HearPass \/ HearFeat

-----------------------------------------------------------------------------

Client == Begin \/ Change \/ Query \/ Transfer \/ Connecting

Next ==
  \/ \E c \in Credentials : Connect(c.user, c.pass)
  \/ \E api \in Apis, path \in Targets : Call(api, path)
  \/ Client
  \/ Serve \/ Complete \/ Late \/ MoreData

Spec == Init /\ [][Next]_vars

\* Every wait of the client has a timer, taken not to be lost (BufferedSocket has the
\* ways it can be), and its thread goes on.  Nothing is assumed of the server.
FairSpec == Spec /\ WF_vars(Client)

-----------------------------------------------------------------------------
(* Properties.                                                             *)

\* The variables keep their types, and a call in progress is always at one of its
\* steps (every handler ends the call or goes on with it).
TypeOK ==
  /\ up \in BOOLEAN /\ dead \in BOOLEAN /\ fault \in BOOLEAN
  /\ current \in Paths \cup {<<>>} /\ caps \subseteq {"MLST", "SIZE"}
  /\ op.api \in Apis \cup {"none", "connect"} /\ op.path \in Paths \cup {<<>>}
  /\ op.at = "idle" <=> op = NoOp
  /\ answer \in {"none", "ok", "cut", "true", "false", "error"}
  /\ data \in {"none", "open", "stray", "whole", "cut", "broken"}
  /\ fs \in [Paths -> {"none", "dir", "file", "cut"}]
  /\ calls \in 0..MaxCalls

\* Replies that are on their way or still to come, 150 and 125 apart, which announce
\* another one.
Owed ==
  Len(cmds) + Cardinality({i \in DOMAIN replies : replies[i].code \notin {150, 125}})
  + IF xfer = NoXfer THEN 0 ELSE 1

\* Client and server stay in step: whenever the client waits for a reply exactly one
\* is owed, otherwise none (receiveResponse cannot tell whose reply it takes), and
\* between directory changes _current is the session's directory.  It holds from
\* connect on until a control read fails, a transfer is abandoned or answered with
\* 125, a directory change fails halfway, or a command of an earlier session changes
\* the files in the middle of a call or removes the session's directory; and connect
\* itself is one of these events if the greeting has two lines or _current is not the
\* root.
InStep ==
  up /\ ~fault =>
    /\ Owed = IF op.at \in {"idle", "begin", "dial", "dial anywhere"} THEN 0 ELSE 1
    /\ op.at \notin {"CWD", "enter", "leave"} => cwd = current

\* Every call returns even if the server falls silent, unless data comes (or a write
\* callback gives it) for ever: no step of connect, of navigation, of the probes or of
\* a transfer waits without a timer, but each part of the data has a new one.
OpReturns == <>[](op.at # "chunk") => ((op # NoOp) ~> (op = NoOp))

\* FtpFileTransfer is a file store, with the departures FileStore names, as long as the
\* session is in step and no earlier session has commands left: a call changes its own
\* path only, read returns whole files, write, remove and createDir report success only
\* for what is so, and an error of createDir or remove means that nothing has changed.
Store == INSTANCE FileStore WITH
  Paths <- Paths, Apis <- Apis,
  FirstStore <- [p \in Paths |-> IF p \in Folders THEN "dir" ELSE IF p \in Files THEN "file" ELSE "none"],
  store <- fs, answer <- answer, trouble <- (fault \/ late # {}),
  call <- IF op.api \in Apis THEN [api |-> op.api, path |-> op.path, before |-> op.before]
          ELSE [api |-> "none", path |-> <<>>, before |-> "none"]
ImplementsStore == Store!Spec

\* remove(path) removes that path and nothing else, as long as the control connection
\* works (the contract of IAbstractFileTransfer::remove).
RemovesOnlyTarget ==
  [][op.api = "remove" /\ ~dead /\ late = {} =>
       \A p \in Paths \ {op.path} : fs[p] # "none" => fs'[p] # "none"]_vars

=============================================================================
