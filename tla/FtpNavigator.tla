---------------------------- MODULE FtpNavigator ----------------------------
(***************************************************************************)
(* SmartDirectoryNavigator: changeDirectory turns a path into CWD commands, *)
(* starting from _current, where it believes the session to be.  The       *)
(* server keeps the session's real working directory, cwd.  Every command  *)
(* is one step: the server may refuse it, and its reply may be lost after  *)
(* the server has carried it out.                                          *)
(***************************************************************************)
EXTENDS Integers, Sequences

CONSTANTS
  Names,     \* directory names
  Drives,    \* Windows drives, such as "C:"
  Targets,   \* the lexically normal paths that changeDirectory is called with
  Dirs,      \* the directories of the server, each a sequence of components
  MaxCalls   \* bound: calls of changeDirectory and of the CWD probes

\* A path has a root (a slash, nothing or a drive) and components; an empty last
\* component is a trailing slash.  A relative path starts in the directory of the
\* login, which is the root of the server.
Path == [root : {"/", ""} \cup Drives, parts : Seq(Names \cup {""})]

ASSUME NamesAssumption ==
  {"/", ""} \cap (Names \cup Drives) = {} /\ Names \cap Drives = {}
ASSUME TargetsAssumption ==
  /\ Targets \subseteq Path
  /\ \A t \in Targets : \A i \in 1..(Len(t.parts) - 1) : t.parts[i] # ""
ASSUME DirsAssumption == /\ Dirs \subseteq Seq(Names \cup Drives)
                         /\ <<>> \in Dirs
                         /\ \A d \in Dirs \ {<<>>} : SubSeq(d, 1, Len(d) - 1) \in Dirs
ASSUME BoundAssumption == MaxCalls \in Nat

VARIABLES
  current,  \* the navigator's _current
  cwd,      \* the session's working directory on the server
  nav,      \* the call in progress: pc; target; select: the drive to select, or
            \* ""; ups and downs: the ".." and the components left to send;
            \* result: how the last call ended
  failed,   \* some command has failed
  plain,    \* history: every target so far was a plain path
  tidy,     \* history: no target on a drive so far had a trailing slash
  calls     \* bound: calls so far

vars == <<current, cwd, nav, failed, plain, tidy, calls>>

-----------------------------------------------------------------------------
(* Paths.                                                                  *)

\* split(p.relative_path()): a drive counts as the first component.
Split(p) == IF p.root \in Drives THEN <<p.root>> \o p.parts ELSE p.parts

ExtractDrive(p) == IF p.root \in Drives THEN p.root ELSE ""

TrailingSlash(p) == p.parts # <<>> /\ p.parts[Len(p.parts)] = ""

\* A path from the root, without a trailing slash.
IsPlain(p) == p.root = "/" /\ \A i \in DOMAIN p.parts : p.parts[i] # ""

\* The components that descendFromRoot sends: those that are not empty.
Descent(p) == IF TrailingSlash(p) THEN SubSeq(p.parts, 1, Len(p.parts) - 1) ELSE p.parts

\* Mutant: the loop stops before the first component, so that every walk goes up to
\* the root.
CommonNothing(s, t, n) == n = 0

\* The loop over the common components ends with n.
CommonPrefix(s, t, n) ==
  /\ n <= Len(s) /\ n <= Len(t)
  /\ \A i \in 1..n : s[i] = t[i]
  /\ n < Len(s) /\ n < Len(t) => s[n + 1] # t[n + 1]

-----------------------------------------------------------------------------
(* The server (external).  It has directories Dirs, stays at the root on   *)
(* ".." there, and in place when no name is given.                         *)

Up(dir) == IF dir = <<>> THEN dir ELSE SubSeq(dir, 1, Len(dir) - 1)
Into(dir, name) == IF name = "" THEN dir ELSE Append(dir, name)

-----------------------------------------------------------------------------
(* changeDirectory.                                                        *)

Moving(target, select, ups, downs) ==
  nav' = [pc |-> "moving", target |-> target, select |-> select,
          ups |-> ups, downs |-> downs, result |-> "none"]

Called(target) ==
  /\ nav.pc = "idle"
  /\ calls < MaxCalls
  /\ calls' = calls + 1
  /\ plain' = (plain /\ IsPlain(target))
  /\ tidy' = (tidy /\ (target.root \in Drives => ~TrailingSlash(target)))
  /\ UNCHANGED <<current, cwd, failed>>

\* The drives differ, or the path starts with a slash and _current does not.
RootJump(target) ==
  \/ ExtractDrive(current) # ExtractDrive(target)
  \/ target.root = "/" /\ current.root # "/"

\* Mutant: the drive is not selected.
JumpUnselected(target) ==
  Called(target) /\ RootJump(target) /\ Moving(target, "", 0, Descent(target))

\* Select the drive, if the target has one that is new, and descendFromRoot.
JumpTo(target) ==
  /\ Called(target)
  /\ RootJump(target)
  /\ Moving(target,
            IF ExtractDrive(current) # ExtractDrive(target) THEN ExtractDrive(target) ELSE "",
            0, Descent(target))

\* Up to the common ancestor and down to the target.
WalkTo(target) ==
  /\ Called(target)
  /\ ~RootJump(target)
  /\ \E common \in 0..Len(Split(current)) :
       /\ CommonPrefix(Split(current), Split(target), common)
       /\ Moving(target, "", Len(Split(current)) - common,
                 SubSeq(Split(target), common + 1, Len(Split(target))))

ChangeDirectory(target) == JumpTo(target) \/ WalkTo(target)

\* The next command of the call, if any, would take the session here.
SelectNext == nav.pc = "moving" /\ nav.select # ""
UpNext == nav.pc = "moving" /\ nav.select = "" /\ nav.ups > 0
DownNext == nav.pc = "moving" /\ nav.select = "" /\ nav.ups = 0 /\ nav.downs # <<>>
Restoring == nav.pc = "restoring"

Destination ==
  IF SelectNext THEN <<nav.select>>
  ELSE IF DownNext THEN Into(cwd, Head(nav.downs))
  ELSE Up(cwd)

\* A command is answered with 250.
Moved ==
  /\ Destination \in Dirs
  /\ cwd' = Destination
  /\ UNCHANGED <<current, failed, plain, tidy, calls>>

FtpSelectDrive == SelectNext /\ Moved /\ nav' = [nav EXCEPT !.select = ""]

\* Mutant: the loop misses an iteration.
FtpCdUpTwo == UpNext /\ Moved /\ nav' = [nav EXCEPT !.ups = @ - 2]

FtpCdUp == UpNext /\ Moved /\ nav' = [nav EXCEPT !.ups = @ - 1]

FtpCdDown == DownNext /\ Moved /\ nav' = [nav EXCEPT !.downs = Tail(@)]

\* Mutant: _current is left as it was.
ArriveUnnoticed ==
  /\ nav.pc = "moving" /\ nav.select = "" /\ nav.ups = 0 /\ nav.downs = <<>>
  /\ nav' = [nav EXCEPT !.pc = "idle", !.result = "ok"]
  /\ UNCHANGED <<current, cwd, failed, plain, tidy, calls>>

\* Every command was answered with 250.
Arrive ==
  /\ nav.pc = "moving" /\ nav.select = "" /\ nav.ups = 0 /\ nav.downs = <<>>
  /\ current' = nav.target
  /\ nav' = [nav EXCEPT !.pc = "idle", !.result = "ok"]
  /\ UNCHANGED <<cwd, failed, plain, tidy, calls>>

\* A command is refused, or its reply is lost: changeDirectory returns at once
\* and leaves _current as it was, wherever the session has got to.
CommandFails ==
  /\ SelectNext \/ UpNext \/ DownNext
  /\ cwd' \in {cwd} \cup ({Destination} \cap Dirs)
  /\ failed' = TRUE
  /\ nav' = [nav EXCEPT !.pc = "idle", !.result = "error"]
  /\ UNCHANGED <<current, plain, tidy, calls>>

-----------------------------------------------------------------------------
(* existsCwd and isDirectoryCwd, called in the directory just navigated    *)
(* to: they enter the name and go back with "..".                          *)

Probing ==
  /\ nav.result = "ok"
  /\ nav.pc = "idle"
  /\ calls < MaxCalls
  /\ calls' = calls + 1
  /\ UNCHANGED <<current, plain, tidy>>

\* CWD succeeds: the name is a directory, and ".." follows.
ProbeEnters(name) ==
  /\ Probing
  /\ Into(cwd, name) \in Dirs
  /\ cwd' = Into(cwd, name)
  /\ nav' = [nav EXCEPT !.pc = "restoring", !.result = "none"]
  /\ UNCHANGED failed

\* CWD is answered with 550: the name is no directory.
ProbeRefused ==
  /\ Probing
  /\ nav' = [nav EXCEPT !.result = "probed"]
  /\ UNCHANGED <<cwd, failed>>

\* The reply of existsCwd's CWD is lost; exists answers false.
ProbeLost(name) ==
  /\ Probing
  /\ cwd' \in {cwd} \cup ({Into(cwd, name)} \cap Dirs)
  /\ failed' = TRUE
  /\ nav' = [nav EXCEPT !.result = "probed"]

Restore == Restoring /\ Moved /\ nav' = [nav EXCEPT !.pc = "idle", !.result = "probed"]

\* isDirectoryCwd reports the failure; existsCwd logs it and answers true.
RestoreFails ==
  /\ Restoring
  /\ cwd' \in {cwd} \cup ({Destination} \cap Dirs)
  /\ failed' = TRUE
  /\ nav' = [nav EXCEPT !.pc = "idle", !.result = "probed"]
  /\ UNCHANGED <<current, plain, tidy, calls>>

-----------------------------------------------------------------------------

\* DefaultFtpNavigator starts at "/".
StartPath == [root |-> "/", parts |-> <<>>]

Init ==
  /\ current = StartPath
  /\ cwd = <<>>
  /\ nav = [pc |-> "idle", target |-> StartPath, select |-> "", ups |-> 0,
            downs |-> <<>>, result |-> "none"]
  /\ failed = FALSE
  /\ plain = TRUE
  /\ tidy = TRUE
  /\ calls = 0

Next ==
  \/ \E target \in Targets : ChangeDirectory(target)
  \/ FtpSelectDrive \/ FtpCdUp \/ FtpCdDown \/ Arrive \/ CommandFails
  \/ \E name \in Names : ProbeEnters(name) \/ ProbeLost(name)
  \/ ProbeRefused \/ Restore \/ RestoreFails

Spec == Init /\ [][Next]_vars

-----------------------------------------------------------------------------
(* Properties.                                                             *)

\* The navigator never sends a negative number of "..", and the session is always
\* in a directory that exists.
TypeOK ==
  /\ current \in Path
  /\ cwd \in Dirs
  /\ nav \in [pc : {"idle", "moving", "restoring"}, target : Path,
              select : Drives \cup {""}, ups : Nat,
              downs : Seq(Names \cup Drives \cup {""}),
              result : {"none", "ok", "error", "probed"}]
  /\ failed \in BOOLEAN
  /\ plain \in BOOLEAN
  /\ tidy \in BOOLEAN
  /\ calls \in Nat

\* As long as every command succeeded and only plain paths were asked for, the
\* navigator and the server agree: between calls on where the session is, and
\* during a call on where the commands that are left take it.
InSync ==
  plain /\ ~failed =>
    /\ nav.pc = "idle" => cwd = Split(current)
    /\ nav.pc = "moving" =>
         /\ nav.select = ""
         /\ nav.ups <= Len(cwd)
         /\ SubSeq(cwd, 1, Len(cwd) - nav.ups) \o nav.downs = Split(nav.target)
    /\ nav.pc = "restoring" =>
         cwd # <<>> /\ SubSeq(cwd, 1, Len(cwd) - 1) = Split(current)

\* "Minimal navigation: goes up to common ancestor then down to target": on its
\* way the session is only ever in ancestors of its start or of its target, and
\* never above a directory that is an ancestor of both.
IsAncestor(dir, of) == Len(dir) <= Len(of) /\ SubSeq(of, 1, Len(dir)) = dir
Shared(s, t, n) == n <= Len(s) /\ n <= Len(t) /\ \A i \in 1..n : s[i] = t[i]
OnTheWay ==
  plain /\ ~failed /\ nav.pc = "moving" =>
    /\ IsAncestor(cwd, Split(current)) \/ IsAncestor(cwd, Split(nav.target))
    /\ \A n \in 0..Len(Split(current)) :
         Shared(Split(current), Split(nav.target), n) => n <= Len(cwd)

\* The directory that a path stands for.
Place(p) == IF p.root \in Drives THEN <<p.root>> \o Descent(p) ELSE Descent(p)

\* As long as every command succeeded, a call to a path on a drive takes the
\* session there, and a probe leaves it there, whatever kinds of path were visited
\* before it: selecting the drive makes up for wherever the session was.  Only a
\* trailing slash behind a path on a drive spoils it: split() counts the empty
\* component, and a walk from there goes up once too often.
SyncOnDrive ==
  nav.pc = "idle" /\ ~failed /\ tidy /\ current.root \in Drives => cwd = Place(current)

=============================================================================
