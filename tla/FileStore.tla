------------------------------ MODULE FileStore ------------------------------
(***************************************************************************)
(* A file store as IAbstractFileTransfer describes it, without commands,   *)
(* replies and directories to be in: a call concerns one path, changes     *)
(* nothing else, and its answer is true of the store.  FtpFileTransfer     *)
(* gives three answers that the interface does not allow; they are named   *)
(* here (Departs).  An implementation may get into trouble, in which       *)
(* nothing is promised.                                                    *)
(***************************************************************************)
EXTENDS Integers, Sequences

CONSTANTS
  Paths,      \* the paths of the store, each a sequence of names
  Apis,       \* the calls
  FirstStore  \* the store at first

VARIABLES
  store,    \* path -> "none", "dir", "file", or "cut", a file with a part of its data
  call,     \* the call in progress: api, path and what was there before it; or NoCall
  answer,   \* of the last call
  trouble   \* the session cannot be relied upon

vars == <<store, call, answer, trouble>>

NoCall == [api |-> "none", path |-> <<>>, before |-> "none"]

Init == store = FirstStore /\ call = NoCall /\ answer = "none" /\ trouble \in BOOLEAN

Kind(s, p) == IF p = <<>> THEN "dir" ELSE IF p \in Paths THEN s[p] ELSE "none"

Empty(s, p) == \A q \in Paths : Len(q) > Len(p) /\ SubSeq(q, 1, Len(p)) = p => s[q] = "none"

Begin(api, p) ==
  /\ call = NoCall
  /\ call' = [api |-> api, path |-> p, before |-> Kind(store, p)]
  /\ answer' = "none"
  /\ UNCHANGED store

\* createDir makes a directory where nothing was, remove takes away a file or an
\* empty directory, write puts a file, cut at first, where no directory is.
Change ==
  /\ call.path \in Paths
  /\ \E k \in {"none", "dir", "file", "cut"} :
       /\ store' = [store EXCEPT ![call.path] = k]
       /\ CASE call.api = "createDir" -> store[call.path] = "none" /\ k = "dir"
            [] call.api = "remove"    -> k = "none" /\ Empty(store, call.path)
            [] call.api = "write"     -> k \in {"file", "cut"} /\ store[call.path] # "dir"
            [] OTHER -> FALSE
  /\ UNCHANGED <<call, answer>>

\* What the interface says of the answer a for a path of kind k.  A call may always
\* fail; an error of createDir or remove is taken to mean that nothing has changed,
\* unless the call got into trouble.
Promised(a, k) ==
  IF a = "error" THEN call.api \in {"createDir", "remove"} => k = call.before \/ trouble'
  ELSE CASE call.api = "createDir"   -> a = "ok" /\ k = "dir"
         [] call.api = "remove"      -> a = "ok" /\ k = "none"
         [] call.api = "write"       -> a = "ok" /\ k = "file"
         [] call.api = "read"        -> a = "ok" /\ k \in {"file", "cut"}
         [] call.api = "list"        -> a = "ok" /\ k = "dir"
         [] call.api = "exists"      -> a = IF k = "none" THEN "false" ELSE "true"
         [] call.api = "isDirectory" -> a = IF k = "dir" THEN "true" ELSE "false"
         [] OTHER -> FALSE

\* Where FtpFileTransfer departs from it: createDir is content with a file, "false" of
\* exists stands for every reason not to know, and a listing that is cut is returned.
\* (And isDirectory fails where "false" is promised, of a path that is not there: a
\* failure like any other to whoever sees only the answer.)
Departs(a, k) ==
  \/ call.api = "createDir" /\ a = "ok" /\ k \in {"file", "cut"}
  \/ call.api = "exists" /\ a = "false" /\ k # "none"
  \/ call.api = "list" /\ a = "cut" /\ k = "dir"

Truthful(a) == LET k == Kind(store, call.path) IN Promised(a, k) \/ Departs(a, k)

Answer(a) ==
  /\ call # NoCall
  /\ Truthful(a)
  /\ answer' = a
  /\ call' = NoCall
  /\ UNCHANGED store

Next ==
  \/ trouble
  \/ \E api \in Apis, p \in Paths \cup {<<>>} : Begin(api, p)
  \/ Change
  \/ \E a \in {"ok", "cut", "true", "false", "error"} : Answer(a)
  \/ UNCHANGED <<store, call, answer>>

Spec == Init /\ [][Next]_vars

==============================================================================
