------------------------------- MODULE IoPool -------------------------------
(***************************************************************************)
(* The thread pool of IoContextWrapper and the blocking calls that run on  *)
(* it.  Every blocking operation of the library (connect, listen, readSome,*)
(* readExact, readUntil, writeAll and what is built on them) spawns a      *)
(* coroutine on the pool and waits for its future.  The caller is a thread *)
(* of the application or a handler that itself runs on the pool: a client  *)
(* handler of the server, a ticket worker answering an error.              *)
(*                                                                         *)
(* What a coroutine does is the subject of the other modules: here it runs *)
(* on a thread, lets it go whenever it waits, and ends.  That a wait with a*)
(* timer ends is an assumption (Connection has the ways it can fail); the  *)
(* accept of listen() has no timer and may wait for ever.                  *)
(***************************************************************************)
EXTENDS Naturals, Sequences, FiniteSets

CONSTANTS
  Threads,    \* thread_count of the pool
  Callers,    \* threads of the application
  Handlers,   \* handlers of the pool that make blocking calls
  Listeners,  \* the actors whose calls are listen(), whose waits have no timer
  MaxWaits    \* bound: waits of one coroutine

ASSUME PoolAssumption == /\ Threads \in Nat \ {0}
                         /\ IsFiniteSet(Callers) /\ IsFiniteSet(Handlers)
                         /\ Callers \cap Handlers = {}
                         /\ Listeners \subseteq Callers \cup Handlers
                         /\ MaxWaits \in Nat

Actors == Callers \cup Handlers

VARIABLES
  pool,    \* up; stopping, inside shutdown(); stopped; destroyed
  queue,   \* what waits for a thread, oldest first: <<"call", x>>, <<"handler", h>>
  actor,   \* idle, blocked in future.get(); a handler also queued or running
  call,    \* the coroutine of the blocking call of each actor
  waits    \* waits the coroutine may still make

vars == <<pool, queue, actor, call, waits>>

-----------------------------------------------------------------------------
(* Threads.                                                                *)

\* A handler keeps its thread while it is blocked in a call.
Blocking == {h \in Handlers : actor[h] = "blocked"}
Busy == Cardinality({h \in Handlers : actor[h] \in {"running", "blocked"}})
          + Cardinality({x \in Actors : call[x] = "running"})

\* Every thread of the pool waits for a coroutine that needs a thread.
AllThreadsBlocked == Cardinality(Blocking) >= Threads

Init ==
  /\ pool = "up" /\ queue = <<>>
  /\ actor = [x \in Actors |-> "idle"]
  /\ call = [x \in Actors |-> "none"]
  /\ waits = [x \in Actors |-> 0]

-----------------------------------------------------------------------------
(* Blocking calls.                                                         *)

\* Mutant: co_spawn puts the coroutine before those that wait.
CallFirst(x) ==
  /\ pool # "destroyed" /\ x \in Callers /\ actor[x] = "idle"
  /\ actor' = [actor EXCEPT ![x] = "blocked"]
  /\ call' = [call EXCEPT ![x] = "queued"]
  /\ queue' = <<<<"call", x>>>> \o queue
  /\ \E n \in 0 .. MaxWaits : waits' = [waits EXCEPT ![x] = n]
  /\ UNCHANGED pool

\* A thread of the application calls: co_spawn with use_future queues the
\* coroutine, then future.get(); nothing is refused, not even when the pool has
\* been stopped.
Call(x) ==
  /\ pool # "destroyed" /\ x \in Callers /\ actor[x] = "idle"
  /\ actor' = [actor EXCEPT ![x] = "blocked"]
  /\ call' = [call EXCEPT ![x] = "queued"]
  /\ queue' = Append(queue, <<"call", x>>)
  /\ \E n \in 0 .. MaxWaits : waits' = [waits EXCEPT ![x] = n]
  /\ UNCHANGED pool

\* A handler calls: co_spawn is made on a thread of the pool, so the coroutine
\* starts at once on the handler's own thread and runs to its first wait; one
\* that ends without waiting has its completion posted.  The handler then blocks
\* its thread in future.get().
CallInline(h) ==
  /\ pool # "destroyed" /\ actor[h] = "running"
  /\ actor' = [actor EXCEPT ![h] = "blocked"]
  /\ \/ /\ \E n \in 1 .. MaxWaits : waits' = [waits EXCEPT ![h] = n - 1]
        /\ call' = [call EXCEPT ![h] = "waiting"]
        /\ UNCHANGED queue
     \/ /\ waits' = [waits EXCEPT ![h] = 0]
        /\ call' = [call EXCEPT ![h] = "queued"]
        /\ queue' = Append(queue, <<"call", h>>)
  /\ UNCHANGED pool

\* A thread of the pool takes the oldest task.
Take ==
  /\ pool = "up" /\ queue # <<>> /\ Busy < Threads
  /\ queue' = Tail(queue)
  /\ LET x == Head(queue)[2]
     IN IF Head(queue)[1] = "call"
          THEN call' = [call EXCEPT ![x] = "running"] /\ UNCHANGED actor
          ELSE actor' = [actor EXCEPT ![x] = "running"] /\ UNCHANGED call
  /\ UNCHANGED <<pool, waits>>

\* Mutant: the coroutine waits once more than it has to.
SuspendAgain(x) ==
  /\ call[x] = "running"
  /\ call' = [call EXCEPT ![x] = "waiting"]
  /\ waits' = [waits EXCEPT ![x] = @ - 1]
  /\ UNCHANGED <<pool, queue, actor>>

\* co_await: the coroutine waits for the descriptor and lets its thread go.
Suspend(x) ==
  /\ call[x] = "running" /\ waits[x] > 0
  /\ call' = [call EXCEPT ![x] = "waiting"]
  /\ waits' = [waits EXCEPT ![x] = @ - 1]
  /\ UNCHANGED <<pool, queue, actor>>

\* What the coroutine waits for happens: it wants a thread again.
Ready(x) ==
  /\ call[x] = "waiting"
  /\ call' = [call EXCEPT ![x] = "queued"]
  /\ queue' = Append(queue, <<"call", x>>)
  /\ UNCHANGED <<pool, actor, waits>>

\* The coroutine returns: its value is in the future.
Complete(x) ==
  /\ call[x] = "running"
  /\ call' = [call EXCEPT ![x] = "done"]
  /\ UNCHANGED <<pool, queue, actor, waits>>

\* Mutant: the exception of a broken promise is not caught.
ReturnUncaught(x) ==
  /\ actor[x] = "blocked" /\ call[x] = "done"
  /\ call' = [call EXCEPT ![x] = "none"]
  /\ actor' = [actor EXCEPT ![x] = IF x \in Callers THEN "idle" ELSE "running"]
  /\ UNCHANGED <<pool, queue, waits>>

\* future.get() gives the result, or throws because the coroutine was destroyed,
\* which the caller turns into an error code.
Return(x) ==
  /\ actor[x] = "blocked" /\ call[x] \in {"done", "broken"}
  /\ call' = [call EXCEPT ![x] = "none"]
  /\ actor' = [actor EXCEPT ![x] = IF x \in Callers THEN "idle" ELSE "running"]
  /\ UNCHANGED <<pool, queue, waits>>

-----------------------------------------------------------------------------
(* Handlers of the pool.                                                   *)

\* A connection or a frame arrives for a handler.
Arrive(h) ==
  /\ pool # "destroyed" /\ actor[h] = "idle"
  /\ actor' = [actor EXCEPT ![h] = "queued"]
  /\ queue' = Append(queue, <<"handler", h>>)
  /\ UNCHANGED <<pool, call, waits>>

\* The handler returns and its thread is free.
HandlerEnds(h) ==
  /\ actor[h] = "running"
  /\ actor' = [actor EXCEPT ![h] = "idle"]
  /\ UNCHANGED <<pool, queue, call, waits>>

-----------------------------------------------------------------------------
(* The end of the pool.                                                    *)

\* shutdown(), once: pool_.stop(), after which the threads take nothing more.
\* The destructor of the pool begins the same way.
Stop ==
  /\ pool = "up"
  /\ pool' = "stopping"
  /\ UNCHANGED <<queue, actor, call, waits>>

\* Mutant: shutdown() stops the pool and does not join it.
NotJoined == pool = "stopping" /\ pool' = "stopped" /\ UNCHANGED <<queue, actor, call, waits>>

\* Mutant: join() without stop(), which waits for the queue.
JoinedDrained ==
  /\ pool = "stopping" /\ Busy = 0 /\ queue = <<>>
  /\ pool' = "stopped"
  /\ UNCHANGED <<queue, actor, call, waits>>

\* pool_.join() returns when every thread has come back from its task.
Joined ==
  /\ pool = "stopping" /\ Busy = 0
  /\ pool' = "stopped"
  /\ UNCHANGED <<queue, actor, call, waits>>

\* The last copy of the wrapper goes: the pool destroys what it still holds, and
\* the futures of those coroutines are broken.
Destroy ==
  /\ pool = "stopped"
  /\ pool' = "destroyed"
  /\ queue' = <<>>
  /\ call' = [x \in Actors |-> IF call[x] \in {"queued", "waiting"} THEN "broken" ELSE call[x]]
  /\ actor' = [x \in Actors |-> IF actor[x] = "queued" THEN "idle" ELSE actor[x]]
  /\ UNCHANGED waits

Coroutine(x) == Suspend(x) \/ Complete(x)

Next ==
  \/ Take \/ Stop \/ Joined \/ Destroy
  \/ \E x \in Actors : Call(x) \/ Coroutine(x) \/ Ready(x) \/ Return(x)
  \/ \E h \in Handlers : Arrive(h) \/ CallInline(h) \/ HandlerEnds(h)

Spec == Init /\ [][Next]_vars

\* Threads run what they hold and take what waits, waits with a timer end, futures
\* wake who waits for them, handlers return.  Nobody has to call, to connect to a
\* listener or to shut down.
FairSpec ==
  /\ Spec
  /\ WF_vars(Take) /\ WF_vars(Joined)
  /\ \A x \in Actors : WF_vars(Coroutine(x)) /\ WF_vars(Return(x))
  /\ \A x \in Actors \ Listeners : WF_vars(Ready(x))
  /\ \A h \in Handlers : WF_vars(HandlerEnds(h))

-----------------------------------------------------------------------------
(* Properties.                                                             *)

\* The state is well typed.
TypeOK ==
  /\ pool \in {"up", "stopping", "stopped", "destroyed"}
  /\ queue \in Seq(({"call"} \X Actors) \cup ({"handler"} \X Handlers))
  /\ actor \in [Actors -> {"idle", "queued", "running", "blocked"}]
  /\ call \in [Actors -> {"none", "queued", "running", "waiting", "done", "broken"}]
  /\ waits \in [Actors -> 0 .. MaxWaits]

\* "let running tasks finish" and "wait for threads" (Context.cpp): when
\* shutdown has returned no coroutine and no handler is inside a thread.
JoinedMeansQuiet ==
  pool \in {"stopped", "destroyed"} =>
    /\ \A x \in Actors : call[x] # "running"
    /\ \A h \in Handlers : actor[h] \notin {"running", "blocked"}

\* A blocking call whose waits end (every call but listen(), whose accept has no
\* timer) returns unless the pool is shut down or all its threads are blocked in
\* calls of handlers: the pool itself has only these two ways to keep a caller.
CallReturns ==
  \A x \in Actors \ Listeners :
    (actor[x] = "blocked") ~> (actor[x] # "blocked" \/ pool # "up" \/ AllThreadsBlocked)

\* shutdown() returns unless a handler is blocked in a call: the coroutine it
\* waits for gets no thread any more, and join() waits for the handler.
ShutdownReturns == (pool = "stopping") ~> (pool # "stopping" \/ Blocking # {})

\* Once the pool is destroyed nobody stays blocked: the broken futures wake the
\* callers that shutdown() left waiting.
DestroyReleases == (pool = "destroyed") ~> [](\A x \in Actors : actor[x] # "blocked")
=============================================================================
