---------------------------- MODULE IoPool_proofs ----------------------------
(***************************************************************************)
(* Proofs about IoPool, for any number of threads, of application threads, *)
(* of handlers and of waits.                                               *)
(***************************************************************************)
EXTENDS IoPool, SequenceTheorems, FiniteSetTheorems, TLAPS

Tasks == ({"call"} \X Actors) \cup ({"handler"} \X Handlers)

-----------------------------------------------------------------------------
(* Types.                                                                  *)

LEMMA TypeStep ==
  ASSUME TypeOK, [Next]_vars
  PROVE  TypeOK'
<1> USE PoolAssumption DEF Actors
<1>0. queue \in Seq(Tasks)
  BY DEF TypeOK, Tasks
<1>1. CASE Take
  <2>1. queue # <<>> /\ queue' = Tail(queue)
    BY <1>1 DEF Take
  <2>2. Head(queue) \in Tasks /\ queue' \in Seq(Tasks)
    BY <1>0, <2>1, HeadTailProperties
  <2>3. Head(queue)[2] \in Actors
    BY <2>2 DEF Tasks
  <2>4. QED
    BY <1>1, <2>2, <2>3 DEF Take, TypeOK, Tasks
<1>2. CASE Stop \/ Joined
  BY <1>2 DEF Stop, Joined, TypeOK
<1>3. CASE Destroy
  <2>1. queue' \in Seq(Tasks)
    BY <1>3 DEF Destroy
  <2>2. QED
    BY <1>3, <2>1 DEF Destroy, TypeOK, Tasks
<1>4. ASSUME NEW x \in Actors, Call(x) PROVE TypeOK'
  <2>1. <<"call", x>> \in Tasks
    BY DEF Tasks
  <2>2. queue' \in Seq(Tasks)
    BY <1>0, <1>4, <2>1, AppendProperties DEF Call
  <2>3. QED
    BY <1>4, <2>2 DEF Call, TypeOK, Tasks
<1>c. ASSUME NEW h \in Handlers, CallInline(h) PROVE TypeOK'
  <2>1. <<"call", h>> \in Tasks
    BY DEF Tasks
  <2>2. queue' \in Seq(Tasks)
    BY <1>0, <1>c, <2>1, AppendProperties DEF CallInline
  <2>3. waits' \in [Actors -> 0 .. MaxWaits]
    BY <1>c DEF CallInline, TypeOK
  <2>4. QED
    BY <1>c, <2>2, <2>3 DEF CallInline, TypeOK, Tasks
<1>5. ASSUME NEW x \in Actors, Coroutine(x) PROVE TypeOK'
  BY <1>5 DEF Coroutine, Suspend, Complete, TypeOK
<1>6. ASSUME NEW x \in Actors, Ready(x) PROVE TypeOK'
  <2>1. <<"call", x>> \in Tasks
    BY DEF Tasks
  <2>2. queue' \in Seq(Tasks)
    BY <1>0, <1>6, <2>1, AppendProperties DEF Ready
  <2>3. QED
    BY <1>6, <2>2 DEF Ready, TypeOK, Tasks
<1>7. ASSUME NEW x \in Actors, Return(x) PROVE TypeOK'
  BY <1>7 DEF Return, TypeOK
<1>8. ASSUME NEW h \in Handlers, Arrive(h) PROVE TypeOK'
  <2>1. <<"handler", h>> \in Tasks
    BY DEF Tasks
  <2>2. queue' \in Seq(Tasks)
    BY <1>0, <1>8, <2>1, AppendProperties DEF Arrive
  <2>3. QED
    BY <1>8, <2>2 DEF Arrive, TypeOK, Tasks
<1>9. ASSUME NEW h \in Handlers, HandlerEnds(h) PROVE TypeOK'
  BY <1>9 DEF HandlerEnds, TypeOK
<1>10. CASE UNCHANGED vars
  BY <1>10 DEF vars, TypeOK
<1>11. QED
  BY <1>1, <1>2, <1>3, <1>4, <1>c, <1>5, <1>6, <1>7, <1>8, <1>9, <1>10 DEF Next

\* Blocking calls, handlers and the end of the pool keep the types.
THEOREM TypeCorrect == Spec => []TypeOK
<1>1. Init => TypeOK
  BY PoolAssumption DEF Init, TypeOK
<1>2. TypeOK /\ [Next]_vars => TypeOK'
  BY TypeStep
<1>3. QED
  BY <1>1, <1>2, PTL DEF Spec

-----------------------------------------------------------------------------
(* The end of the pool.                                                    *)

\* No thread is busy exactly when nothing runs and no handler is blocked.
LEMMA NotBusy ==
  ASSUME TypeOK, Busy = 0
  PROVE  /\ \A x \in Actors : call[x] # "running"
         /\ \A h \in Handlers : actor[h] \notin {"running", "blocked"}
<1> DEFINE H == {h \in Handlers : actor[h] \in {"running", "blocked"}}
           C == {x \in Actors : call[x] = "running"}
<1>1. IsFiniteSet(Handlers) /\ IsFiniteSet(Actors)
  BY PoolAssumption, FS_Union DEF Actors
<1>2. IsFiniteSet(H) /\ IsFiniteSet(C)
  BY <1>1, FS_Subset
<1>3. Cardinality(H) \in Nat /\ Cardinality(C) \in Nat
  BY <1>2, FS_CardinalityType
<1>4. Busy = Cardinality(H) + Cardinality(C)
  BY DEF Busy
<1> HIDE DEF H, C
<1>5. Cardinality(H) = 0 /\ Cardinality(C) = 0
  BY <1>3, <1>4
<1>6. H = {} /\ C = {}
  BY <1>2, <1>5, FS_EmptySet
<1>7. QED
  BY <1>6 DEF H, C

LEMMA QuietStep ==
  ASSUME TypeOK, JoinedMeansQuiet, [Next]_vars
  PROVE  JoinedMeansQuiet'
<1> USE PoolAssumption DEF Actors, JoinedMeansQuiet
<1>1. CASE Take \/ Stop
  BY <1>1 DEF Take, Stop
<1>2. CASE Joined
  BY <1>2, NotBusy DEF Joined
<1>3. CASE Destroy
  BY <1>3 DEF Destroy, TypeOK
<1>4. ASSUME NEW x \in Actors, Call(x) PROVE JoinedMeansQuiet'
  BY <1>4 DEF Call, TypeOK
<1>5. ASSUME NEW x \in Actors, Coroutine(x) \/ Ready(x) PROVE JoinedMeansQuiet'
  BY <1>5 DEF Coroutine, Suspend, Complete, Ready, TypeOK
<1>6. ASSUME NEW x \in Actors, Return(x) PROVE JoinedMeansQuiet'
  BY <1>6 DEF Return, TypeOK
<1>7. ASSUME NEW h \in Handlers, Arrive(h) \/ CallInline(h) \/ HandlerEnds(h) PROVE JoinedMeansQuiet'
  BY <1>7 DEF Arrive, CallInline, HandlerEnds, TypeOK
<1>8. CASE UNCHANGED vars
  BY <1>8 DEF vars
<1>9. QED
  BY <1>1, <1>2, <1>3, <1>4, <1>5, <1>6, <1>7, <1>8 DEF Next

\* When IoContextWrapper::shutdown has returned nothing runs on a thread of the
\* pool, and nothing will.
THEOREM JoinedIsQuiet == Spec => []JoinedMeansQuiet
<1>1. Init => JoinedMeansQuiet
  BY DEF Init, JoinedMeansQuiet
<1>2. TypeOK /\ JoinedMeansQuiet /\ [Next]_vars => JoinedMeansQuiet'
  BY QuietStep
<1>3. QED
  BY <1>1, <1>2, TypeCorrect, PTL DEF Spec

=============================================================================
