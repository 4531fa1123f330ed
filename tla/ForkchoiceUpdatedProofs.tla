---------------------- MODULE ForkchoiceUpdatedProofs ----------------------
(***************************************************************************)
(* Theorems about ForkchoiceUpdated, for any number of tasks, requests and *)
(* blocks, every cache size and every matching mode.                       *)
(***************************************************************************)
EXTENDS ForkchoiceUpdated, LruCacheProofs

-----------------------------------------------------------------------------
(* The states of a task.                                                   *)

LEMMA DecodedAttributesType ==
    ASSUME NEW r \in Request, NEW version \in 2 .. 3,
           AttributesDecodeAs(r.attrs, version)
    PROVE  DecodedAttributes(r.attrs, version)
               \in PayloadAttributes(Nat) \cup {NoAttributes}
BY DEF Request, AttributesDecodeAs, DecodedAttributes, PayloadAttributes,
       NoAttributes

LEMMA RepliedType ==
    ASSUME NEW s \in TaskState, NEW r \in Reply
    PROVE  Replied(s, r) \in TaskState
<1>1. 0 \in 0 .. MaxPolls
  BY ForkchoiceUpdatedAssumption
<1> QED
  BY <1>1 DEF TaskState, TaskRecord, HasStatus, Replied, Pc

LEMMA WithStatusType ==
    ASSUME NEW s \in TaskState, NEW status \in Status
    PROVE  WithStatus(s, status) \in TaskState
<1>1. status \in Reply
  BY DEF Reply
<1>2. Replied(s, status) \in TaskState
  BY <1>1, RepliedType
<1>3. [s EXCEPT !.pc = "attributes", !.found = status] \in TaskState
  BY DEF TaskState, TaskRecord, HasStatus, Pc
<1> QED
  BY <1>2, <1>3 DEF WithStatus

LEMMA AfterLookupType ==
    ASSUME NEW t \in Task, NEW s \in TaskState,
           NEW result \in Status \cup {"none"}
    PROVE  AfterLookup(t, s, result) \in TaskState
<1>1. CASE result # "none"
  BY <1>1, WithStatusType DEF AfterLookup
<1>2. CASE result = "none"
  <2>1. [s EXCEPT !.pc = "el_call", !.found = "none"] \in TaskState
    BY DEF TaskState, TaskRecord, HasStatus, Pc
  <2>2. [s EXCEPT !.pc = "wait", !.found = "none"] \in TaskState
    BY DEF TaskState, TaskRecord, HasStatus, Pc
  <2>3. WithStatus(s, "SYNCING") \in TaskState
    BY WithStatusType DEF Status
  <2> QED
    BY <1>2, <2>1, <2>2, <2>3 DEF AfterLookup
<1> QED
  BY <1>1, <1>2

\* What MatchedFcu returns is a cached entry that matches.
LEMMA MatchedFcuIsCached ==
    ASSUME TypeOK, NEW fcu \in Fcu, MatchingFcus(fcu) # {}
    PROVE  /\ MatchedFcu(fcu) \in MatchingFcus(fcu)
           /\ MatchedFcu(fcu) \in DOMAIN fcu_cache
           /\ MatchedFcu(fcu) \in Fcu
           /\ fcu_cache[MatchedFcu(fcu)].val \in Status
<1>1. MatchingFcus(fcu) \subseteq DOMAIN fcu_cache
  BY DEF MatchingFcus
<1>2. IsLru(fcu_cache, fcu_cache_size, Fcu, Status) /\ fcu_cache_size \in Nat
  BY ForkchoiceUpdatedAssumption DEF TypeOK
<1>3. MatchedFcu(fcu) \in MatchingFcus(fcu) \cap DOMAIN fcu_cache
  BY <1>1, <1>2, LruFirstIsCached DEF MatchedFcu
<1> QED
  BY <1>2, <1>3 DEF IsLru

-----------------------------------------------------------------------------
(* Type correctness.                                                       *)

\* TypeOK holds initially.
LEMMA TypeOKInit == Init => TypeOK
<1> SUFFICES ASSUME Init PROVE TypeOK
  OBVIOUS
<1>1. GenesisFcu \in Fcu
  BY ForkchoiceUpdatedAssumption DEF GenesisFcu, Fcu, ForkchoiceState
<1>2. task \in [Task -> TaskState]
  BY <1>1, ForkchoiceUpdatedAssumption
  DEF Init, TaskState, TaskRecord, HasStatus, Pc, Reply
<1>3. /\ IsLru(fcu_cache, fcu_cache_size, Fcu, Status)
      /\ IsLru(justified_block_cache, justified_block_cache_size, Block,
               {"unit"})
      /\ IsLru(finalized_block_cache, FinalizedBlockCacheCapacity, Block,
               {"unit"})
  BY LruEmptyIsLru DEF Init
<1> QED
  BY <1>1, <1>2, <1>3 DEF Init, TypeOK

\* A step that leaves the caches and the engine alone keeps TypeOK if it
\* moves one task to a task state.
LEMMA TypeOKTaskMoves ==
    ASSUME TypeOK, NEW t \in Task, NEW s \in TaskState,
           task' = [task EXCEPT ![t] = s],
           UNCHANGED <<fcu_cache, checkpoints, engine>>
    PROVE  TypeOK'
<1>1. task' \in [Task -> TaskState]
  BY DEF TypeOK
<1> QED
  BY <1>1 DEF TypeOK, checkpoints, engine

\* Every step preserves TypeOK.
LEMMA TypeOKStep == TypeOK /\ [Next]_vars => TypeOK'
<1> SUFFICES ASSUME TypeOK, [Next]_vars PROVE TypeOK'
  OBVIOUS
<1> USE ForkchoiceUpdatedAssumption
<1>0. \A t \in Task : task[t] \in TaskState /\ task[t].fcu \in Fcu
  BY DEF TypeOK, TaskState, TaskRecord, HasStatus
<1>1. ASSUME NEW t \in Task, NEW r \in Request, NEW version \in 2 .. 3,
             NEW pc \in {"lookup", "wait"}, NEW polls \in 0 .. MaxPolls,
             Receive(t, r, version, pc, polls)
      PROVE  TypeOK'
  <2>1. [task[t] EXCEPT !.fcu = r.fcu] \in TaskState
    BY <1>0 DEF TaskState, TaskRecord, HasStatus, Request
  <2>2. Replied([task[t] EXCEPT !.fcu = r.fcu], "ParseError") \in TaskState
    BY <2>1, RepliedType DEF Reply, ErrorCode
  <2>3. AttributesDecodeAs(r.attrs, version)
           => Parsed(r, version, pc, polls) \in TaskState
    <3> SUFFICES ASSUME AttributesDecodeAs(r.attrs, version)
                 PROVE  Parsed(r, version, pc, polls) \in TaskState
      OBVIOUS
    <3>1. DecodedAttributes(r.attrs, version)
             \in PayloadAttributes(Nat) \cup {NoAttributes}
      BY DecodedAttributesType
    <3> QED
      BY <3>1 DEF Parsed, TaskState, TaskRecord, HasStatus, Pc, Reply, Request
  <2>4. PICK s \in TaskState : task' = [task EXCEPT ![t] = s]
    BY <1>1, <2>2, <2>3 DEF Receive
  <2> QED
    BY <1>1, <2>4, TypeOKTaskMoves DEF Receive
<1>2. ASSUME NEW t \in ControllerTask, NEW r \in ControllerRequests,
             ControllerReceives(t, r)
      PROVE  TypeOK'
  BY <1>1, <1>2 DEF ControllerReceives, ControllerAttributesVersion, Task
<1>3. ASSUME NEW t \in ClientTask, NEW r \in ClientRequests,
             ClientReceives(t, r)
      PROVE  TypeOK'
  BY <1>1, <1>3 DEF ClientReceives, ClientAttributesVersion, Task
<1>4. ASSUME NEW t \in Task, LookupMisses(t)
      PROVE  TypeOK'
  BY <1>0, <1>4, AfterLookupType, TypeOKTaskMoves DEF LookupMisses
<1>5. ASSUME NEW t \in Task, LookupFinds(t)
      PROVE  TypeOK'
  <2> DEFINE f == MatchedFcu(task[t].fcu)
             status == fcu_cache[f].val
             result == IF DefiniteEnough(task[t].definite_only, status)
                       THEN status ELSE "none"
  <2>1. f \in DOMAIN fcu_cache /\ status \in Status
    BY <1>0, <1>5, MatchedFcuIsCached DEF LookupFinds
  <2>2. AfterLookup(t, task[t], result) \in TaskState
    BY <1>0, <2>1, AfterLookupType
  <2>3. task' = [task EXCEPT ![t] = AfterLookup(t, task[t], result)]
    BY <1>5 DEF LookupFinds
  <2>4. task' \in [Task -> TaskState]
    BY <2>2, <2>3 DEF TypeOK
  <2>5. IsLru(LruTouch(fcu_cache, f), fcu_cache_size, Fcu, Status)
    BY <2>1, LruTouchIsLru DEF TypeOK
  <2>6. IsLru(fcu_cache', fcu_cache_size, Fcu, Status)
    BY <1>5, <2>5 DEF LookupFinds, TypeOK
  <2> QED
    BY <1>5, <2>4, <2>6 DEF LookupFinds, TypeOK, checkpoints, engine
<1>6. ASSUME NEW t \in Task, LookupFindsLoosely(t)
      PROVE  TypeOK'
  <2> DEFINE status == fcu_cache[MatchedFcu(task[t].fcu)].val
             s == [task[t] EXCEPT !.pc = "check_justified", !.found = status]
  <2>1. status \in Status
    BY <1>0, <1>6, MatchedFcuIsCached DEF LookupFindsLoosely
  <2> HIDE DEF status
  <2>2. s \in TaskState
    BY <1>0, <2>1 DEF TaskState, TaskRecord, HasStatus, Pc
  <2>3. task' = [task EXCEPT ![t] = s]
    BY <1>6 DEF LookupFindsLoosely, TypeOK, status
  <2> HIDE DEF s
  <2> QED
    BY <1>6, <2>2, <2>3, TypeOKTaskMoves DEF LookupFindsLoosely
<1>7. ASSUME NEW t \in Task, CheckJustified(t)
      PROVE  TypeOK'
  <2>1. [task[t] EXCEPT !.pc = "check_finalized"] \in TaskState
    BY <1>0, <1>7 DEF CheckJustified, TaskState, TaskRecord, HasStatus, Pc
  <2>2. AfterLookup(t, task[t], "none") \in TaskState
    BY <1>0, AfterLookupType
  <2>3. PICK s \in TaskState : task' = [task EXCEPT ![t] = s]
    BY <1>7, <2>1, <2>2 DEF CheckJustified
  <2> QED
    BY <1>7, <2>3, TypeOKTaskMoves DEF CheckJustified
<1>8. ASSUME NEW t \in Task, CheckFinalized(t)
      PROVE  TypeOK'
  <2>1. task[t].found \in Status \cup {"none"}
    BY <1>0 DEF TaskState, TaskRecord, HasStatus
  <2>2. /\ AfterLookup(t, task[t], task[t].found) \in TaskState
        /\ AfterLookup(t, task[t], "none") \in TaskState
    BY <1>0, <2>1, AfterLookupType
  <2>3. PICK s \in TaskState : task' = [task EXCEPT ![t] = s]
    BY <1>8, <2>2 DEF CheckFinalized
  <2> QED
    BY <1>8, <2>3, TypeOKTaskMoves DEF CheckFinalized
<1>9. ASSUME NEW t \in Task, NEW status \in EngineStatus,
             EngineAnswers(t, status)
      PROVE  TypeOK'
  <2> DEFINE s == [task[t] EXCEPT !.pc = "el_done", !.found = status]
  <2>a. s \in TaskState
    BY <1>0 DEF TaskState, TaskRecord, HasStatus, Pc
  <2>b. task' = [task EXCEPT ![t] = s]
    BY <1>9 DEF EngineAnswers, TypeOK
  <2>1. task' \in [Task -> TaskState]
    BY <2>a, <2>b DEF TypeOK
  <2>2. el_said' \subseteq Fcu \X Status /\ el_forkchoice' \in Fcu
    BY <1>0, <1>9 DEF EngineAnswers, EngineApplies, TypeOK
  <2> QED
    BY <1>9, <2>1, <2>2 DEF EngineAnswers, TypeOK, checkpoints
<1>10. ASSUME NEW t \in Task, NEW r \in Reply,
              orphans' \subseteq Fcu,
              task' = [task EXCEPT ![t] = Replied(@, r)],
              UNCHANGED <<fcu_cache, checkpoints, el_forkchoice, el_said>>
       PROVE  TypeOK'
  <2>1. Replied(task[t], r) \in TaskState
    BY <1>0, RepliedType
  <2>2. task' \in [Task -> TaskState]
    BY <1>10, <2>1 DEF TypeOK
  <2> QED
    BY <1>10, <2>2 DEF TypeOK, checkpoints
<1>11. ASSUME NEW t \in Task, EngineCallFails(t)
       PROVE  TypeOK'
  <2>1. orphans' \subseteq Fcu
    BY <1>0, <1>11 DEF EngineCallFails, TypeOK
  <2>2. "InvalidRequest" \in Reply
    BY DEF Reply, ErrorCode
  <2> QED
    BY <1>10, <1>11, <2>1, <2>2 DEF EngineCallFails
<1>12. ASSUME NEW t \in Task, Disconnect(t)
       PROVE  TypeOK'
  <2>1. orphans' \subseteq Fcu
    BY <1>0, <1>12 DEF Disconnect, TypeOK
  <2>2. "dropped" \in Reply
    BY DEF Reply
  <2> QED
    BY <1>10, <1>12, <2>1, <2>2 DEF Disconnect
<1>13. ASSUME NEW fcu \in orphans, NEW status \in EngineStatus,
              EngineProcessesOrphan(fcu, status)
       PROVE  TypeOK'
  BY <1>13 DEF EngineProcessesOrphan, EngineApplies, TypeOK, checkpoints
<1>14. ASSUME NEW t \in Task, UpdateFcuCache(t)
       PROVE  TypeOK'
  <2>1. task[t].found \in Status
    BY <1>0, <1>14 DEF UpdateFcuCache, TaskState, HasStatus
  <2>2. WithStatus(task[t], task[t].found) \in TaskState
    BY <1>0, <2>1, WithStatusType
  <2>3. [task[t] EXCEPT !.pc = "put_justified"] \in TaskState
    BY <1>0, <2>1 DEF TaskState, TaskRecord, HasStatus, Pc
  <2>4. task' \in [Task -> TaskState]
    BY <1>14, <2>2, <2>3 DEF UpdateFcuCache, TypeOK
  <2>5. CASE RedundantUpdate(task[t].fcu)
    <3>1. task[t].fcu \in DOMAIN fcu_cache
      BY <2>5 DEF RedundantUpdate, LruContains
    <3>2. IsLru(LruTouch(fcu_cache, task[t].fcu), fcu_cache_size, Fcu, Status)
      BY <3>1, LruTouchIsLru DEF TypeOK
    <3> QED
      BY <1>14, <2>4, <2>5, <3>2
      DEF UpdateFcuCache, TypeOK, checkpoints, engine
  <2>6. CASE ~RedundantUpdate(task[t].fcu)
    <3>1. IsLru(LruPut(fcu_cache, fcu_cache_size, task[t].fcu,
                       task[t].found), fcu_cache_size, Fcu, Status)
      BY <1>0, <2>1, LruPutIsLru DEF TypeOK
    <3> QED
      BY <1>14, <2>4, <2>6, <3>1
      DEF UpdateFcuCache, TypeOK, checkpoints, engine
  <2> QED
    BY <2>5, <2>6
<1>15. ASSUME NEW t \in Task, PutJustified(t)
       PROVE  TypeOK'
  <2>1. task' \in [Task -> TaskState]
    BY <1>0, <1>15
    DEF PutJustified, TypeOK, TaskState, TaskRecord, HasStatus, Pc
  <2>2. task[t].fcu.safe_block_hash \in Block
    BY <1>0 DEF Fcu, ForkchoiceState
  <2>3. IsLru(justified_block_cache', justified_block_cache_size, Block,
              {"unit"})
    BY <1>15, <2>2, LruPutIsLru
    DEF PutJustified, TypeOK, JustifiedBlockCacheCapacity
  <2> QED
    BY <1>15, <2>1, <2>3 DEF PutJustified, TypeOK, engine
<1>16. ASSUME NEW t \in Task, PutFinalized(t)
       PROVE  TypeOK'
  <2>1. task[t].found \in Status
    BY <1>0, <1>16 DEF PutFinalized, TaskState, HasStatus
  <2>2. WithStatus(task[t], task[t].found) \in TaskState
    BY <1>0, <2>1, WithStatusType
  <2>3. task' \in [Task -> TaskState]
    BY <1>16, <2>2 DEF PutFinalized, TypeOK
  <2>4. task[t].fcu.finalized_block_hash \in Block
    BY <1>0 DEF Fcu, ForkchoiceState
  <2>5. IsLru(finalized_block_cache', FinalizedBlockCacheCapacity, Block,
              {"unit"})
    <3>1. FinalizedBlockCacheCapacity \in Nat \ {0}
      BY DEF FinalizedBlockCacheCapacity
    <3>2. IsLru(finalized_block_cache, FinalizedBlockCacheCapacity, Block,
                {"unit"})
      BY DEF TypeOK
    <3>3. IsLru(LruPut(finalized_block_cache, FinalizedBlockCacheCapacity,
                       task[t].fcu.finalized_block_hash, "unit"),
                FinalizedBlockCacheCapacity, Block, {"unit"})
      BY <2>4, <3>1, <3>2, LruPutIsLru
    <3> QED
      BY <1>16, <3>3 DEF PutFinalized, FinalizedBlockCacheCapacity
  <2> QED
    BY <1>16, <2>3, <2>5 DEF PutFinalized, TypeOK, engine
<1>17. ASSUME NEW t \in Task, Poll(t)
       PROVE  TypeOK'
  <2> DEFINE s == [task[t] EXCEPT !.pc = "lookup", !.polls = @ - 1]
  <2>1. s \in TaskState
    <3>1. task[t] \in TaskRecord /\ task[t].polls - 1 \in 0 .. MaxPolls
      BY <1>0, <1>17 DEF Poll, TaskState, TaskRecord
    <3>2. s \in TaskRecord /\ s.pc = "lookup"
      BY <3>1 DEF TaskRecord, Pc
    <3> QED
      BY <3>2 DEF TaskState, HasStatus
  <2>2. task' = [task EXCEPT ![t] = s]
    BY <1>17 DEF Poll, TypeOK
  <2> HIDE DEF s
  <2> QED
    BY <1>17, <2>1, <2>2, TypeOKTaskMoves DEF Poll
<1>18. ASSUME NEW t \in Task, TimeUp(t)
       PROVE  TypeOK'
  <2> DEFINE s == [task[t] EXCEPT !.pc = "lookup", !.polls = 0,
                                  !.definite_only = FALSE]
  <2>1. s \in TaskState
    <3>1. task[t] \in TaskRecord /\ 0 \in 0 .. MaxPolls
      BY <1>0 DEF TaskState
    <3>2. s \in TaskRecord /\ s.pc = "lookup"
      BY <3>1 DEF TaskRecord, Pc
    <3> QED
      BY <3>2 DEF TaskState, HasStatus
  <2>2. task' = [task EXCEPT ![t] = s]
    BY <1>18 DEF TimeUp, TypeOK
  <2> HIDE DEF s
  <2> QED
    BY <1>18, <2>1, <2>2, TypeOKTaskMoves DEF TimeUp
<1>19. ASSUME NEW t \in Task, NEW outcome \in BuilderOutcome,
              RegisterAttributes(t, outcome)
       PROVE  TypeOK'
  <2>1. task[t].found \in Reply /\ (outcome # "ok" => outcome \in Reply)
    BY <1>0, <1>19 DEF RegisterAttributes, TaskState, HasStatus, Reply,
                       ErrorCode, BuilderOutcome
  <2>2. PICK s \in TaskState : task' = [task EXCEPT ![t] = s]
    BY <1>0, <1>19, <2>1, RepliedType DEF RegisterAttributes
  <2> QED
    BY <1>19, <2>2, TypeOKTaskMoves DEF RegisterAttributes
<1>20. ASSUME NEW t \in Task, GetExistingPayloadId(t)
       PROVE  TypeOK'
  <2>1. task[t].found \in Reply
    BY <1>0, <1>20 DEF GetExistingPayloadId, TaskState, HasStatus, Reply
  <2>2. Replied(task[t], task[t].found) \in TaskState
    BY <1>0, <2>1, RepliedType
  <2> QED
    BY <1>20, <2>2, TypeOKTaskMoves DEF GetExistingPayloadId
<1>21. CASE UNCHANGED vars
  BY <1>21 DEF vars, TypeOK
<1>22. ASSUME NEW t \in Task, TaskStep(t)
       PROVE  TypeOK'
  BY <1>22, <1>4, <1>5, <1>6, <1>7, <1>8, <1>14, <1>15, <1>16, <1>17, <1>18,
     <1>19, <1>20
  DEF TaskStep, HandlerStep
<1>23. ASSUME NEW t \in Task, EngineCallEnds(t)
       PROVE  TypeOK'
  BY <1>23, <1>9, <1>11 DEF EngineCallEnds
<1> QED
  BY <1>2, <1>3, <1>12, <1>13, <1>21, <1>22, <1>23 DEF Next

\* Type correctness for every instance: whatever the requests, the engine's
\* answers and the order of the tasks' steps, the three caches of the
\* Multiplexer stay well-formed LRU maps within their capacity.
THEOREM TypeCorrect == Spec => []TypeOK
BY TypeOKInit, TypeOKStep, PTL DEF Spec

-----------------------------------------------------------------------------
(***************************************************************************)
(* The provenance of verdicts.  VerdictsComeFromEngine only speaks of sent *)
(* replies; the inductive invariant VerdictInv also says where every       *)
(* status in flight and every cached status and checkpoint came from.      *)
(***************************************************************************)

CacheBacked(said, cache) ==
    \A f \in DOMAIN cache : <<f, cache[f].val>> \in said

JustifiedBacked(said, cache) ==
    \A block \in DOMAIN cache : SafeBacked(said, block)

FinalizedCacheBacked(said, cache) ==
    \A block \in DOMAIN cache : FinalizedBacked(said, block)

\* The claim about a task, by the await it is suspended at.
TaskBacked(said, s) ==
    /\ s.pc \in {"el_done", "put_justified", "put_finalized"} =>
          <<s.fcu, s.found>> \in said
    /\ s.pc \in {"put_justified", "put_finalized"} => s.found = "VALID"
    /\ s.pc \in {"check_justified", "check_finalized"} =>
          /\ fcu_matching = "loose"
          /\ HeadBacked(said, s.fcu.head_block_hash, s.found)
    /\ s.pc = "check_finalized" => SafeBacked(said, s.fcu.safe_block_hash)
    /\ s.pc = "attributes" /\ IsDefinite(s.found) =>
          Backed(said, s.fcu, s.found)
    /\ s.pc = "idle" /\ IsDefinite(s.reply) => Backed(said, s.fcu, s.reply)

VerdictInv ==
    /\ CacheBacked(el_said, fcu_cache)
    /\ JustifiedBacked(el_said, justified_block_cache)
    /\ FinalizedCacheBacked(el_said, finalized_block_cache)
    /\ \A t \in Task : TaskBacked(el_said, task[t])

\* More engine answers never take backing away.
LEMMA BackingGrows ==
    ASSUME NEW said, NEW more, said \subseteq more
    PROVE  /\ \A fcu, status : Backed(said, fcu, status)
                                => Backed(more, fcu, status)
           /\ \A cache : CacheBacked(said, cache) => CacheBacked(more, cache)
           /\ \A cache : JustifiedBacked(said, cache)
                          => JustifiedBacked(more, cache)
           /\ \A cache : FinalizedCacheBacked(said, cache)
                          => FinalizedCacheBacked(more, cache)
           /\ \A s : TaskBacked(said, s) => TaskBacked(more, s)
<1>1. \A block : SafeBacked(said, block) => SafeBacked(more, block)
  BY DEF SafeBacked
<1>2. \A block : FinalizedBacked(said, block) => FinalizedBacked(more, block)
  BY DEF FinalizedBacked
<1>3. \A block, status : HeadBacked(said, block, status)
                           => HeadBacked(more, block, status)
  BY DEF HeadBacked
<1>4. \A fcu, status : Backed(said, fcu, status) => Backed(more, fcu, status)
  BY <1>1, <1>2, <1>3 DEF Backed, MatchBacked
<1>5. \A cache : CacheBacked(said, cache) => CacheBacked(more, cache)
  BY DEF CacheBacked
<1>6. \A cache : JustifiedBacked(said, cache) => JustifiedBacked(more, cache)
  BY <1>1 DEF JustifiedBacked
<1>7. \A cache : FinalizedCacheBacked(said, cache)
                 => FinalizedCacheBacked(more, cache)
  BY <1>2 DEF FinalizedCacheBacked
<1>8. \A s : TaskBacked(said, s) => TaskBacked(more, s)
  BY <1>1, <1>3, <1>4 DEF TaskBacked
<1> QED
  BY <1>4, <1>5, <1>6, <1>7, <1>8

LEMMA RepliedBacked ==
    ASSUME NEW said, NEW s, NEW r,
           IsDefinite(r) => Backed(said, s.fcu, r)
    PROVE  TaskBacked(said, Replied(s, r))
BY DEF TaskBacked, Replied

LEMMA WithStatusBacked ==
    ASSUME NEW said, NEW s \in TaskState, NEW status \in Status,
           IsDefinite(status) => Backed(said, s.fcu, status)
    PROVE  TaskBacked(said, WithStatus(s, status))
<1>1. TaskBacked(said, Replied(s, status))
  BY RepliedBacked
<1> DEFINE a == [s EXCEPT !.pc = "attributes", !.found = status]
<1>2. a.pc = "attributes" /\ a.found = status /\ a.fcu = s.fcu
  BY DEF TaskState, TaskRecord
<1> HIDE DEF a
<1>3. TaskBacked(said, a)
  BY <1>2 DEF TaskBacked
<1> QED
  BY <1>1, <1>3 DEF WithStatus, a

LEMMA AfterLookupBacked ==
    ASSUME NEW said, NEW t \in Task, NEW s \in TaskState,
           NEW result \in Status \cup {"none"},
           IsDefinite(result) => Backed(said, s.fcu, result)
    PROVE  TaskBacked(said, AfterLookup(t, s, result))
<1>1. CASE result # "none"
  BY <1>1, WithStatusBacked DEF AfterLookup
<1>2. CASE result = "none"
  <2> DEFINE call == [s EXCEPT !.pc = "el_call", !.found = "none"]
             wait == [s EXCEPT !.pc = "wait", !.found = "none"]
  <2>1. call.pc = "el_call" /\ wait.pc = "wait"
    BY DEF TaskState, TaskRecord
  <2> HIDE DEF call, wait
  <2>2. TaskBacked(said, call) /\ TaskBacked(said, wait)
    BY <2>1 DEF TaskBacked
  <2>3. TaskBacked(said, WithStatus(s, "SYNCING"))
    BY WithStatusBacked DEF Status, IsDefinite
  <2> QED
    BY <1>2, <2>2, <2>3 DEF AfterLookup, call, wait
<1> QED
  BY <1>1, <1>2

\* VerdictInv holds initially.
LEMMA VerdictInvInit == Init => VerdictInv
BY DEF Init, VerdictInv, CacheBacked, JustifiedBacked, FinalizedCacheBacked,
       TaskBacked, LruEmpty, IsDefinite

\* A step that moves one task to a backed state, takes back no answer, and
\* leaves the caches alone keeps VerdictInv.
LEMMA VerdictInvTaskMoves ==
    ASSUME TypeOK, VerdictInv, NEW t \in Task, NEW s,
           TaskBacked(el_said', s),
           task' = [task EXCEPT ![t] = s],
           el_said \subseteq el_said',
           UNCHANGED <<fcu_cache, checkpoints>>
    PROVE  VerdictInv'
<1>1. \A u \in Task : TaskBacked(el_said', task[u])
  BY BackingGrows DEF VerdictInv
<1>2. \A u \in Task : task'[u] = IF u = t THEN s ELSE task[u]
  BY DEF TypeOK
<1>3. \A u \in Task : TaskBacked(el_said', task'[u])
  BY <1>1, <1>2
<1>4. /\ CacheBacked(el_said', fcu_cache)
      /\ JustifiedBacked(el_said', justified_block_cache)
      /\ FinalizedCacheBacked(el_said', finalized_block_cache)
  BY BackingGrows DEF VerdictInv
<1> QED
  BY <1>3, <1>4 DEF VerdictInv, checkpoints

\* What a lookup finds has a matching engine answer.
LEMMA MatchedFcuIsBacked ==
    ASSUME TypeOK, VerdictInv, NEW fcu \in Fcu, MatchingFcus(fcu) # {}
    PROVE  /\ HeadBacked(el_said, fcu.head_block_hash,
                         fcu_cache[MatchedFcu(fcu)].val)
           /\ fcu_matching # "loose" =>
                 Backed(el_said, fcu, fcu_cache[MatchedFcu(fcu)].val)
<1> DEFINE f == MatchedFcu(fcu)
           status == fcu_cache[f].val
<1>1. f \in MatchingFcus(fcu) /\ f \in DOMAIN fcu_cache /\ f \in Fcu
  BY MatchedFcuIsCached
<1>2. <<f, status>> \in el_said
  BY <1>1 DEF VerdictInv, CacheBacked
<1>3. /\ f.head_block_hash = fcu.head_block_hash
      /\ fcu_matching = "exact" => f = fcu
  BY <1>1 DEF MatchingFcus
<1> HIDE DEF f, status
<1>4. HeadBacked(el_said, fcu.head_block_hash, status)
  BY <1>1, <1>2, <1>3 DEF HeadBacked
<1>5. fcu_matching # "loose" => Backed(el_said, fcu, status)
  BY <1>2, <1>3, <1>4 DEF Backed, MatchBacked
<1> QED
  BY <1>4, <1>5 DEF f, status

\* Renewing an entry keeps the cached statuses.
LEMMA TouchKeepsStatuses ==
    ASSUME TypeOK, NEW fcu \in DOMAIN fcu_cache
    PROVE  /\ DOMAIN LruTouch(fcu_cache, fcu) = DOMAIN fcu_cache
           /\ \A f \in DOMAIN fcu_cache :
                 LruTouch(fcu_cache, fcu)[f].val = fcu_cache[f].val
<1>1. IsLru(fcu_cache, fcu_cache_size, Fcu, Status) /\ fcu_cache_size \in Nat
  BY ForkchoiceUpdatedAssumption DEF TypeOK
<1>2. /\ IsLru(LruTouch(fcu_cache, fcu), fcu_cache_size, Fcu, Status)
      /\ DOMAIN LruTouch(fcu_cache, fcu) = DOMAIN fcu_cache
      /\ \A f \in DOMAIN fcu_cache :
            LruTouch(fcu_cache, fcu)[f].val = fcu_cache[f].val
  BY <1>1, LruTouchIsLru, Zenon
<1> QED
  BY <1>2

\* Putting an entry keeps the other statuses that stay.
LEMMA PutKeepsOtherStatuses ==
    ASSUME TypeOK, NEW fcu \in Fcu, NEW status \in Status, NEW c,
           c = LruPut(fcu_cache, fcu_cache_size, fcu, status)
    PROVE  /\ DOMAIN c \subseteq DOMAIN fcu_cache \cup {fcu}
           /\ c[fcu].val = status
           /\ \A f \in DOMAIN c \ {fcu} : c[f].val = fcu_cache[f].val
<1>1. /\ IsLru(fcu_cache, fcu_cache_size, Fcu, Status)
      /\ fcu_cache_size \in Nat \ {0}
  BY ForkchoiceUpdatedAssumption DEF TypeOK
<1> DEFINE d == LruPut(fcu_cache, fcu_cache_size, fcu, status)
<1>2. DOMAIN d \subseteq DOMAIN fcu_cache \cup {fcu}
  BY <1>1, LruPutIsLru
<1>3. d[fcu].val = status
  BY <1>1, LruPutIsLru
<1>4. ASSUME NEW f \in DOMAIN d \ {fcu}
      PROVE  d[f].val = fcu_cache[f].val
  BY <1>1, LruPutIsLru
<1> QED
  BY <1>2, <1>3, <1>4

\* Every step preserves VerdictInv.
LEMMA VerdictInvStep == TypeOK /\ VerdictInv /\ [Next]_vars => VerdictInv'
<1> SUFFICES ASSUME TypeOK, VerdictInv, [Next]_vars PROVE VerdictInv'
  OBVIOUS
<1> USE ForkchoiceUpdatedAssumption
<1>0. \A t \in Task : /\ task[t] \in TaskState
                       /\ task[t].fcu \in Fcu
                       /\ TaskBacked(el_said, task[t])
  BY DEF TypeOK, TaskState, TaskRecord, VerdictInv
<1>1. ASSUME NEW t \in Task, NEW r, NEW version,
             NEW pc \in {"lookup", "wait"}, NEW polls,
             Receive(t, r, version, pc, polls)
      PROVE  VerdictInv'
  <2>1. TaskBacked(el_said, Parsed(r, version, pc, polls))
    BY DEF TaskBacked, Parsed
  <2>2. TaskBacked(el_said,
                   Replied([task[t] EXCEPT !.fcu = r.fcu], "ParseError"))
    BY RepliedBacked DEF IsDefinite
  <2>3. PICK s : task' = [task EXCEPT ![t] = s] /\ TaskBacked(el_said, s)
    BY <1>1, <2>1, <2>2 DEF Receive
  <2> QED
    BY <1>1, <2>3, VerdictInvTaskMoves DEF Receive, engine
<1>2. ASSUME NEW t \in ControllerTask, NEW r, ControllerReceives(t, r)
      PROVE  VerdictInv'
  BY <1>1, <1>2 DEF ControllerReceives, Task
<1>3. ASSUME NEW t \in ClientTask, NEW r, ClientReceives(t, r)
      PROVE  VerdictInv'
  BY <1>1, <1>3 DEF ClientReceives, Task
<1>4. ASSUME NEW t \in Task, LookupMisses(t)
      PROVE  VerdictInv'
  <2>1. TaskBacked(el_said, AfterLookup(t, task[t], "none"))
    BY <1>0, AfterLookupBacked DEF IsDefinite
  <2> QED
    BY <1>4, <2>1, VerdictInvTaskMoves DEF LookupMisses, engine
<1>5. ASSUME NEW t \in Task, LookupFinds(t)
      PROVE  VerdictInv'
  <2> DEFINE f == MatchedFcu(task[t].fcu)
             status == fcu_cache[f].val
             result == IF DefiniteEnough(task[t].definite_only, status)
                       THEN status ELSE "none"
             s == AfterLookup(t, task[t], result)
  <2>1. f \in DOMAIN fcu_cache /\ status \in Status
    BY <1>0, <1>5, MatchedFcuIsCached DEF LookupFinds
  <2>2. Backed(el_said, task[t].fcu, status)
    BY <1>0, <1>5, MatchedFcuIsBacked DEF LookupFinds
  <2>3. TaskBacked(el_said, s)
    BY <1>0, <2>1, <2>2, AfterLookupBacked DEF IsDefinite
  <2>4. task' = [task EXCEPT ![t] = s] /\ UNCHANGED <<checkpoints, engine>>
    BY <1>5 DEF LookupFinds
  <2>5. fcu_cache' \in {fcu_cache, LruTouch(fcu_cache, f)}
    BY <1>5 DEF LookupFinds
  <2>6. CacheBacked(el_said, LruTouch(fcu_cache, f))
    <3>1. /\ DOMAIN LruTouch(fcu_cache, f) = DOMAIN fcu_cache
          /\ \A j \in DOMAIN fcu_cache :
                LruTouch(fcu_cache, f)[j].val = fcu_cache[j].val
      BY <2>1, TouchKeepsStatuses
    <3> QED
      BY <3>1 DEF VerdictInv, CacheBacked
  <2> HIDE DEF s, f
  <2>7. \A u \in Task : TaskBacked(el_said, task'[u])
    BY <1>0, <2>3, <2>4 DEF TypeOK
  <2> QED
    BY <2>4, <2>5, <2>6, <2>7 DEF VerdictInv, checkpoints, engine
<1>6. ASSUME NEW t \in Task, LookupFindsLoosely(t)
      PROVE  VerdictInv'
  <2> DEFINE status == fcu_cache[MatchedFcu(task[t].fcu)].val
             s == [task[t] EXCEPT !.pc = "check_justified", !.found = status]
  <2>1. HeadBacked(el_said, task[t].fcu.head_block_hash, status)
    BY <1>0, <1>6, MatchedFcuIsBacked DEF LookupFindsLoosely
  <2>2. task' = [task EXCEPT ![t] = s]
    BY <1>6 DEF LookupFindsLoosely, TypeOK
  <2> HIDE DEF status
  <2>3. s.pc = "check_justified" /\ s.found = status /\ s.fcu = task[t].fcu
    BY <1>0 DEF TaskState, TaskRecord
  <2> HIDE DEF s
  <2>4. TaskBacked(el_said, s)
    BY <1>6, <2>1, <2>3 DEF TaskBacked, LookupFindsLoosely
  <2> QED
    BY <1>6, <2>2, <2>4, VerdictInvTaskMoves DEF LookupFindsLoosely, engine
<1>7. ASSUME NEW t \in Task, CheckJustified(t)
      PROVE  VerdictInv'
  <2> DEFINE s == [task[t] EXCEPT !.pc = "check_finalized"]
  <2>1. TaskBacked(el_said, AfterLookup(t, task[t], "none"))
    BY <1>0, AfterLookupBacked DEF IsDefinite
  <2>2. /\ s.pc = "check_finalized" /\ s.found = task[t].found
        /\ s.fcu = task[t].fcu
    BY <1>0 DEF TaskState, TaskRecord
  <2>3. task' = [task EXCEPT ![t] =
            IF LruContains(justified_block_cache, task[t].fcu.safe_block_hash)
            THEN s ELSE AfterLookup(t, task[t], "none")]
    BY <1>7 DEF CheckJustified
  <2> HIDE DEF s
  <2>4. LruContains(justified_block_cache, task[t].fcu.safe_block_hash)
           => TaskBacked(el_said, s)
    BY <1>0, <1>7, <2>2
    DEF CheckJustified, TaskBacked, VerdictInv, JustifiedBacked, LruContains
  <2>5. PICK a : task' = [task EXCEPT ![t] = a] /\ TaskBacked(el_said, a)
    BY <2>1, <2>3, <2>4
  <2> QED
    BY <1>7, <2>5, VerdictInvTaskMoves DEF CheckJustified, engine
<1>8. ASSUME NEW t \in Task, CheckFinalized(t)
      PROVE  VerdictInv'
  <2> DEFINE ok == /\ LruContains(finalized_block_cache,
                                  task[t].fcu.finalized_block_hash)
                   /\ DefiniteEnough(task[t].definite_only, task[t].found)
             result == IF ok THEN task[t].found ELSE "none"
  <2>1. result \in Status \cup {"none"}
    BY <1>0 DEF TaskState, TaskRecord
  <2>2. ok => Backed(el_said, task[t].fcu, task[t].found)
    BY <1>0, <1>8 DEF CheckFinalized, TaskBacked, Backed, MatchBacked,
       VerdictInv, FinalizedCacheBacked, LruContains
  <2>3. task' = [task EXCEPT ![t] = AfterLookup(t, task[t], result)]
    BY <1>8 DEF CheckFinalized
  <2> HIDE DEF ok
  <2>4. TaskBacked(el_said, AfterLookup(t, task[t], result))
    BY <1>0, <2>1, <2>2, AfterLookupBacked DEF IsDefinite
  <2> HIDE DEF result
  <2> QED
    BY <1>8, <2>3, <2>4, VerdictInvTaskMoves DEF CheckFinalized, engine
<1>9. ASSUME NEW t \in Task, NEW status \in EngineStatus,
             EngineAnswers(t, status)
      PROVE  VerdictInv'
  <2> DEFINE s == [task[t] EXCEPT !.pc = "el_done", !.found = status]
  <2>1. s.pc = "el_done" /\ s.found = status /\ s.fcu = task[t].fcu
    BY <1>0 DEF TaskState, TaskRecord
  <2>2. task' = [task EXCEPT ![t] = s]
    BY <1>9 DEF EngineAnswers, TypeOK
  <2> HIDE DEF s
  <2>3. /\ el_said \subseteq el_said'
        /\ <<task[t].fcu, status>> \in el_said'
    BY <1>9 DEF EngineAnswers, EngineApplies
  <2>4. TaskBacked(el_said', s)
    BY <2>1, <2>3 DEF TaskBacked
  <2> QED
    BY <1>9, <2>2, <2>3, <2>4, VerdictInvTaskMoves DEF EngineAnswers
<1>10. ASSUME NEW t \in Task, EngineCallFails(t)
       PROVE  VerdictInv'
  <2>1. TaskBacked(el_said, Replied(task[t], "InvalidRequest"))
    BY RepliedBacked DEF IsDefinite
  <2> QED
    BY <1>10, <2>1, VerdictInvTaskMoves DEF EngineCallFails
<1>11. ASSUME NEW t \in Task, Disconnect(t)
       PROVE  VerdictInv'
  <2>1. TaskBacked(el_said, Replied(task[t], "dropped"))
    BY RepliedBacked DEF IsDefinite
  <2> QED
    BY <1>11, <2>1, VerdictInvTaskMoves DEF Disconnect
<1>12. ASSUME NEW fcu, NEW status, EngineProcessesOrphan(fcu, status)
       PROVE  VerdictInv'
  <2>1. el_said \subseteq el_said'
    BY <1>12 DEF EngineProcessesOrphan, EngineApplies
  <2>2. /\ \A t \in Task : TaskBacked(el_said', task[t])
        /\ CacheBacked(el_said', fcu_cache)
        /\ JustifiedBacked(el_said', justified_block_cache)
        /\ FinalizedCacheBacked(el_said', finalized_block_cache)
    BY <2>1, BackingGrows DEF VerdictInv
  <2> QED
    BY <1>12, <2>2 DEF VerdictInv, EngineProcessesOrphan, checkpoints
<1>13. ASSUME NEW t \in Task, UpdateFcuCache(t)
       PROVE  VerdictInv'
  <2> DEFINE fcu == task[t].fcu
             status == task[t].found
             p == [task[t] EXCEPT !.pc = "put_justified"]
             s == IF RedundantUpdate(fcu) \/ ~MakesCheckpoints(status)
                  THEN WithStatus(task[t], status) ELSE p
  <2>1. status \in Status /\ <<fcu, status>> \in el_said
    BY <1>0, <1>13 DEF UpdateFcuCache, TaskState, HasStatus, TaskBacked
  <2>2. TaskBacked(el_said, WithStatus(task[t], status))
    BY <1>0, <2>1, WithStatusBacked DEF Backed
  <2>3. p.pc = "put_justified" /\ p.found = status /\ p.fcu = fcu
    BY <1>0 DEF TaskState, TaskRecord
  <2>4. task' = [task EXCEPT ![t] = s]
    BY <1>13 DEF UpdateFcuCache
  <2> HIDE DEF p
  <2>5. TaskBacked(el_said, s)
    BY <2>1, <2>2, <2>3 DEF TaskBacked, MakesCheckpoints
  <2> HIDE DEF s
  <2>6. \A u \in Task : TaskBacked(el_said, task'[u])
    BY <1>0, <2>4, <2>5 DEF TypeOK
  <2>7. CacheBacked(el_said, fcu_cache')
    <3>1. CASE RedundantUpdate(fcu)
      <4>1. fcu \in DOMAIN fcu_cache /\ fcu_cache' = LruTouch(fcu_cache, fcu)
        BY <1>13, <3>1 DEF RedundantUpdate, LruContains, UpdateFcuCache
      <4>2. /\ DOMAIN LruTouch(fcu_cache, fcu) = DOMAIN fcu_cache
            /\ \A j \in DOMAIN fcu_cache :
                  LruTouch(fcu_cache, fcu)[j].val = fcu_cache[j].val
        BY <4>1, TouchKeepsStatuses
      <4> QED
        BY <4>1, <4>2 DEF VerdictInv, CacheBacked
    <3>2. CASE ~RedundantUpdate(fcu)
      <4> DEFINE c == LruPut(fcu_cache, fcu_cache_size, fcu, status)
      <4>1. fcu_cache' = c
        BY <1>13, <3>2 DEF UpdateFcuCache
      <4>2. /\ DOMAIN c \subseteq DOMAIN fcu_cache \cup {fcu}
            /\ c[fcu].val = status
            /\ \A j \in DOMAIN c \ {fcu} : c[j].val = fcu_cache[j].val
        BY <1>0, <2>1, PutKeepsOtherStatuses
      <4> HIDE DEF c
      <4> QED
        BY <2>1, <4>1, <4>2 DEF VerdictInv, CacheBacked
    <3> QED
      BY <3>1, <3>2
  <2> QED
    BY <1>13, <2>6, <2>7 DEF VerdictInv, UpdateFcuCache, checkpoints, engine
<1>14. ASSUME NEW t \in Task, PutJustified(t)
       PROVE  VerdictInv'
  <2> DEFINE block == task[t].fcu.safe_block_hash
             c == LruPut(justified_block_cache, justified_block_cache_size,
                         block, "unit")
             s == [task[t] EXCEPT !.pc = "put_finalized"]
  <2>1. <<task[t].fcu, "VALID">> \in el_said /\ task[t].found = "VALID"
    BY <1>0, <1>14 DEF PutJustified, TaskBacked
  <2>2. SafeBacked(el_said, block)
    BY <1>0, <2>1 DEF SafeBacked
  <2>3. block \in Block
    BY <1>0 DEF Fcu, ForkchoiceState
  <2>4. DOMAIN c \subseteq DOMAIN justified_block_cache \cup {block}
    BY <2>3, LruPutIsLru DEF TypeOK
  <2>5. justified_block_cache' = c
    BY <1>14 DEF PutJustified, JustifiedBlockCacheCapacity
  <2> HIDE DEF c
  <2>6. JustifiedBacked(el_said, justified_block_cache')
    BY <2>2, <2>4, <2>5 DEF VerdictInv, JustifiedBacked
  <2>7. s.pc = "put_finalized" /\ s.found = "VALID" /\ s.fcu = task[t].fcu
    BY <1>0, <2>1 DEF TaskState, TaskRecord
  <2>8. task' = [task EXCEPT ![t] = s]
    BY <1>14 DEF PutJustified, TypeOK
  <2> HIDE DEF s
  <2>9. TaskBacked(el_said, s)
    BY <2>1, <2>7 DEF TaskBacked
  <2>10. \A u \in Task : TaskBacked(el_said, task'[u])
    BY <1>0, <2>8, <2>9 DEF TypeOK
  <2> QED
    BY <1>14, <2>6, <2>10 DEF VerdictInv, PutJustified, engine
<1>15. ASSUME NEW t \in Task, PutFinalized(t)
       PROVE  VerdictInv'
  <2> DEFINE block == task[t].fcu.finalized_block_hash
             cap == FinalizedBlockCacheCapacity
             c == LruPut(finalized_block_cache, cap, block, "unit")
             s == WithStatus(task[t], task[t].found)
  <2>1. <<task[t].fcu, "VALID">> \in el_said /\ task[t].found = "VALID"
    BY <1>0, <1>15 DEF PutFinalized, TaskBacked
  <2>2. FinalizedBacked(el_said, block)
    BY <1>0, <2>1 DEF FinalizedBacked
  <2>3. /\ block \in Block
        /\ cap \in Nat \ {0}
        /\ IsLru(finalized_block_cache, cap, Block, {"unit"})
    BY <1>0 DEF Fcu, ForkchoiceState, FinalizedBlockCacheCapacity, TypeOK
  <2>5. finalized_block_cache' = c
    BY <1>15 DEF PutFinalized
  <2> HIDE DEF cap
  <2>4. DOMAIN c \subseteq DOMAIN finalized_block_cache \cup {block}
    BY <2>3, LruPutIsLru
  <2> HIDE DEF c
  <2>6. FinalizedCacheBacked(el_said, finalized_block_cache')
    BY <2>2, <2>4, <2>5 DEF VerdictInv, FinalizedCacheBacked
  <2>7. TaskBacked(el_said, s)
    BY <1>0, <2>1, WithStatusBacked DEF Backed, Status
  <2>8. task' = [task EXCEPT ![t] = s]
    BY <1>15 DEF PutFinalized
  <2> HIDE DEF s
  <2>9. \A u \in Task : TaskBacked(el_said, task'[u])
    BY <1>0, <2>7, <2>8 DEF TypeOK
  <2> QED
    BY <1>15, <2>6, <2>9 DEF VerdictInv, PutFinalized, engine
<1>16. ASSUME NEW t \in Task, Poll(t) \/ TimeUp(t)
       PROVE  VerdictInv'
  <2>1. task'[t].pc = "lookup"
    BY <1>0, <1>16 DEF Poll, TimeUp, TypeOK, TaskState, TaskRecord
  <2>2. TaskBacked(el_said, task'[t])
    BY <2>1 DEF TaskBacked
  <2>3. \A u \in Task \ {t} : task'[u] = task[u]
    BY <1>16 DEF Poll, TimeUp, TypeOK
  <2>4. \A u \in Task : TaskBacked(el_said, task'[u])
    BY <1>0, <2>2, <2>3
  <2> QED
    BY <1>16, <2>4 DEF VerdictInv, Poll, TimeUp, checkpoints, engine
<1>17. ASSUME NEW t \in Task, NEW outcome \in BuilderOutcome,
              RegisterAttributes(t, outcome)
       PROVE  VerdictInv'
  <2> DEFINE r == IF outcome = "ok" THEN task[t].found ELSE outcome
  <2>1. IsDefinite(r) => Backed(el_said, task[t].fcu, r)
    BY <1>0, <1>17
    DEF RegisterAttributes, TaskBacked, IsDefinite, BuilderOutcome
  <2>2. TaskBacked(el_said, Replied(task[t], r))
    BY <2>1, RepliedBacked
  <2>3. task' = [task EXCEPT ![t] = Replied(task[t], r)]
    BY <1>17 DEF RegisterAttributes
  <2> HIDE DEF r
  <2> QED
    BY <1>17, <2>2, <2>3, VerdictInvTaskMoves DEF RegisterAttributes, engine
<1>18. ASSUME NEW t \in Task, GetExistingPayloadId(t)
       PROVE  VerdictInv'
  <2>1. IsDefinite(task[t].found) =>
           Backed(el_said, task[t].fcu, task[t].found)
    BY <1>0, <1>18 DEF GetExistingPayloadId, TaskBacked
  <2>2. TaskBacked(el_said, Replied(task[t], task[t].found))
    BY <2>1, RepliedBacked
  <2> QED
    BY <1>18, <2>2, VerdictInvTaskMoves DEF GetExistingPayloadId, engine
<1>19. CASE UNCHANGED vars
  BY <1>19 DEF vars, VerdictInv
<1>20. ASSUME NEW t \in Task, TaskStep(t)
       PROVE  VerdictInv'
  BY <1>20, <1>4, <1>5, <1>6, <1>7, <1>8, <1>13, <1>14, <1>15, <1>16, <1>17,
     <1>18
  DEF TaskStep, HandlerStep
<1>21. ASSUME NEW t \in Task, EngineCallEnds(t)
       PROVE  VerdictInv'
  BY <1>21, <1>9, <1>10 DEF EngineCallEnds
<1> QED
  BY <1>2, <1>3, <1>11, <1>12, <1>19, <1>20, <1>21 DEF Next

\* VerdictsComeFromEngine for every instance: no interleaving, eviction,
\* failure or dropped connection makes the handlers of fcu.rs send a VALID or
\* INVALID that the engine's answers do not back under the matching mode.
THEOREM VerdictProvenance == Spec => []VerdictsComeFromEngine
<1>1. VerdictInv => VerdictsComeFromEngine
  BY DEF VerdictInv, TaskBacked, VerdictsComeFromEngine
<1> QED
  BY <1>1, TypeCorrect, VerdictInvInit, VerdictInvStep, PTL DEF Spec

-----------------------------------------------------------------------------
(* Definite statuses are final.                                            *)

\* Of the actions only LookupFinds and UpdateFcuCache change fcu_cache.
LEMMA FcuCacheChanges ==
    ASSUME [Next]_vars, fcu_cache' # fcu_cache
    PROVE  \E t \in Task : LookupFinds(t) \/ UpdateFcuCache(t)
BY DEF Next, vars, ControllerReceives, ClientReceives, Receive, TaskStep,
       HandlerStep, LookupMisses, LookupFindsLoosely, CheckJustified, CheckFinalized,
       PutJustified, PutFinalized, Poll, TimeUp, RegisterAttributes,
       GetExistingPayloadId, EngineCallEnds, EngineAnswers, EngineCallFails,
       EngineProcessesOrphan, Disconnect

\* DefiniteEntriesAreFinal for every instance: however many controller
\* requests for one fcU are in flight, no late answer replaces a definite
\* status while it is cached.
THEOREM DefiniteIsFinal == Spec => DefiniteEntriesAreFinal
<1> DEFINE Final == \A f \in DOMAIN fcu_cache \cap DOMAIN fcu_cache' :
                       IsDefinite(fcu_cache[f].val) =>
                           fcu_cache'[f].val = fcu_cache[f].val
<1>1. TypeOK /\ [Next]_vars => [Final]_vars
  <2> SUFFICES ASSUME TypeOK, [Next]_vars, fcu_cache' # fcu_cache
               PROVE  Final
    BY DEF vars
  <2>1. PICK t \in Task : LookupFinds(t) \/ UpdateFcuCache(t)
    BY FcuCacheChanges
  <2>2. task[t].fcu \in Fcu
    BY DEF TypeOK, TaskState, TaskRecord
  <2>3. ASSUME NEW g \in DOMAIN fcu_cache,
               fcu_cache' = LruTouch(fcu_cache, g)
        PROVE  Final
    BY <2>3, TouchKeepsStatuses
  <2>4. CASE LookupFinds(t)
    <3>1. MatchedFcu(task[t].fcu) \in DOMAIN fcu_cache
      BY <2>2, <2>4, MatchedFcuIsCached DEF LookupFinds
    <3> QED
      BY <2>3, <2>4, <3>1 DEF LookupFinds
  <2>5. CASE UpdateFcuCache(t) /\ RedundantUpdate(task[t].fcu)
    BY <2>3, <2>5 DEF UpdateFcuCache, RedundantUpdate, LruContains
  <2>6. CASE UpdateFcuCache(t) /\ ~RedundantUpdate(task[t].fcu)
    <3>1. task[t].found \in Status
      BY <2>6 DEF UpdateFcuCache, TypeOK, TaskState, HasStatus
    <3>2. fcu_cache' = LruPut(fcu_cache, fcu_cache_size, task[t].fcu,
                              task[t].found)
      BY <2>6 DEF UpdateFcuCache
    <3>3. \A f \in DOMAIN fcu_cache' \ {task[t].fcu} :
             fcu_cache'[f].val = fcu_cache[f].val
      BY <2>2, <3>1, <3>2, PutKeepsOtherStatuses
    <3>4. task[t].fcu \in DOMAIN fcu_cache =>
             ~IsDefinite(fcu_cache[task[t].fcu].val)
      BY <2>6 DEF RedundantUpdate, LruContains
    <3> QED
      BY <3>3, <3>4
  <2> QED
    BY <2>1, <2>4, <2>5, <2>6
<1> QED
  BY <1>1, TypeCorrect, PTL DEF Spec, DefiniteEntriesAreFinal

-----------------------------------------------------------------------------
(* The fcu_cache mutex.                                                    *)

\* LockedReadIsCurrent for one task, of any cache and task state.
MatchingIn(cache, fcu) ==
    IF fcu_matching = "exact"
    THEN {fcu} \cap DOMAIN cache
    ELSE {f \in DOMAIN cache : f.head_block_hash = fcu.head_block_hash}

Current(cache, s) ==
    s.pc \in {"check_justified", "check_finalized"} =>
        /\ MatchingIn(cache, s.fcu) # {}
        /\ s.found = cache[LruFirst(cache, MatchingIn(cache, s.fcu))].val

LockedReadInv == \A t \in Task : Current(fcu_cache, task[t])

LEMMA LockedReadInvSuffices == LockedReadInv => LockedReadIsCurrent
BY DEF LockedReadInv, Current, MatchingIn, LockedReadIsCurrent, MatchedFcu,
       MatchingFcus

\* A step that leaves fcu_cache alone and moves one task to a current state
\* keeps LockedReadInv.
LEMMA LockedReadTaskMoves ==
    ASSUME TypeOK, LockedReadInv, NEW t \in Task, NEW s,
           task' = [task EXCEPT ![t] = s],
           UNCHANGED fcu_cache,
           Current(fcu_cache, s)
    PROVE  LockedReadInv'
<1>1. \A u \in Task : task'[u] = IF u = t THEN s ELSE task[u]
  BY DEF TypeOK
<1> QED
  BY <1>1 DEF LockedReadInv

LEMMA AfterLookupUnlocks ==
    ASSUME NEW t \in Task, NEW s \in TaskState, NEW result
    PROVE  AfterLookup(t, s, result).pc
               \notin {"check_justified", "check_finalized"}
BY DEF AfterLookup, WithStatus, Replied, TaskState, TaskRecord

\* Every step preserves LockedReadInv.  Whatever changes fcu_cache does so
\* with no task between its pick and its decision.
LEMMA LockedReadStep == TypeOK /\ LockedReadInv /\ [Next]_vars
                           => LockedReadInv'
<1> SUFFICES ASSUME TypeOK, LockedReadInv, [Next]_vars
             PROVE  LockedReadInv'
  OBVIOUS
<1> DEFINE Checking == {"check_justified", "check_finalized"}
<1>0. \A t \in Task : task[t] \in TaskState /\ task[t] \in TaskRecord
  BY DEF TypeOK, TaskState
<1>1. ASSUME fcu_cache' # fcu_cache
      PROVE  LockedReadInv'
  <2>1. PICK t \in Task : LookupFinds(t) \/ UpdateFcuCache(t)
    BY <1>1, FcuCacheChanges
  <2>2. \A u \in Task : task[u].pc \notin Checking
    BY <2>1 DEF LookupFinds, UpdateFcuCache, FcuCacheUnlocked
  <2>3. CASE LookupFinds(t)
    <3>1. PICK result : task' = [task EXCEPT ![t] =
                                   AfterLookup(t, task[t], result)]
      BY <2>3 DEF LookupFinds
    <3>2. \A u \in Task : task'[u].pc \notin Checking
      BY <1>0, <2>2, <3>1, AfterLookupUnlocks DEF TypeOK
    <3> QED
      BY <3>2 DEF LockedReadInv, Current
  <2>4. CASE UpdateFcuCache(t)
    <3>1. /\ WithStatus(task[t], task[t].found).pc \notin Checking
          /\ [task[t] EXCEPT !.pc = "put_justified"].pc \notin Checking
      BY <1>0 DEF WithStatus, Replied, TaskRecord
    <3>2. task'[t].pc \notin Checking
      BY <2>4, <3>1 DEF UpdateFcuCache, TypeOK
    <3>3. \A u \in Task \ {t} : task'[u] = task[u]
      BY <2>4 DEF UpdateFcuCache, TypeOK
    <3>4. \A u \in Task : task'[u].pc \notin Checking
      BY <2>2, <3>2, <3>3
    <3> QED
      BY <3>4 DEF LockedReadInv, Current
  <2> QED
    BY <2>1, <2>3, <2>4
<1>2. ASSUME UNCHANGED fcu_cache, NEW t \in Task, NEW s, s.pc \notin Checking,
             task' = [task EXCEPT ![t] = s]
      PROVE  LockedReadInv'
  BY <1>2, LockedReadTaskMoves DEF Current
<1>3. ASSUME UNCHANGED fcu_cache, NEW t \in Task, NEW result,
             task' = [task EXCEPT ![t] = AfterLookup(t, task[t], result)]
      PROVE  LockedReadInv'
  BY <1>0, <1>2, <1>3, AfterLookupUnlocks
<1>4. ASSUME UNCHANGED fcu_cache, NEW t \in Task, NEW r,
             task' = [task EXCEPT ![t] = Replied(task[t], r)]
      PROVE  LockedReadInv'
  BY <1>2, <1>4 DEF Replied
<1>5. ASSUME NEW t \in Task, NEW r, NEW version, NEW pc \in {"lookup", "wait"},
             NEW polls, Receive(t, r, version, pc, polls)
      PROVE  LockedReadInv'
  <2>1. PICK s : s.pc \notin Checking /\ task' = [task EXCEPT ![t] = s]
    BY <1>5 DEF Receive, Parsed, Replied
  <2> QED
    BY <1>2, <1>5, <2>1 DEF Receive
<1>6. ASSUME NEW t \in Task, LookupFindsLoosely(t)
      PROVE  LockedReadInv'
  <2> DEFINE status == fcu_cache[MatchedFcu(task[t].fcu)].val
             s == [task[t] EXCEPT !.pc = "check_justified", !.found = status]
  <2>1. task' = [task EXCEPT ![t] = s]
    BY <1>6 DEF LookupFindsLoosely, TypeOK
  <2>2. /\ MatchingIn(fcu_cache, task[t].fcu) # {}
        /\ status = fcu_cache[LruFirst(fcu_cache,
                                MatchingIn(fcu_cache, task[t].fcu))].val
    BY <1>6 DEF LookupFindsLoosely, MatchedFcu, MatchingFcus, MatchingIn
  <2> HIDE DEF status
  <2>3. s.found = status /\ s.fcu = task[t].fcu
    BY <1>0 DEF TaskRecord
  <2> HIDE DEF s
  <2>4. Current(fcu_cache, s)
    BY <2>2, <2>3 DEF Current
  <2> QED
    BY <1>6, <2>1, <2>4, LockedReadTaskMoves DEF LookupFindsLoosely
<1>7. ASSUME NEW t \in Task, CheckJustified(t)
      PROVE  LockedReadInv'
  <2> DEFINE s == [task[t] EXCEPT !.pc = "check_finalized"]
  <2>1. s.found = task[t].found /\ s.fcu = task[t].fcu
    BY <1>0 DEF TaskRecord
  <2>2. CASE task' = [task EXCEPT ![t] = s]
    <3> HIDE DEF s
    <3>1. Current(fcu_cache, s)
      BY <1>7, <2>1 DEF Current, LockedReadInv, CheckJustified
    <3> QED
      BY <1>7, <2>2, <3>1, LockedReadTaskMoves DEF CheckJustified
  <2>3. CASE task' = [task EXCEPT ![t] = AfterLookup(t, task[t], "none")]
    BY <1>3, <1>7, <2>3 DEF CheckJustified
  <2> QED
    BY <1>7, <2>2, <2>3 DEF CheckJustified
<1>8. ASSUME UNCHANGED fcu_cache, NEW t \in Task, UpdateFcuCache(t)
      PROVE  LockedReadInv'
  <2>1. /\ WithStatus(task[t], task[t].found).pc \notin Checking
        /\ [task[t] EXCEPT !.pc = "put_justified"].pc \notin Checking
    BY <1>0 DEF WithStatus, Replied, TaskRecord
  <2>2. CASE task' = [task EXCEPT ![t] = WithStatus(task[t], task[t].found)]
    BY <1>2, <1>8, <2>1, <2>2
  <2>3. CASE task' = [task EXCEPT ![t] =
                        [task[t] EXCEPT !.pc = "put_justified"]]
    BY <1>2, <1>8, <2>1, <2>3
  <2> QED
    BY <1>8, <2>2, <2>3 DEF UpdateFcuCache
<1>9. ASSUME NEW t \in Task, PutFinalized(t)
      PROVE  LockedReadInv'
  <2>1. WithStatus(task[t], task[t].found).pc \notin Checking
    BY <1>0 DEF WithStatus, Replied, TaskRecord
  <2> QED
    BY <1>2, <1>9, <2>1 DEF PutFinalized
<1>10. ASSUME UNCHANGED fcu_cache, NEW t \in Task,
              \A u \in Task \ {t} : task'[u] = task[u],
              task'[t].pc \notin Checking
       PROVE  LockedReadInv'
  BY <1>10 DEF LockedReadInv, Current
<1>11. ASSUME NEW t \in Task,
              \/ PutJustified(t) \/ Poll(t) \/ TimeUp(t)
              \/ \E status \in EngineStatus : EngineAnswers(t, status)
       PROVE  LockedReadInv'
  <2>1. \A u \in Task \ {t} : task'[u] = task[u]
    BY <1>11 DEF PutJustified, Poll, TimeUp, EngineAnswers, TypeOK
  <2>2. task'[t].pc \in {"put_finalized", "lookup", "el_done"}
    BY <1>0, <1>11
    DEF PutJustified, Poll, TimeUp, EngineAnswers, TypeOK, TaskRecord
  <2> QED
    BY <1>10, <1>11, <2>1, <2>2 DEF PutJustified, Poll, TimeUp, EngineAnswers
<1>12. ASSUME NEW t \in Task, LookupFinds(t), UNCHANGED fcu_cache
       PROVE  LockedReadInv'
  BY <1>3, <1>12 DEF LookupFinds
<1>13. ASSUME NEW t \in Task, LookupMisses(t) \/ CheckFinalized(t)
       PROVE  LockedReadInv'
  BY <1>3, <1>13 DEF LookupMisses, CheckFinalized
<1>14. ASSUME NEW t \in Task,
              \/ \E outcome \in BuilderOutcome : RegisterAttributes(t, outcome)
              \/ GetExistingPayloadId(t) \/ EngineCallFails(t)
              \/ Disconnect(t)
       PROVE  LockedReadInv'
  BY <1>4, <1>14
  DEF RegisterAttributes, GetExistingPayloadId, EngineCallFails, Disconnect
<1>15. ASSUME NEW t \in Task, TaskStep(t), UNCHANGED fcu_cache
       PROVE  LockedReadInv'
  BY <1>6, <1>7, <1>8, <1>9, <1>11, <1>12, <1>13, <1>14, <1>15
  DEF TaskStep, HandlerStep
<1>16. ASSUME NEW t \in Task, EngineCallEnds(t)
       PROVE  LockedReadInv'
  BY <1>11, <1>14, <1>16 DEF EngineCallEnds
<1>17. ASSUME NEW t \in Task, NEW r,
              ControllerReceives(t, r) \/ ClientReceives(t, r)
       PROVE  LockedReadInv'
  BY <1>5, <1>17 DEF ControllerReceives, ClientReceives
<1>18. CASE UNCHANGED <<task, fcu_cache>>
  BY <1>18 DEF LockedReadInv
<1>19. ASSUME NEW fcu, NEW status, EngineProcessesOrphan(fcu, status)
       PROVE  LockedReadInv'
  BY <1>18, <1>19 DEF EngineProcessesOrphan
<1>20. CASE UNCHANGED vars
  BY <1>18, <1>20 DEF vars
<1> QED
  BY <1>1, <1>14, <1>15, <1>16, <1>17, <1>19, <1>20 DEF Next, Task

\* LockedReadIsCurrent for every instance: get_cached_fcu decides on the entry
\* that fcu_cache holds at that moment, however many tasks wait for its mutex.
THEOREM LockedReads == Spec => []LockedReadIsCurrent
<1>1. Init => LockedReadInv
  BY DEF Init, LockedReadInv, Current
<1> QED
  BY <1>1, TypeCorrect, LockedReadStep, LockedReadInvSuffices, PTL DEF Spec

-----------------------------------------------------------------------------
(* The attributes on their way to the payload builder.                     *)

\* What the requests that decode carry, as the handlers decode it.
DecodedControllerAttributes ==
    {DecodedAttributes(r.attrs, ControllerAttributesVersion(r.method)) :
        r \in {q \in ControllerRequests :
                  AttributesDecodeAs(q.attrs,
                                     ControllerAttributesVersion(q.method))}}

DecodedClientAttributes ==
    {DecodedAttributes(r.attrs, ClientAttributesVersion) :
        r \in {q \in ClientRequests :
                  AttributesDecodeAs(q.attrs, ClientAttributesVersion)}}

RequestedAttributes ==
    {NoAttributes} \cup DecodedControllerAttributes
        \cup DecodedClientAttributes

\* The builder is only ever asked about attributes that came with a request.
AttributesAsked(s) ==
    /\ s.attrs \in RequestedAttributes
    /\ s.pc = "attributes" => s.attrs # NoAttributes

AttributesInv == \A t \in Task : AttributesAsked(task[t])

\* A step that moves one task to such a state keeps the invariant.
LEMMA AttributesTaskMoves ==
    ASSUME TypeOK, AttributesInv, NEW t \in Task, NEW s, AttributesAsked(s),
           task' = [task EXCEPT ![t] = s]
    PROVE  AttributesInv'
<1>1. \A u \in Task : task'[u] = IF u = t THEN s ELSE task[u]
  BY DEF TypeOK
<1> QED
  BY <1>1 DEF AttributesInv, AttributesAsked

\* Whatever way a handler goes on, it keeps its attributes or drops them.
LEMMA AttributesKept ==
    ASSUME NEW s \in TaskState, AttributesAsked(s)
    PROVE  /\ \A r : AttributesAsked(Replied(s, r))
           /\ \A status : AttributesAsked(WithStatus(s, status))
           /\ \A t, result : AttributesAsked(AfterLookup(t, s, result))
           /\ \A pc \in Pc \ {"attributes"} :
                 AttributesAsked([s EXCEPT !.pc = pc])
<1>1. \A r : AttributesAsked(Replied(s, r))
  BY DEF AttributesAsked, RequestedAttributes, Replied
<1>2. \A pc \in Pc \ {"attributes"} : AttributesAsked([s EXCEPT !.pc = pc])
  BY DEF AttributesAsked, TaskState, TaskRecord
<1>3. \A status : AttributesAsked(WithStatus(s, status))
  BY <1>1 DEF AttributesAsked, WithStatus, TaskState, TaskRecord
<1>4. /\ AttributesAsked([s EXCEPT !.pc = "el_call", !.found = "none"])
      /\ AttributesAsked([s EXCEPT !.pc = "wait", !.found = "none"])
  BY DEF AttributesAsked, TaskState, TaskRecord
<1>5. \A t, result : AttributesAsked(AfterLookup(t, s, result))
  BY <1>3, <1>4 DEF AfterLookup
<1> QED
  BY <1>1, <1>2, <1>3, <1>5

\* A request brings the attributes it was decoded with, or none.
LEMMA AttributesReceived ==
    ASSUME TypeOK, AttributesInv, NEW t \in Task, NEW r, NEW version,
           NEW pc \in {"lookup", "wait"}, NEW polls,
           Receive(t, r, version, pc, polls),
           AttributesDecodeAs(r.attrs, version) =>
               DecodedAttributes(r.attrs, version) \in RequestedAttributes
    PROVE  AttributesInv'
<1>1. AttributesAsked(Replied([task[t] EXCEPT !.fcu = r.fcu], "ParseError"))
  BY DEF AttributesAsked, RequestedAttributes, Replied
<1>2. AttributesDecodeAs(r.attrs, version) =>
         AttributesAsked(Parsed(r, version, pc, polls))
  BY DEF AttributesAsked, Parsed
<1>3. \E s : task' = [task EXCEPT ![t] = s] /\ AttributesAsked(s)
  BY <1>1, <1>2 DEF Receive
<1> QED
  BY <1>3, AttributesTaskMoves

\* Every step preserves AttributesInv.
LEMMA AttributesStep == TypeOK /\ AttributesInv /\ [Next]_vars => AttributesInv'
<1> SUFFICES ASSUME TypeOK, AttributesInv, [Next]_vars
             PROVE  AttributesInv'
  OBVIOUS
<1>0. \A t \in Task : task[t] \in TaskState /\ AttributesAsked(task[t])
  BY DEF TypeOK, AttributesInv
<1>1. ASSUME NEW t \in ControllerTask, NEW r \in ControllerRequests,
             ControllerReceives(t, r)
      PROVE  AttributesInv'
  <2> DEFINE version == ControllerAttributesVersion(r.method)
  <2>1. AttributesDecodeAs(r.attrs, version) =>
           DecodedAttributes(r.attrs, version) \in RequestedAttributes
    BY DEF RequestedAttributes, DecodedControllerAttributes
  <2>2. t \in Task /\ Receive(t, r, version, "lookup", 0)
    BY <1>1 DEF ControllerReceives, Task
  <2> HIDE DEF version
  <2> QED
    BY <2>1, <2>2, AttributesReceived
<1>2. ASSUME NEW t \in ClientTask, NEW r \in ClientRequests,
             ClientReceives(t, r)
      PROVE  AttributesInv'
  <2> DEFINE version == ClientAttributesVersion
  <2>1. AttributesDecodeAs(r.attrs, version) =>
           DecodedAttributes(r.attrs, version) \in RequestedAttributes
    BY DEF RequestedAttributes, DecodedClientAttributes
  <2>2. t \in Task /\ Receive(t, r, version, "wait", MaxPolls)
    BY <1>2 DEF ClientReceives, Task
  <2> HIDE DEF version
  <2> QED
    BY <2>1, <2>2, AttributesReceived
<1>3. ASSUME NEW t \in Task, NEW s, AttributesAsked(s),
             task' = [task EXCEPT ![t] = s]
      PROVE  AttributesInv'
  BY <1>3, AttributesTaskMoves
<1>4. ASSUME NEW t \in Task,
             \/ \E outcome \in BuilderOutcome : RegisterAttributes(t, outcome)
             \/ GetExistingPayloadId(t) \/ EngineCallFails(t)
             \/ Disconnect(t)
      PROVE  AttributesInv'
  <2>1. PICK r : task' = [task EXCEPT ![t] = Replied(task[t], r)]
    BY <1>4 DEF RegisterAttributes, GetExistingPayloadId, EngineCallFails,
                Disconnect
  <2> QED
    BY <1>0, <1>3, <2>1, AttributesKept
<1>5. ASSUME NEW t \in Task,
             LookupMisses(t) \/ LookupFinds(t) \/ CheckFinalized(t)
      PROVE  AttributesInv'
  <2>1. PICK result :
           task' = [task EXCEPT ![t] = AfterLookup(t, task[t], result)]
    BY <1>5 DEF LookupMisses, LookupFinds, CheckFinalized
  <2> QED
    BY <1>0, <1>3, <2>1, AttributesKept
<1>6. ASSUME NEW t \in Task, CheckJustified(t)
      PROVE  AttributesInv'
  <2>1. AttributesAsked([task[t] EXCEPT !.pc = "check_finalized"])
    BY <1>0, AttributesKept DEF Pc
  <2>2. AttributesAsked(AfterLookup(t, task[t], "none"))
    BY <1>0, AttributesKept
  <2> QED
    BY <1>3, <1>6, <2>1, <2>2 DEF CheckJustified
<1>7. ASSUME NEW t \in Task, UpdateFcuCache(t) \/ PutFinalized(t)
      PROVE  AttributesInv'
  <2>1. AttributesAsked([task[t] EXCEPT !.pc = "put_justified"])
    BY <1>0, AttributesKept DEF Pc
  <2>2. AttributesAsked(WithStatus(task[t], task[t].found))
    BY <1>0, AttributesKept
  <2> QED
    BY <1>3, <1>7, <2>1, <2>2 DEF UpdateFcuCache, PutFinalized
<1>8. ASSUME NEW t \in Task,
             \/ LookupFindsLoosely(t) \/ PutJustified(t) \/ Poll(t)
             \/ TimeUp(t) \/ \E status \in EngineStatus : EngineAnswers(t, status)
      PROVE  AttributesInv'
  <2>1. \A u \in Task \ {t} : task'[u] = task[u]
    BY <1>8 DEF LookupFindsLoosely, PutJustified, Poll, TimeUp, EngineAnswers,
                TypeOK
  <2>2. /\ task'[t].pc # "attributes"
        /\ task'[t].attrs = task[t].attrs
    BY <1>0, <1>8
    DEF LookupFindsLoosely, PutJustified, Poll, TimeUp, EngineAnswers, TypeOK,
        TaskState, TaskRecord
  <2> QED
    BY <1>0, <2>1, <2>2 DEF AttributesInv, AttributesAsked
<1>9. ASSUME NEW fcu, NEW status, EngineProcessesOrphan(fcu, status)
      PROVE  AttributesInv'
  BY <1>9 DEF EngineProcessesOrphan, AttributesInv, AttributesAsked
<1>10. CASE UNCHANGED vars
  BY <1>10 DEF vars, AttributesInv, AttributesAsked
<1>11. ASSUME NEW t \in Task, TaskStep(t) \/ EngineCallEnds(t) \/ Disconnect(t)
       PROVE  AttributesInv'
  BY <1>4, <1>5, <1>6, <1>7, <1>8, <1>11
  DEF TaskStep, HandlerStep, EngineCallEnds
<1> QED
  BY <1>1, <1>2, <1>9, <1>10, <1>11 DEF Next

\* What reaches the payload builder came with a request, for every instance.
LEMMA AttributesComeFromRequests == Spec => []AttributesInv
<1>1. Init => AttributesInv
  BY DEF Init, AttributesInv, AttributesAsked, RequestedAttributes
<1> QED
  BY <1>1, TypeCorrect, AttributesStep, PTL DEF Spec
=============================================================================
