-------------------- MODULE ForkchoiceUpdatedRefinement --------------------
(***************************************************************************)
(* ForkchoiceUpdated implements StatusOracle, and what the controller was  *)
(* told is served to clients, for any number of tasks, requests and        *)
(* blocks.  Both rest on TypeOK and VerdictInv of ForkchoiceUpdatedProofs. *)
(***************************************************************************)
EXTENDS ForkchoiceUpdatedProofs

-----------------------------------------------------------------------------
(* What a step makes of a task.                                            *)

\* The task has its status: sent, or with the builder.
Gets(s, status) ==
    \/ s.pc = "idle" /\ s.reply = status
    \/ s.pc = "attributes" /\ s.found = status

\* The status a lookup that hits has for its caller.
LookupHits(t, status) ==
    \/ /\ LookupFinds(t)
       /\ status = fcu_cache[MatchedFcu(task[t].fcu)].val
    \/ /\ CheckFinalized(t)
       /\ LruContains(finalized_block_cache, task[t].fcu.finalized_block_hash)
       /\ status = task[t].found

Looks(t) ==
    LookupMisses(t) \/ LookupFinds(t) \/ CheckJustified(t) \/ CheckFinalized(t)

Moved(t, s) ==
    /\ s.fcu = task[t].fcu
    /\ s.pc # "idle" => s.reply = task[t].reply
    /\ \/ s.pc \in {"lookup", "wait", "check_justified", "check_finalized"}
       \/ s.pc = "el_call" /\ t \in ControllerTask
       \/ s.pc = "el_done" /\ task[t].pc = "el_call"
       \/ \E status \in Status : LookupHits(t, status) /\ Gets(s, status)
       \/ Looks(t) /\ t \in ClientTask /\ Gets(s, "SYNCING")
       \/ /\ UpdateFcuCache(t) \/ PutFinalized(t)
          /\ Gets(s, task[t].found)
       \/ /\ UpdateFcuCache(t) \/ PutJustified(t)
          /\ s.pc \in {"put_justified", "put_finalized"}
          /\ s.found = task[t].found
       \/ /\ task[t].pc = "attributes"
          /\ s.pc = "idle" /\ s.reply = task[t].found
       \/ s.pc = "idle" /\ s.reply \notin Status

LEMMA WithStatusGets ==
    ASSUME NEW s \in TaskState, NEW status
    PROVE  /\ Gets(WithStatus(s, status), status)
           /\ WithStatus(s, status).fcu = s.fcu
           /\ WithStatus(s, status).pc # "idle" =>
                 WithStatus(s, status).reply = s.reply
<1> DEFINE a == [s EXCEPT !.pc = "attributes", !.found = status]
<1>1. /\ a.pc = "attributes" /\ a.found = status /\ a.fcu = s.fcu
      /\ a.reply = s.reply
  BY DEF TaskState, TaskRecord
<1>2. CASE s.attrs = NoAttributes
  BY <1>2 DEF WithStatus, Replied, Gets
<1>3. CASE s.attrs # NoAttributes
  <2>1. WithStatus(s, status) = a
    BY <1>3 DEF WithStatus
  <2> HIDE DEF a
  <2> QED
    BY <1>1, <2>1 DEF Gets
<1> QED
  BY <1>2, <1>3

\* How a caller goes on without a status.
LEMMA AfterMiss ==
    ASSUME NEW t \in Task, NEW s \in TaskState
    PROVE  LET n == AfterLookup(t, s, "none") IN
           /\ n.fcu = s.fcu
           /\ n.pc # "idle" => n.reply = s.reply
           /\ \/ n.pc = "wait"
              \/ n.pc = "el_call" /\ t \in ControllerTask
              \/ t \in ClientTask /\ Gets(n, "SYNCING")
<1> DEFINE call == [s EXCEPT !.pc = "el_call", !.found = "none"]
           wait == [s EXCEPT !.pc = "wait", !.found = "none"]
<1>1. /\ call.pc = "el_call" /\ call.fcu = s.fcu /\ call.reply = s.reply
      /\ wait.pc = "wait" /\ wait.fcu = s.fcu /\ wait.reply = s.reply
  BY DEF TaskState, TaskRecord
<1>2. CASE t \in ControllerTask
  <2>1. AfterLookup(t, s, "none") = call
    BY <1>2 DEF AfterLookup
  <2> HIDE DEF call
  <2> QED
    BY <1>1, <1>2, <2>1
<1>3. CASE t \notin ControllerTask /\ s.definite_only
  <2>1. AfterLookup(t, s, "none") = wait
    BY <1>3 DEF AfterLookup
  <2> HIDE DEF wait
  <2> QED
    BY <1>1, <2>1
<1>4. CASE t \notin ControllerTask /\ ~s.definite_only
  <2>1. AfterLookup(t, s, "none") = WithStatus(s, "SYNCING")
    BY <1>4 DEF AfterLookup
  <2>2. t \in ClientTask
    BY <1>4 DEF Task
  <2> QED
    BY <2>1, <2>2, WithStatusGets
<1> QED
  BY <1>2, <1>3, <1>4

LEMMA HandlerMoves ==
    ASSUME TypeOK, NEW t \in Task,
           TaskStep(t) \/ EngineCallEnds(t) \/ Disconnect(t)
    PROVE  /\ task[t].pc # "idle"
           /\ \E s : task' = [task EXCEPT ![t] = s] /\ Moved(t, s)
<1>0. task[t] \in TaskState /\ task \in [Task -> TaskState]
  BY DEF TypeOK
<1>a. task[t].pc # "idle"
  BY DEF TaskStep, HandlerStep, EngineCallEnds, LookupMisses, LookupFinds,
         LookupFindsLoosely, CheckJustified, CheckFinalized, UpdateFcuCache,
         PutJustified, PutFinalized, Poll, TimeUp, RegisterAttributes,
         GetExistingPayloadId, EngineAnswers, EngineCallFails, Disconnect
<1> DEFINE Goal == \E s : task' = [task EXCEPT ![t] = s] /\ Moved(t, s)
<1> SUFFICES Goal
  BY <1>a
<1>1. ASSUME Looks(t),
             task' = [task EXCEPT ![t] = AfterLookup(t, task[t], "none")]
      PROVE  Goal
  <2> DEFINE n == AfterLookup(t, task[t], "none")
  <2>1. /\ n.fcu = task[t].fcu
        /\ n.pc # "idle" => n.reply = task[t].reply
        /\ \/ n.pc = "wait"
           \/ n.pc = "el_call" /\ t \in ControllerTask
           \/ t \in ClientTask /\ Gets(n, "SYNCING")
    BY <1>0, AfterMiss
  <2>2. task' = [task EXCEPT ![t] = n]
    BY <1>1
  <2> HIDE DEF n
  <2> QED
    BY <1>1, <2>1, <2>2 DEF Moved
<1>2. ASSUME NEW status \in Status, LookupHits(t, status),
             task' = [task EXCEPT ![t] = AfterLookup(t, task[t], status)]
      PROVE  Goal
  <2> DEFINE n == WithStatus(task[t], status)
  <2>1. AfterLookup(t, task[t], status) = n
    BY DEF AfterLookup, Status
  <2>2. /\ n.fcu = task[t].fcu /\ Gets(n, status)
        /\ n.pc # "idle" => n.reply = task[t].reply
    BY <1>0, WithStatusGets
  <2> HIDE DEF n
  <2> QED
    BY <1>2, <2>1, <2>2 DEF Moved
<1>3. CASE LookupMisses(t)
  BY <1>1, <1>3 DEF LookupMisses, Looks
<1>4. CASE LookupFinds(t)
  <2> DEFINE status == fcu_cache[MatchedFcu(task[t].fcu)].val
  <2>1. task[t].fcu \in Fcu
    BY <1>0 DEF TaskState, TaskRecord
  <2>2. status \in Status
    BY <1>4, <2>1, MatchedFcuIsCached DEF LookupFinds
  <2>3. CASE DefiniteEnough(task[t].definite_only, status)
    <3>1. task' = [task EXCEPT ![t] = AfterLookup(t, task[t], status)]
      BY <1>4, <2>3 DEF LookupFinds
    <3>2. LookupHits(t, status)
      BY <1>4 DEF LookupHits
    <3> HIDE DEF status
    <3> QED
      BY <1>2, <2>2, <3>1, <3>2
  <2>4. CASE ~DefiniteEnough(task[t].definite_only, status)
    <3>1. task' = [task EXCEPT ![t] = AfterLookup(t, task[t], "none")]
      BY <1>4, <2>4 DEF LookupFinds
    <3> QED
      BY <1>1, <1>4, <3>1 DEF Looks
  <2> QED
    BY <2>3, <2>4
<1>5. CASE LookupFindsLoosely(t)
  <2> DEFINE s == [task[t] EXCEPT !.pc = "check_justified",
                      !.found = fcu_cache[MatchedFcu(task[t].fcu)].val]
  <2>1. task' = [task EXCEPT ![t] = s]
    BY <1>0, <1>5 DEF LookupFindsLoosely
  <2>2. /\ s.pc = "check_justified" /\ s.fcu = task[t].fcu
        /\ s.reply = task[t].reply
    BY <1>0 DEF TaskState, TaskRecord
  <2> HIDE DEF s
  <2> QED
    BY <2>1, <2>2 DEF Moved
<1>6. CASE CheckJustified(t)
  <2> DEFINE s == [task[t] EXCEPT !.pc = "check_finalized"]
  <2>1. CASE task' = [task EXCEPT ![t] = s]
    <3>1. /\ s.pc = "check_finalized" /\ s.fcu = task[t].fcu
          /\ s.reply = task[t].reply
      BY <1>0 DEF TaskState, TaskRecord
    <3> HIDE DEF s
    <3> QED
      BY <2>1, <3>1 DEF Moved
  <2>2. CASE task' = [task EXCEPT ![t] = AfterLookup(t, task[t], "none")]
    BY <1>1, <1>6, <2>2 DEF Looks
  <2> QED
    BY <1>6, <2>1, <2>2 DEF CheckJustified
<1>7. CASE CheckFinalized(t)
  <2> DEFINE hit == /\ LruContains(finalized_block_cache,
                                   task[t].fcu.finalized_block_hash)
                    /\ DefiniteEnough(task[t].definite_only, task[t].found)
  <2>1. task[t].found \in Status
    BY <1>0, <1>7 DEF CheckFinalized, TaskState, HasStatus
  <2>2. CASE hit
    <3>1. task' = [task EXCEPT ![t] = AfterLookup(t, task[t], task[t].found)]
      BY <1>7, <2>2 DEF CheckFinalized
    <3>2. LookupHits(t, task[t].found)
      BY <1>7, <2>2 DEF LookupHits
    <3> QED
      BY <1>2, <2>1, <3>1, <3>2
  <2>3. CASE ~hit
    <3>1. task' = [task EXCEPT ![t] = AfterLookup(t, task[t], "none")]
      BY <1>7, <2>3 DEF CheckFinalized
    <3> QED
      BY <1>1, <1>7, <3>1 DEF Looks
  <2> QED
    BY <2>2, <2>3
<1>8. ASSUME UpdateFcuCache(t) \/ PutFinalized(t),
             task' = [task EXCEPT ![t] = WithStatus(task[t], task[t].found)]
      PROVE  Goal
  <2> DEFINE n == WithStatus(task[t], task[t].found)
  <2>1. /\ n.fcu = task[t].fcu /\ Gets(n, task[t].found)
        /\ n.pc # "idle" => n.reply = task[t].reply
    BY <1>0, WithStatusGets
  <2>2. task' = [task EXCEPT ![t] = n]
    BY <1>8
  <2> HIDE DEF n
  <2> QED
    BY <1>8, <2>1, <2>2 DEF Moved
<1>9. ASSUME NEW pc \in {"put_justified", "put_finalized"},
             UpdateFcuCache(t) \/ PutJustified(t),
             task' = [task EXCEPT ![t] = [task[t] EXCEPT !.pc = pc]]
      PROVE  Goal
  <2> DEFINE n == [task[t] EXCEPT !.pc = pc]
  <2>1. /\ n.fcu = task[t].fcu /\ n.pc = pc /\ n.found = task[t].found
        /\ n.reply = task[t].reply
    BY <1>0 DEF TaskState, TaskRecord
  <2>2. task' = [task EXCEPT ![t] = n]
    BY <1>9
  <2> HIDE DEF n
  <2> QED
    BY <1>9, <2>1, <2>2 DEF Moved
<1>10. CASE UpdateFcuCache(t)
  <2>1. \/ task' = [task EXCEPT ![t] = WithStatus(task[t], task[t].found)]
        \/ task' = [task EXCEPT ![t] =
                       [task[t] EXCEPT !.pc = "put_justified"]]
    BY <1>10 DEF UpdateFcuCache
  <2> QED
    BY <1>8, <1>9, <1>10, <2>1
<1>11. CASE PutJustified(t)
  <2>1. task' = [task EXCEPT ![t] = [task[t] EXCEPT !.pc = "put_finalized"]]
    BY <1>0, <1>11 DEF PutJustified
  <2> QED
    BY <1>9, <1>11, <2>1
<1>12. CASE PutFinalized(t)
  BY <1>8, <1>12 DEF PutFinalized
<1>13. CASE Poll(t)
  <2> DEFINE s == [task[t] EXCEPT !.pc = "lookup", !.polls = @ - 1]
  <2>1. task' = [task EXCEPT ![t] = s]
    BY <1>0, <1>13 DEF Poll
  <2>2. s.pc = "lookup" /\ s.fcu = task[t].fcu /\ s.reply = task[t].reply
    BY <1>0 DEF TaskState, TaskRecord
  <2> HIDE DEF s
  <2> QED
    BY <2>1, <2>2 DEF Moved
<1>14. CASE TimeUp(t)
  <2> DEFINE s == [task[t] EXCEPT !.pc = "lookup", !.polls = 0,
                                  !.definite_only = FALSE]
  <2>1. task' = [task EXCEPT ![t] = s]
    BY <1>0, <1>14 DEF TimeUp
  <2>2. s.pc = "lookup" /\ s.fcu = task[t].fcu /\ s.reply = task[t].reply
    BY <1>0 DEF TaskState, TaskRecord
  <2> HIDE DEF s
  <2> QED
    BY <2>1, <2>2 DEF Moved
<1>15. ASSUME NEW r, task' = [task EXCEPT ![t] = Replied(task[t], r)],
              \/ r \notin Status
              \/ task[t].pc = "attributes" /\ r = task[t].found
       PROVE  Goal
  <2> DEFINE n == Replied(task[t], r)
  <2>1. n.fcu = task[t].fcu /\ n.pc = "idle" /\ n.reply = r
    BY DEF Replied
  <2>2. task' = [task EXCEPT ![t] = n]
    BY <1>15
  <2> HIDE DEF n
  <2> QED
    BY <1>15, <2>1, <2>2 DEF Moved
<1>16. ASSUME NEW outcome \in BuilderOutcome, RegisterAttributes(t, outcome)
       PROVE  Goal
  <2>1. CASE outcome = "ok"
    BY <1>15, <1>16, <2>1 DEF RegisterAttributes
  <2>2. CASE outcome # "ok"
    <3>1. outcome \notin Status
      BY <2>2 DEF BuilderOutcome, Status
    <3> QED
      BY <1>15, <1>16, <2>2, <3>1 DEF RegisterAttributes
  <2> QED
    BY <2>1, <2>2
<1>17. CASE GetExistingPayloadId(t)
  BY <1>15, <1>17 DEF GetExistingPayloadId
<1>18. CASE EngineCallFails(t) \/ Disconnect(t)
  <2>1. "InvalidRequest" \notin Status /\ "dropped" \notin Status
    BY DEF Status
  <2> QED
    BY <1>15, <1>18, <2>1 DEF EngineCallFails, Disconnect
<1>19. ASSUME NEW status \in EngineStatus, EngineAnswers(t, status)
       PROVE  Goal
  <2> DEFINE s == [task[t] EXCEPT !.pc = "el_done", !.found = status]
  <2>1. task' = [task EXCEPT ![t] = s]
    BY <1>0, <1>19 DEF EngineAnswers
  <2>2. s.pc = "el_done" /\ s.fcu = task[t].fcu /\ s.reply = task[t].reply
    BY <1>0 DEF TaskState, TaskRecord
  <2>3. task[t].pc = "el_call"
    BY <1>19 DEF EngineAnswers
  <2> HIDE DEF s
  <2> QED
    BY <2>1, <2>2, <2>3 DEF Moved
<1> HIDE DEF Goal
<1> QED
  BY <1>3, <1>4, <1>5, <1>6, <1>7, <1>10, <1>11, <1>12, <1>13, <1>14, <1>16,
     <1>17, <1>18, <1>19
  DEF TaskStep, HandlerStep, EngineCallEnds

\* Where a request leaves its task.
LEMMA ReceiveMoves ==
    ASSUME TypeOK, NEW t \in Task, NEW r \in Request, NEW version,
           NEW pc \in {"lookup", "wait"}, NEW polls,
           Receive(t, r, version, pc, polls)
    PROVE  \E s : /\ task' = [task EXCEPT ![t] = s]
                  /\ s.fcu = r.fcu
                  /\ \/ s.pc = pc /\ s.reply = "none"
                     \/ s.pc = "idle" /\ s.reply = "ParseError"
<1> DEFINE refused == Replied([task[t] EXCEPT !.fcu = r.fcu], "ParseError")
           parsed == Parsed(r, version, pc, polls)
<1>1. parsed.fcu = r.fcu /\ parsed.pc = pc /\ parsed.reply = "none"
  BY DEF Parsed
<1>2. [task[t] EXCEPT !.fcu = r.fcu].fcu = r.fcu
  BY DEF TypeOK, TaskState, TaskRecord
<1>3. /\ refused.fcu = r.fcu /\ refused.pc = "idle"
      /\ refused.reply = "ParseError"
  BY <1>2 DEF Replied
<1>4. \/ task' = [task EXCEPT ![t] = parsed]
      \/ task' = [task EXCEPT ![t] = refused]
  BY DEF Receive
<1> HIDE DEF parsed, refused
<1> QED
  BY <1>1, <1>3, <1>4

-----------------------------------------------------------------------------
(* Every status in flight may be sent.                                     *)

Supported(said, t, fcu, status) ==
    \/ Backed(said, fcu, status)
    \/ status = "SYNCING" /\ t \in ClientTask

\* A status that is with the builder may be the answer.
PendingSupported(said, t, s) ==
    s.pc = "attributes" => Supported(said, t, s.fcu, s.found)

PendingInv == \A t \in Task : PendingSupported(el_said, t, task[t])

\* A step of a handler leaves its task with a status it may send, or sent.
LEMMA MovedSupported ==
    ASSUME TypeOK, VerdictInv, PendingInv, NEW t \in Task, NEW s, Moved(t, s)
    PROVE  /\ PendingSupported(el_said, t, s)
           /\ s.pc = "idle" /\ s.reply \in Status =>
                 Supported(el_said, t, task[t].fcu, s.reply)
<1> DEFINE Goal == /\ PendingSupported(el_said, t, s)
                   /\ s.pc = "idle" /\ s.reply \in Status =>
                         Supported(el_said, t, task[t].fcu, s.reply)
<1>0. /\ task[t] \in TaskState /\ task[t].fcu \in Fcu
      /\ TaskBacked(el_said, task[t]) /\ s.fcu = task[t].fcu
      /\ PendingSupported(el_said, t, task[t])
  BY DEF TypeOK, TaskState, TaskRecord, VerdictInv, PendingInv, Moved
<1>1. ASSUME NEW status, Gets(s, status),
             Supported(el_said, t, task[t].fcu, status)
      PROVE  Goal
  BY <1>0, <1>1 DEF Gets, PendingSupported
<1>2. ASSUME NEW status \in Status, LookupHits(t, status)
      PROVE  Backed(el_said, task[t].fcu, status)
  <2>1. CASE /\ LookupFinds(t)
             /\ status = fcu_cache[MatchedFcu(task[t].fcu)].val
    <3>1. fcu_matching # "loose" /\ MatchingFcus(task[t].fcu) # {}
      BY <2>1 DEF LookupFinds
    <3> QED
      BY <1>0, <2>1, <3>1, MatchedFcuIsBacked
  <2>2. CASE /\ CheckFinalized(t)
             /\ LruContains(finalized_block_cache,
                            task[t].fcu.finalized_block_hash)
             /\ status = task[t].found
    <3>1. task[t].pc = "check_finalized"
      BY <2>2 DEF CheckFinalized
    <3>2. /\ fcu_matching = "loose"
          /\ HeadBacked(el_said, task[t].fcu.head_block_hash, status)
          /\ SafeBacked(el_said, task[t].fcu.safe_block_hash)
      BY <1>0, <2>2, <3>1 DEF TaskBacked
    <3>3. FinalizedBacked(el_said, task[t].fcu.finalized_block_hash)
      BY <2>2 DEF VerdictInv, FinalizedCacheBacked, LruContains
    <3> QED
      BY <3>2, <3>3 DEF Backed, MatchBacked
  <2> QED
    BY <1>2, <2>1, <2>2 DEF LookupHits
<1>3. ASSUME UpdateFcuCache(t) \/ PutFinalized(t), Gets(s, task[t].found)
      PROVE  Goal
  <2>1. task[t].pc \in {"el_done", "put_finalized"}
    BY <1>3 DEF UpdateFcuCache, PutFinalized
  <2>2. Supported(el_said, t, task[t].fcu, task[t].found)
    BY <1>0, <2>1 DEF TaskBacked, Supported, Backed
  <2> QED
    BY <1>1, <1>3, <2>2
<1>4. ASSUME NEW status \in Status, LookupHits(t, status), Gets(s, status)
      PROVE  Goal
  BY <1>1, <1>2, <1>4 DEF Supported
<1>5. ASSUME t \in ClientTask, Gets(s, "SYNCING")
      PROVE  Goal
  BY <1>1, <1>5 DEF Supported
<1>6. ASSUME task[t].pc = "attributes", s.pc = "idle",
             s.reply = task[t].found
      PROVE  Goal
  BY <1>0, <1>6 DEF PendingSupported
<1>7. ASSUME s.pc \notin {"idle", "attributes"}
      PROVE  Goal
  BY <1>7 DEF PendingSupported
<1>8. ASSUME s.pc = "idle", s.reply \notin Status
      PROVE  Goal
  BY <1>8 DEF PendingSupported
<1> HIDE DEF Goal
<1>9. Goal
  BY <1>3, <1>4, <1>5, <1>6, <1>7, <1>8 DEF Moved
<1> QED
  BY <1>9 DEF Goal

\* What the engine has said stays said.
LEMMA SaidGrows ==
    ASSUME [Next]_vars
    PROVE  el_said \subseteq el_said'
BY DEF Next, vars, engine, ControllerReceives, ClientReceives, Receive,
       TaskStep, HandlerStep, LookupMisses, LookupFinds, LookupFindsLoosely,
       CheckJustified, CheckFinalized, UpdateFcuCache, PutJustified,
       PutFinalized, Poll, TimeUp, RegisterAttributes, GetExistingPayloadId,
       EngineCallEnds, EngineAnswers, EngineApplies, EngineCallFails,
       EngineProcessesOrphan, Disconnect

\* Every step preserves PendingInv.
LEMMA PendingInvStep ==
    TypeOK /\ VerdictInv /\ PendingInv /\ [Next]_vars => PendingInv'
<1> SUFFICES ASSUME TypeOK, VerdictInv, PendingInv, [Next]_vars
             PROVE  PendingInv'
  OBVIOUS
<1>0. el_said \subseteq el_said' /\ task \in [Task -> TaskState]
  BY SaidGrows DEF TypeOK
<1>1. \A t, s : PendingSupported(el_said, t, s)
                  => PendingSupported(el_said', t, s)
  BY <1>0, BackingGrows DEF PendingSupported, Supported
<1>2. ASSUME NEW t \in Task, NEW s, task' = [task EXCEPT ![t] = s],
             PendingSupported(el_said, t, s)
      PROVE  PendingInv'
  <2>1. \A u \in Task : task'[u] = IF u = t THEN s ELSE task[u]
    BY <1>0, <1>2
  <2>2. \A u \in Task : PendingSupported(el_said, u, task'[u])
    BY <1>2, <2>1 DEF PendingInv
  <2> QED
    BY <1>1, <2>2 DEF PendingInv
<1>3. ASSUME NEW t \in Task, NEW r \in Request, NEW version,
             NEW pc \in {"lookup", "wait"}, NEW polls,
             Receive(t, r, version, pc, polls)
      PROVE  PendingInv'
  <2>1. PICK s : task' = [task EXCEPT ![t] = s] /\ s.pc # "attributes"
    BY <1>3, ReceiveMoves
  <2> QED
    BY <1>2, <2>1 DEF PendingSupported
<1>4. ASSUME NEW t \in ControllerTask, NEW r \in ControllerRequests,
             ControllerReceives(t, r)
      PROVE  PendingInv'
  BY <1>3, <1>4, ForkchoiceUpdatedAssumption DEF ControllerReceives, Task
<1>5. ASSUME NEW t \in ClientTask, NEW r \in ClientRequests,
             ClientReceives(t, r)
      PROVE  PendingInv'
  BY <1>3, <1>5, ForkchoiceUpdatedAssumption DEF ClientReceives, Task
<1>6. ASSUME NEW t \in Task,
             TaskStep(t) \/ EngineCallEnds(t) \/ Disconnect(t)
      PROVE  PendingInv'
  <2>1. PICK s : task' = [task EXCEPT ![t] = s] /\ Moved(t, s)
    BY <1>6, HandlerMoves
  <2>2. PendingSupported(el_said, t, s)
    BY <2>1, MovedSupported
  <2> QED
    BY <1>2, <2>1, <2>2
<1>7. CASE UNCHANGED task
  BY <1>1, <1>7 DEF PendingInv
<1>8. ASSUME NEW fcu, NEW status, EngineProcessesOrphan(fcu, status)
      PROVE  PendingInv'
  BY <1>7, <1>8 DEF EngineProcessesOrphan
<1>9. CASE UNCHANGED vars
  BY <1>7, <1>9 DEF vars
<1> QED
  BY <1>4, <1>5, <1>6, <1>8, <1>9 DEF Next

-----------------------------------------------------------------------------
(* The handlers implement StatusOracle.                                    *)

\* What the oracle sees of a step that moves task t to s.
LEMMA OracleView ==
    ASSUME task \in [Task -> TaskState], NEW t \in Task, NEW s,
           task' = [task EXCEPT ![t] = s]
    PROVE  /\ [u \in Task |-> task[u].fcu]' =
                 [[u \in Task |-> task[u].fcu] EXCEPT ![t] = s.fcu]
           /\ [u \in Task |-> task[u].pc # "idle"]' =
                 [[u \in Task |-> task[u].pc # "idle"] EXCEPT
                     ![t] = (s.pc # "idle")]
           /\ [u \in Task |-> task[u].reply]' =
                 [[u \in Task |-> task[u].reply] EXCEPT ![t] = s.reply]
<1>1. \A u \in Task : task'[u] = IF u = t THEN s ELSE task[u]
  OBVIOUS
<1> QED
  BY <1>1

\* A request that is taken on is a question asked.
LEMMA OracleAsks ==
    ASSUME task \in [Task -> TaskState], NEW t \in Task, NEW s,
           task' = [task EXCEPT ![t] = s], UNCHANGED el_said,
           task[t].pc = "idle", s.fcu \in Fcu,
           s.pc # "idle" /\ s.reply = "none"
    PROVE  Oracle!Next
<1> DEFINE question == [u \in Task |-> task[u].fcu]
           busy == [u \in Task |-> task[u].pc # "idle"]
           reply == [u \in Task |-> task[u].reply]
<1>1. /\ question' = [question EXCEPT ![t] = s.fcu]
      /\ busy' = [busy EXCEPT ![t] = (s.pc # "idle")]
      /\ reply' = [reply EXCEPT ![t] = s.reply]
  BY OracleView
<1>2. /\ ~busy[t]
      /\ busy' = [busy EXCEPT ![t] = TRUE]
      /\ reply' = [reply EXCEPT ![t] = "none"]
      /\ question'[t] \in Fcu
      /\ question' = [question EXCEPT ![t] = question'[t]]
  BY <1>1
<1>3. Oracle!Ask(t)
  BY <1>2 DEF Oracle!Ask, Oracle!Poses
<1> QED
  BY <1>3 DEF Oracle!Next

\* A request that is turned away is a question refused.
LEMMA OracleRefuses ==
    ASSUME task \in [Task -> TaskState], NEW t \in Task, NEW s,
           task' = [task EXCEPT ![t] = s], UNCHANGED el_said,
           task[t].pc = "idle", s.fcu \in Fcu,
           s.pc = "idle" /\ s.reply \notin Status
    PROVE  Oracle!Next
<1> DEFINE question == [u \in Task |-> task[u].fcu]
           busy == [u \in Task |-> task[u].pc # "idle"]
           reply == [u \in Task |-> task[u].reply]
<1>1. /\ question' = [question EXCEPT ![t] = s.fcu]
      /\ busy' = [busy EXCEPT ![t] = (s.pc # "idle")]
      /\ reply' = [reply EXCEPT ![t] = s.reply]
  BY OracleView
<1>2. /\ ~busy[t]
      /\ busy' = busy
      /\ reply'[t] \notin Status
      /\ reply' = [reply EXCEPT ![t] = reply'[t]]
      /\ question'[t] \in Fcu
      /\ question' = [question EXCEPT ![t] = question'[t]]
  BY <1>1
<1>3. Oracle!Refuse(t)
  BY <1>2 DEF Oracle!Refuse, Oracle!Poses, Oracle!Status, Status
<1> QED
  BY <1>3 DEF Oracle!Next

\* A reply that may be given is an answer.
LEMMA OracleAnswers ==
    ASSUME task \in [Task -> TaskState], NEW t \in Task, NEW s,
           task' = [task EXCEPT ![t] = s], UNCHANGED el_said,
           task[t].pc # "idle", s.pc = "idle",
           s.fcu = task[t].fcu,
           s.reply \in Status =>
              \/ Backed(el_said, task[t].fcu, s.reply)
              \/ s.reply = "SYNCING" /\ Synthesises(t, task[t].fcu)
    PROVE  Oracle!Next
<1> DEFINE question == [u \in Task |-> task[u].fcu]
           busy == [u \in Task |-> task[u].pc # "idle"]
           reply == [u \in Task |-> task[u].reply]
<1>1. /\ question' = [question EXCEPT ![t] = s.fcu]
      /\ busy' = [busy EXCEPT ![t] = (s.pc # "idle")]
      /\ reply' = [reply EXCEPT ![t] = s.reply]
  BY OracleView
<1>2. /\ busy[t]
      /\ question' = question
      /\ busy' = [busy EXCEPT ![t] = FALSE]
      /\ reply'[t] = s.reply /\ question[t] = task[t].fcu
      /\ reply' = [reply EXCEPT ![t] = reply'[t]]
  BY <1>1
<1>3. Oracle!MayAnswer(t, reply'[t])
  BY <1>2 DEF Oracle!MayAnswer, Oracle!Status, Status
<1>4. Oracle!Answer(t)
  BY <1>2, <1>3 DEF Oracle!Answer
<1> QED
  BY <1>4 DEF Oracle!Next

\* The oracle sees nothing of a task's way to its answer but what the engine
\* says meanwhile.
LEMMA OracleWaits ==
    ASSUME task \in [Task -> TaskState], NEW t \in Task, NEW s,
           task' = [task EXCEPT ![t] = s], el_said \subseteq el_said',
           task[t].pc # "idle", s.pc # "idle",
           s.fcu = task[t].fcu, s.reply = task[t].reply
    PROVE  Oracle!Next
<1> DEFINE question == [u \in Task |-> task[u].fcu]
           busy == [u \in Task |-> task[u].pc # "idle"]
           reply == [u \in Task |-> task[u].reply]
<1>1. /\ question' = [question EXCEPT ![t] = s.fcu]
      /\ busy' = [busy EXCEPT ![t] = (s.pc # "idle")]
      /\ reply' = [reply EXCEPT ![t] = s.reply]
  BY OracleView
<1>2. question' = question /\ busy' = busy /\ reply' = reply
  BY <1>1
<1>3. Oracle!Learn
  BY <1>2 DEF Oracle!Learn
<1> QED
  BY <1>3 DEF Oracle!Next

\* Every step is a step of the oracle, or one it does not see.
LEMMA OracleStep ==
    TypeOK /\ VerdictInv /\ PendingInv /\ [Next]_vars
        => [Oracle!Next]_(Oracle!vars)
<1> SUFFICES ASSUME TypeOK, VerdictInv, PendingInv, [Next]_vars
             PROVE  [Oracle!Next]_(Oracle!vars)
  OBVIOUS
<1>0. task \in [Task -> TaskState] /\ el_said \subseteq el_said'
  BY SaidGrows DEF TypeOK
<1>1. ASSUME NEW t \in Task, NEW r \in Request, NEW version,
             NEW pc \in {"lookup", "wait"}, NEW polls,
             Receive(t, r, version, pc, polls)
      PROVE  Oracle!Next
  <2>1. task[t].pc = "idle" /\ UNCHANGED el_said
    BY <1>1 DEF Receive, engine
  <2>2. PICK s : /\ task' = [task EXCEPT ![t] = s]
                 /\ s.fcu = r.fcu
                 /\ \/ s.pc = pc /\ s.reply = "none"
                    \/ s.pc = "idle" /\ s.reply = "ParseError"
    BY <1>1, ReceiveMoves
  <2>3. s.fcu \in Fcu /\ "ParseError" \notin Status
    BY <2>2 DEF Request, Status
  <2>4. CASE s.pc = pc /\ s.reply = "none"
    BY <1>0, <2>1, <2>2, <2>3, <2>4, OracleAsks
  <2>5. CASE s.pc = "idle" /\ s.reply = "ParseError"
    BY <1>0, <2>1, <2>2, <2>3, <2>5, OracleRefuses
  <2> QED
    BY <2>2, <2>4, <2>5
<1>2. ASSUME NEW t \in ControllerTask, NEW r \in ControllerRequests,
             ControllerReceives(t, r)
      PROVE  Oracle!Next
  BY <1>1, <1>2, ForkchoiceUpdatedAssumption DEF ControllerReceives, Task
<1>3. ASSUME NEW t \in ClientTask, NEW r \in ClientRequests,
             ClientReceives(t, r)
      PROVE  Oracle!Next
  BY <1>1, <1>3, ForkchoiceUpdatedAssumption DEF ClientReceives, Task
<1>4. ASSUME NEW t \in Task,
             TaskStep(t) \/ EngineCallEnds(t) \/ Disconnect(t)
      PROVE  Oracle!Next
  <2>1. /\ task[t].pc # "idle"
        /\ \E s : task' = [task EXCEPT ![t] = s] /\ Moved(t, s)
    BY <1>4, HandlerMoves
  <2>2. PICK s : task' = [task EXCEPT ![t] = s] /\ Moved(t, s)
    BY <2>1
  <2>3. s.fcu = task[t].fcu /\ (s.pc # "idle" => s.reply = task[t].reply)
    BY <2>2 DEF Moved
  <2>4. CASE s.pc # "idle"
    BY <1>0, <2>1, <2>2, <2>3, <2>4, OracleWaits
  <2>5. CASE s.pc = "idle"
    <3>1. UNCHANGED el_said
      <4>1. task'[t] = s
        BY <1>0, <2>2
      <4>2. ~(\E status \in EngineStatus : EngineAnswers(t, status))
        BY <1>0, <2>5, <4>1 DEF EngineAnswers, TaskState, TaskRecord
      <4> QED
        BY <1>4, <4>2
        DEF engine, TaskStep, HandlerStep, LookupMisses, LookupFinds,
            LookupFindsLoosely, CheckJustified, CheckFinalized,
            UpdateFcuCache, PutJustified, PutFinalized, Poll, TimeUp,
            RegisterAttributes, GetExistingPayloadId, EngineCallEnds,
            EngineCallFails, Disconnect
    <3>2. s.reply \in Status =>
             \/ Backed(el_said, task[t].fcu, s.reply)
             \/ s.reply = "SYNCING" /\ Synthesises(t, task[t].fcu)
      BY <2>2, <2>5, MovedSupported DEF Supported, Synthesises
    <3> QED
      BY <1>0, <2>1, <2>2, <2>3, <2>5, <3>1, <3>2, OracleAnswers
  <2> QED
    BY <2>4, <2>5
<1>5. ASSUME NEW fcu, NEW status, EngineProcessesOrphan(fcu, status)
      PROVE  Oracle!Next
  <2>1. UNCHANGED task
    BY <1>5 DEF EngineProcessesOrphan
  <2>2. Oracle!Learn
    BY <1>0, <2>1 DEF Oracle!Learn
  <2> QED
    BY <2>2 DEF Oracle!Next
<1>6. CASE UNCHANGED vars
  BY <1>6 DEF vars, Oracle!vars
<1> QED
  BY <1>2, <1>3, <1>4, <1>5, <1>6 DEF Next

\* ImplementsOracle for every instance and matching mode: all that the
\* handlers of fcu.rs do, with their caches, locks, polls, failed calls and
\* dropped connections, is asking, learning and answering as StatusOracle
\* allows.
THEOREM Refinement == Spec => ImplementsOracle
<1>1. Init => Oracle!Init
  <2> SUFFICES ASSUME Init PROVE Oracle!Init
    OBVIOUS
  <2>1. GenesisFcu \in Fcu
    BY ForkchoiceUpdatedAssumption DEF GenesisFcu, Fcu, ForkchoiceState
  <2> QED
    BY <2>1 DEF Init, Oracle!Init
<1>2. Init => PendingInv
  BY DEF Init, PendingInv, PendingSupported
<1> QED
  BY <1>1, <1>2, TypeCorrect, VerdictInvInit, VerdictInvStep, PendingInvStep,
     OracleStep, PTL
  DEF Spec, Oracle!Spec, ImplementsOracle

-----------------------------------------------------------------------------
(* What the controller was told, with exact matching and room in the cache. *)

\* A cache of this capacity can hold all the keys S.
HasRoom(cap, S) == IsFiniteSet(S) /\ Cardinality(S) <= cap

\* put drops nothing from a cache whose keys, with the new one, fit into it.
LEMMA LruPutWithRoom ==
    ASSUME NEW c, NEW cap \in Nat \ {0}, NEW K, NEW V, NEW k, NEW v, NEW S,
           IsLru(c, cap, K, V), DOMAIN c \subseteq S, k \in S,
           HasRoom(cap, S)
    PROVE  \A j \in DOMAIN c : j \in DOMAIN LruPut(c, cap, k, v)
<1> DEFINE new(j) == LruRankAfterUse(c, k, j)
<1>1. \A j \in DOMAIN c : c[j].rank \in 1 .. cap
  BY DEF IsLru
<1>2. ASSUME NEW j \in DOMAIN c \cup {k}, ~(new(j) <= cap)
      PROVE  FALSE
  <2>1. j # k /\ j \in DOMAIN c
    BY <1>2 DEF LruRankAfterUse
  <2>2. k \in DOMAIN c => c[k].rank \in 1 .. cap
    BY <1>1
  <2>3. new(j) = c[j].rank \/ new(j) = c[j].rank + 1
    BY <2>1 DEF LruRankAfterUse
  <2>4. c[j].rank = cap
    BY <1>1, <1>2, <2>1, <2>3
  <2>5. k \notin DOMAIN c
    <3> SUFFICES ASSUME k \in DOMAIN c PROVE FALSE
      OBVIOUS
    <3>1. c[k].rank # c[j].rank
      BY <2>1 DEF IsLru
    <3>2. c[j].rank > c[k].rank
      BY <2>2, <2>4, <3>1
    <3>3. new(j) = c[j].rank
      BY <2>1, <3>2 DEF LruRankAfterUse
    <3> QED
      BY <1>2, <2>4, <3>3
  <2>6. \A r \in 1 .. cap : \E i \in DOMAIN c : c[i].rank = r
    BY <2>1, <2>4 DEF IsLru
  <2> DEFINE f == [r \in 1 .. cap + 1 |->
                     IF r = cap + 1 THEN k
                     ELSE CHOOSE i \in DOMAIN c : c[i].rank = r]
  <2>7. \A r \in 1 .. cap + 1 :
           IF r = cap + 1 THEN f[r] = k
           ELSE f[r] \in DOMAIN c /\ c[f[r]].rank = r
    BY <2>6
  <2>8. f \in [1 .. cap + 1 -> S]
    BY <2>7
  <2>9. IsFiniteSet(1 .. cap + 1) /\ Cardinality(1 .. cap + 1) = cap + 1
    <3>1. 1 \in Int /\ cap + 1 \in Int /\ ~(1 > cap + 1)
      OBVIOUS
    <3>2. cap + 1 - 1 + 1 = cap + 1
      OBVIOUS
    <3> QED
      BY <3>1, <3>2, FS_Interval
  <2>10. Cardinality(S) < Cardinality(1 .. cap + 1)
    <3>1. Cardinality(S) \in Nat /\ Cardinality(S) <= cap
      BY FS_CardinalityType DEF HasRoom
    <3> QED
      BY <2>9, <3>1
  <2> HIDE DEF f
  <2>11. PICK x, y \in 1 .. cap + 1 : x # y /\ f[x] = f[y]
    BY <2>8, <2>9, <2>10, FS_PigeonHole DEF HasRoom
  <2> QED
    BY <2>5, <2>7, <2>11
<1> QED
  BY <1>2 DEF LruPut

\* The fork choices a controller may send.
ControllerFcus == {r.fcu : r \in ControllerRequests}

\* There is room for all of them in fcu_cache.
RoomForAll == HasRoom(fcu_cache_size, ControllerFcus)

\* The engine has not given one fork choice two definite statuses.
EngineConsistent ==
    \A x, y \in el_said :
        x[1] = y[1] /\ IsDefinite(x[2]) /\ IsDefinite(y[2]) => x[2] = y[2]

\* A VALID that a controller was told, or is about to be told, is cached.
VerdictHeld(cache, s) ==
    \/ /\ s.pc \in {"put_justified", "put_finalized", "attributes"}
       /\ s.found = "VALID"
    \/ s.pc = "idle" /\ s.reply = "VALID"
    => s.fcu \in DOMAIN cache /\ cache[s.fcu].val = "VALID"

\* Only the controller's fork choices get to the engine and into the cache.
ControllerOnly ==
    /\ DOMAIN fcu_cache \subseteq ControllerFcus
    /\ \A t \in Task :
          IF t \in ControllerTask
          THEN task[t].pc # "idle" => task[t].fcu \in ControllerFcus
          ELSE task[t].pc \notin {"el_call", "el_done"}

HeldInv ==
    /\ ControllerOnly
    /\ \A t \in ControllerTask : VerdictHeld(fcu_cache, task[t])

\* With room for all, no step drops a fork choice or changes its VALID.
LEMMA CacheGrows ==
    ASSUME TypeOK, RoomForAll, ControllerOnly, [Next]_vars
    PROVE  /\ DOMAIN fcu_cache \subseteq DOMAIN fcu_cache'
           /\ DOMAIN fcu_cache' \subseteq ControllerFcus
           /\ \A f \in DOMAIN fcu_cache :
                 fcu_cache[f].val = "VALID" => fcu_cache'[f].val = "VALID"
<1> USE ForkchoiceUpdatedAssumption
<1>1. CASE fcu_cache' = fcu_cache
  BY <1>1 DEF ControllerOnly
<1>2. ASSUME NEW g \in DOMAIN fcu_cache, fcu_cache' = LruTouch(fcu_cache, g)
      PROVE  /\ DOMAIN fcu_cache' = DOMAIN fcu_cache
             /\ \A f \in DOMAIN fcu_cache :
                   fcu_cache'[f].val = fcu_cache[f].val
  BY <1>2, TouchKeepsStatuses
<1>3. ASSUME fcu_cache' # fcu_cache
      PROVE  /\ DOMAIN fcu_cache \subseteq DOMAIN fcu_cache'
             /\ DOMAIN fcu_cache' \subseteq ControllerFcus
             /\ \A f \in DOMAIN fcu_cache :
                   fcu_cache[f].val = "VALID" => fcu_cache'[f].val = "VALID"
  <2>1. PICK t \in Task : LookupFinds(t) \/ UpdateFcuCache(t)
    BY <1>3, FcuCacheChanges
  <2>2. task[t].fcu \in Fcu
    BY DEF TypeOK, TaskState, TaskRecord
  <2>3. CASE LookupFinds(t)
    <3>1. MatchedFcu(task[t].fcu) \in DOMAIN fcu_cache
      BY <2>2, <2>3, MatchedFcuIsCached DEF LookupFinds
    <3> QED
      BY <1>2, <1>3, <2>3, <3>1 DEF LookupFinds, ControllerOnly
  <2>4. CASE UpdateFcuCache(t) /\ RedundantUpdate(task[t].fcu)
    BY <1>2, <2>4
    DEF UpdateFcuCache, RedundantUpdate, LruContains, ControllerOnly
  <2>5. CASE UpdateFcuCache(t) /\ ~RedundantUpdate(task[t].fcu)
    <3> DEFINE fcu == task[t].fcu
               c == LruPut(fcu_cache, fcu_cache_size, fcu, task[t].found)
    <3>1. task[t].found \in Status
      BY <2>5 DEF UpdateFcuCache, TypeOK, TaskState, HasStatus
    <3>2. fcu_cache' = c
      BY <2>5 DEF UpdateFcuCache
    <3>3. task[t].pc = "el_done"
      BY <2>5 DEF UpdateFcuCache
    <3>4. fcu \in ControllerFcus
      BY <3>3 DEF ControllerOnly
    <3>5. /\ IsLru(fcu_cache, fcu_cache_size, Fcu, Status)
          /\ fcu_cache_size \in Nat \ {0}
          /\ HasRoom(fcu_cache_size, ControllerFcus)
          /\ DOMAIN fcu_cache \subseteq ControllerFcus
      BY DEF TypeOK, RoomForAll, ControllerOnly
    <3>6. \A f \in DOMAIN fcu_cache : f \in DOMAIN c
      BY <3>4, <3>5, LruPutWithRoom
    <3>7. /\ DOMAIN c \subseteq DOMAIN fcu_cache \cup {fcu}
          /\ \A f \in DOMAIN c \ {fcu} : c[f].val = fcu_cache[f].val
      BY <2>2, <3>1, PutKeepsOtherStatuses
    <3>8. fcu \in DOMAIN fcu_cache => fcu_cache[fcu].val # "VALID"
      BY <2>5 DEF RedundantUpdate, LruContains, IsDefinite
    <3> HIDE DEF c, fcu
    <3> QED
      BY <3>2, <3>4, <3>6, <3>7, <3>8 DEF ControllerOnly
  <2> QED
    BY <2>1, <2>3, <2>4, <2>5
<1> QED
  BY <1>1, <1>3

\* After an update with a VALID the cache holds it: an entry that makes the
\* update redundant is the engine's own and definite.
LEMMA UpdateHolds ==
    ASSUME TypeOK, VerdictInv, EngineConsistent, NEW t \in Task,
           UpdateFcuCache(t), task[t].found = "VALID"
    PROVE  /\ task[t].fcu \in DOMAIN fcu_cache'
           /\ fcu_cache'[task[t].fcu].val = "VALID"
<1> DEFINE fcu == task[t].fcu
<1>1. fcu \in Fcu /\ "VALID" \in Status
  BY DEF TypeOK, TaskState, TaskRecord, Status
<1>2. CASE RedundantUpdate(fcu)
  <2>1. fcu \in DOMAIN fcu_cache /\ IsDefinite(fcu_cache[fcu].val)
    BY <1>2 DEF RedundantUpdate, LruContains
  <2>2. <<fcu, fcu_cache[fcu].val>> \in el_said
    BY <2>1 DEF VerdictInv, CacheBacked
  <2>3. <<fcu, "VALID">> \in el_said
    BY DEF VerdictInv, TaskBacked, UpdateFcuCache
  <2>4. fcu_cache[fcu].val = "VALID"
    BY <2>1, <2>2, <2>3 DEF EngineConsistent, IsDefinite
  <2>5. fcu_cache' = LruTouch(fcu_cache, fcu)
    BY <1>2 DEF UpdateFcuCache
  <2> HIDE DEF fcu
  <2>6. /\ DOMAIN fcu_cache' = DOMAIN fcu_cache
        /\ fcu_cache'[fcu].val = fcu_cache[fcu].val
    BY <2>1, <2>5, TouchKeepsStatuses
  <2> QED
    BY <2>1, <2>4, <2>6 DEF fcu
<1>3. CASE ~RedundantUpdate(fcu)
  <2> DEFINE c == LruPut(fcu_cache, fcu_cache_size, fcu, "VALID")
  <2>1. fcu_cache' = c
    BY <1>3 DEF UpdateFcuCache
  <2>2. c[fcu].val = "VALID"
    BY <1>1, PutKeepsOtherStatuses
  <2>3. IsLru(fcu_cache, fcu_cache_size, Fcu, Status)
        /\ fcu_cache_size \in Nat \ {0}
    BY ForkchoiceUpdatedAssumption DEF TypeOK
  <2> HIDE DEF fcu
  <2>4. fcu \in DOMAIN c
    BY <1>1, <2>3, LruPutIsLru
  <2> HIDE DEF c
  <2> QED
    BY <2>1, <2>2, <2>4 DEF fcu
<1> QED
  BY <1>2, <1>3

\* Every step preserves HeldInv.
LEMMA HeldInvStep ==
    ASSUME fcu_matching = "exact", RoomForAll
    PROVE  TypeOK /\ VerdictInv /\ EngineConsistent /\ HeldInv /\ [Next]_vars
              => HeldInv'
<1> SUFFICES ASSUME TypeOK, VerdictInv, EngineConsistent, HeldInv, [Next]_vars
             PROVE  HeldInv'
  OBVIOUS
<1>0. /\ task \in [Task -> TaskState] /\ ControllerOnly
      /\ ControllerTask \cap ClientTask = {}
      /\ Task = ControllerTask \cup ClientTask
  BY ForkchoiceUpdatedAssumption DEF TypeOK, HeldInv, Task
<1>1. /\ DOMAIN fcu_cache \subseteq DOMAIN fcu_cache'
      /\ DOMAIN fcu_cache' \subseteq ControllerFcus
      /\ \A f \in DOMAIN fcu_cache :
            fcu_cache[f].val = "VALID" => fcu_cache'[f].val = "VALID"
  BY <1>0, CacheGrows
<1>2. \A s : VerdictHeld(fcu_cache, s) => VerdictHeld(fcu_cache', s)
  BY <1>1 DEF VerdictHeld
<1>3. CASE UNCHANGED task
  BY <1>0, <1>1, <1>2, <1>3 DEF HeldInv, ControllerOnly
<1>4. ASSUME NEW t \in Task, NEW s, task' = [task EXCEPT ![t] = s],
             t \in ControllerTask =>
                /\ s.pc # "idle" => s.fcu \in ControllerFcus
                /\ VerdictHeld(fcu_cache', s),
             t \notin ControllerTask => s.pc \notin {"el_call", "el_done"}
      PROVE  HeldInv'
  <2>1. \A u \in Task : task'[u] = IF u = t THEN s ELSE task[u]
    BY <1>0, <1>4
  <2>2. ControllerOnly'
    BY <1>0, <1>1, <1>4, <2>1 DEF ControllerOnly
  <2>3. \A u \in ControllerTask : VerdictHeld(fcu_cache', task'[u])
    BY <1>0, <1>2, <1>4, <2>1 DEF HeldInv
  <2> QED
    BY <2>2, <2>3 DEF HeldInv
<1>5. ASSUME NEW t \in ControllerTask, NEW r \in ControllerRequests,
             ControllerReceives(t, r)
      PROVE  HeldInv'
  <2>1. t \in Task /\ r \in Request /\ r.fcu \in ControllerFcus
    BY <1>0, ForkchoiceUpdatedAssumption DEF ControllerFcus
  <2>2. PICK s : /\ task' = [task EXCEPT ![t] = s]
                 /\ s.fcu = r.fcu
                 /\ \/ s.pc = "lookup" /\ s.reply = "none"
                    \/ s.pc = "idle" /\ s.reply = "ParseError"
    BY <1>5, <2>1, ReceiveMoves DEF ControllerReceives
  <2>3. VerdictHeld(fcu_cache', s)
    BY <2>2 DEF VerdictHeld
  <2> QED
    BY <1>4, <2>1, <2>2, <2>3
<1>6. ASSUME NEW t \in ClientTask, NEW r \in ClientRequests,
             ClientReceives(t, r)
      PROVE  HeldInv'
  <2>1. t \in Task /\ r \in Request
    BY <1>0, ForkchoiceUpdatedAssumption
  <2>2. PICK s : task' = [task EXCEPT ![t] = s] /\ s.pc \in {"wait", "idle"}
    BY <1>6, <2>1, ReceiveMoves DEF ClientReceives
  <2> QED
    BY <1>0, <1>4, <2>1, <2>2
<1>7. ASSUME NEW t \in Task,
             TaskStep(t) \/ EngineCallEnds(t) \/ Disconnect(t)
      PROVE  HeldInv'
  <2>1. /\ task[t].pc # "idle"
        /\ \E s : task' = [task EXCEPT ![t] = s] /\ Moved(t, s)
    BY <1>7, HandlerMoves
  <2>2. PICK s : task' = [task EXCEPT ![t] = s] /\ Moved(t, s)
    BY <2>1
  <2>3. s.fcu = task[t].fcu
    BY <2>2 DEF Moved
  <2>4. ASSUME t \notin ControllerTask
        PROVE  s.pc \notin {"el_call", "el_done"}
    BY <1>0, <2>2, <2>4 DEF Moved, ControllerOnly, Gets
  <2>5. ASSUME t \in ControllerTask
        PROVE  VerdictHeld(fcu_cache', s)
    <3>0. /\ VerdictHeld(fcu_cache', task[t])
          /\ TaskBacked(el_said, task[t]) /\ task[t].fcu \in Fcu
          /\ t \notin ClientTask
      BY <1>0, <1>2, <2>5
      DEF HeldInv, VerdictInv, TaskState, TaskRecord
    <3>1. ASSUME NEW status \in Status, LookupHits(t, status),
                 Gets(s, status)
          PROVE  VerdictHeld(fcu_cache', s)
      <4>1. task[t].pc # "check_finalized"
        BY <3>0 DEF TaskBacked
      <4>2. /\ LookupFinds(t)
            /\ status = fcu_cache[MatchedFcu(task[t].fcu)].val
        BY <3>1, <4>1 DEF LookupHits, CheckFinalized
      <4>3. MatchingFcus(task[t].fcu) # {}
        BY <4>2 DEF LookupFinds
      <4>4. MatchedFcu(task[t].fcu) = task[t].fcu
            /\ task[t].fcu \in DOMAIN fcu_cache
        BY <3>0, <4>3, MatchedFcuIsCached DEF MatchingFcus
      <4> QED
        BY <1>1, <2>3, <3>1, <4>2, <4>4 DEF VerdictHeld, Gets
    <3>2. ASSUME UpdateFcuCache(t)
          PROVE  task[t].found = "VALID" =>
                    /\ task[t].fcu \in DOMAIN fcu_cache'
                    /\ fcu_cache'[task[t].fcu].val = "VALID"
      BY <3>2, UpdateHolds
    <3>3. ASSUME UpdateFcuCache(t) \/ PutFinalized(t), Gets(s, task[t].found)
          PROVE  VerdictHeld(fcu_cache', s)
      <4>1. CASE UpdateFcuCache(t)
        BY <2>3, <3>2, <3>3, <4>1 DEF VerdictHeld, Gets
      <4>2. CASE PutFinalized(t)
        <5>1. task[t].pc = "put_finalized"
          BY <4>2 DEF PutFinalized
        <5> QED
          BY <2>3, <3>0, <3>3, <5>1 DEF VerdictHeld, Gets
      <4> QED
        BY <3>3, <4>1, <4>2
    <3>4. ASSUME UpdateFcuCache(t) \/ PutJustified(t),
                 s.pc \in {"put_justified", "put_finalized"},
                 s.found = task[t].found
          PROVE  VerdictHeld(fcu_cache', s)
      <4>1. CASE UpdateFcuCache(t)
        BY <2>3, <3>2, <3>4, <4>1 DEF VerdictHeld
      <4>2. CASE PutJustified(t)
        <5>1. task[t].pc = "put_justified"
          BY <4>2 DEF PutJustified
        <5> QED
          BY <2>3, <3>0, <3>4, <5>1 DEF VerdictHeld
      <4> QED
        BY <3>4, <4>1, <4>2
    <3>5. ASSUME task[t].pc = "attributes", s.pc = "idle",
                 s.reply = task[t].found
          PROVE  VerdictHeld(fcu_cache', s)
      BY <2>3, <3>0, <3>5 DEF VerdictHeld
    <3>6. ASSUME s.pc = "idle", s.reply \notin Status
          PROVE  VerdictHeld(fcu_cache', s)
      BY <3>6 DEF VerdictHeld, Status
    <3>7. ASSUME s.pc \in {"lookup", "wait", "check_justified",
                           "check_finalized", "el_call", "el_done"}
          PROVE  VerdictHeld(fcu_cache', s)
      BY <3>7 DEF VerdictHeld
    <3> QED
      BY <2>2, <3>0, <3>1, <3>3, <3>4, <3>5, <3>6, <3>7 DEF Moved
  <2>6. t \in ControllerTask => s.fcu \in ControllerFcus
    BY <1>0, <2>1, <2>3 DEF ControllerOnly
  <2> QED
    BY <1>4, <2>2, <2>4, <2>5, <2>6
<1>8. ASSUME NEW fcu, NEW status, EngineProcessesOrphan(fcu, status)
      PROVE  HeldInv'
  BY <1>3, <1>8 DEF EngineProcessesOrphan
<1>9. CASE UNCHANGED vars
  BY <1>3, <1>9 DEF vars
<1> QED
  BY <1>5, <1>6, <1>7, <1>8, <1>9 DEF Next

\* ControllerVerdictIsServed for every instance with exact matching in which
\* all the controller's fork choices fit into fcu_cache, as long as the engine
\* does not go back on a verdict: however many requests of however many
\* controllers race, the VALID one of them was told stays cached.
THEOREM ExactVerdictServed ==
    ASSUME fcu_matching = "exact", RoomForAll
    PROVE  Spec /\ []EngineConsistent => []ControllerVerdictIsServed
<1>1. Init => HeldInv
  BY DEF Init, HeldInv, ControllerOnly, VerdictHeld, LruEmpty, Task
<1>2. TypeOK /\ HeldInv => ControllerVerdictIsServed
  <2> SUFFICES ASSUME TypeOK, HeldInv, NEW t \in ControllerTask,
                      task[t].pc = "idle", task[t].reply = "VALID"
               PROVE  CachedVerdict(task[t].fcu) = "VALID"
    BY DEF ControllerVerdictIsServed
  <2> DEFINE fcu == task[t].fcu
  <2>1. fcu \in DOMAIN fcu_cache /\ fcu_cache[fcu].val = "VALID"
    BY DEF HeldInv, VerdictHeld
  <2>2. fcu \in Fcu /\ MatchingFcus(fcu) = {fcu}
    BY <2>1 DEF MatchingFcus, TypeOK, TaskState, TaskRecord, Task
  <2> HIDE DEF fcu
  <2>3. MatchedFcu(fcu) = fcu
    BY <2>2, MatchedFcuIsCached
  <2>4. CachedVerdict(fcu) = "VALID"
    BY <2>1, <2>2, <2>3 DEF CachedVerdict, IsDefinite
  <2> QED
    BY <2>4 DEF fcu
<1>3. TypeOK /\ VerdictInv /\ EngineConsistent /\ HeldInv /\ [Next]_vars
         => HeldInv'
  BY HeldInvStep
<1> QED
  BY <1>1, <1>2, <1>3, TypeCorrect, VerdictInvInit, VerdictInvStep, PTL
  DEF Spec
=============================================================================
