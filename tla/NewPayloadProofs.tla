-------------------------- MODULE NewPayloadProofs --------------------------
(***************************************************************************)
(* Theorems about NewPayload, for any number of tasks, requests and        *)
(* blocks, every cache size, cutoff and number of polls.                   *)
(***************************************************************************)
EXTENDS NewPayload, LruCacheProofs

-----------------------------------------------------------------------------
(* The states of a task.                                                   *)

LEMMA NoRequestType == NoRequest \in Request
BY NewPayloadAssumption DEF NoRequest, Request, Payload

LEMMA RepliedType ==
    ASSUME NEW s \in TaskState, NEW a \in Reply
    PROVE  /\ Replied(s, a) \in TaskState
           /\ Replied(s, a).pc = "idle"
           /\ Replied(s, a).request = s.request
           /\ Replied(s, a).is_recent = s.is_recent
           /\ Replied(s, a).reply = a
<1>1. 0 \in 0 .. MaxPolls
  BY NewPayloadAssumption
<1> QED
  BY <1>1 DEF TaskState, Replied, Pc

LEMMA StartedType ==
    ASSUME NEW r \in Request, NEW pc \in Pc
    PROVE  /\ Started(r, pc) \in TaskState
           /\ Started(r, pc).pc = pc
           /\ Started(r, pc).request = r
           /\ Started(r, pc).reply = "none"
<1>1. 0 \in 0 .. MaxPolls
  BY NewPayloadAssumption
<1> QED
  BY <1>1 DEF TaskState, Started, Reply

\* The state of a task whose request was turned away.
LEMMA RefusedType ==
    ASSUME NEW r \in Request, NEW a \in Reply
    PROVE  LET s == Replied(Started(r, "idle"), a) IN
           s \in TaskState /\ s.request = r /\ s.pc = "idle" /\ s.reply = a
<1>1. "idle" \in Pc
  BY DEF Pc
<1>2. Started(r, "idle") \in TaskState /\ Started(r, "idle").request = r
  BY <1>1, StartedType
<1> QED
  BY <1>2, RepliedType

\* A request that does not decode is a parse error: whatever structure is
\* picked, the panic of new_payload_request_from_parts is out of reach.
LEMMA DecodeOutcome ==
    ASSUME NEW r \in Request
    PROVE  Decode(r).outcome \in {"ok", "ParseError"}
<1> DEFINE slot == timestamp_to_slot(r.payload.timestamp)
           fork == fork_name_at_slot(slot)
           version == DecodedVersion(r.method, fork)
<1>1. r.method \in 1 .. 4 /\ PayloadVersionOf(fork) \in 1 .. 4
  BY DEF Request, PayloadVersionOf
<1>2. version = 4 => r.method = 4
  BY <1>1 DEF DecodedVersion
<1> HIDE DEF version
<1>3. \/ Decode(r).outcome \in {"ok", "ParseError"}
      \/ version = 4 /\ r.method # 4
  BY DEF Decode, version
<1> QED
  BY <1>2, <1>3

\* A proper request decodes as the payload it carries.
LEMMA ProperRequestDecodes ==
    ASSUME NEW r \in Request, ProperRequest(r)
    PROVE  Decode(r) = [outcome |-> "ok", version |-> r.payload.version]
<1> DEFINE slot == timestamp_to_slot(r.payload.timestamp)
           fork == fork_name_at_slot(slot)
           version == DecodedVersion(r.method, fork)
<1>1. /\ r.wellformed /\ r.arity = ParametersOf(r.method) /\ slot # NoSlot
      /\ r.method = r.payload.version
      /\ r.payload.version = PayloadVersionOf(fork)
  BY DEF ProperRequest
<1>2. r.payload.version \in 1 .. 4
  BY DEF Request, Payload
<1>3. version = r.payload.version
  BY <1>1, <1>2 DEF DecodedVersion
<1>4. FieldsSuffice(r.payload, version)
  BY <1>2, <1>3 DEF FieldsSuffice
<1>5. ~(version = 4 /\ r.method # 4)
  BY <1>1, <1>3
<1> HIDE DEF version
<1>6. Decode(r) = [outcome |-> "ok", version |-> version]
  BY <1>1, <1>4, <1>5 DEF Decode, version
<1> QED
  BY <1>3, <1>6

-----------------------------------------------------------------------------
(* Type correctness.                                                       *)

LEMMA TypeOKInit == Init => TypeOK
<1> SUFFICES ASSUME Init PROVE TypeOK
  OBVIOUS
<1>1. task \in [Task -> TaskState]
  BY NoRequestType, NewPayloadAssumption DEF Init, TaskState, Pc, Reply
<1> QED
  BY <1>1, LruEmptyIsLru DEF Init, TypeOK

\* GetEntry keeps the cache a cache and every value in it.
LEMMA GetEntryKeepsEntries ==
    ASSUME TypeOK, NEW t \in Task, GetEntry(t)
    PROVE  /\ IsLru(new_payload_cache, new_payload_cache_size, Block,
                    CacheEntry)'
           /\ DOMAIN new_payload_cache' = DOMAIN new_payload_cache
           /\ \A h \in DOMAIN new_payload_cache :
                 new_payload_cache'[h].val = new_payload_cache[h].val
<1> DEFINE hash == task[t].request.payload.hash
           d == LruTouch(new_payload_cache, hash)
<1>1. /\ new_payload_cache_size \in Nat
      /\ IsLru(new_payload_cache, new_payload_cache_size, Block, CacheEntry)
  BY NewPayloadAssumption DEF TypeOK
<1>2. CASE hash \in DOMAIN new_payload_cache
  <2>1. /\ IsLru(d, new_payload_cache_size, Block, CacheEntry)
        /\ DOMAIN d = DOMAIN new_payload_cache
        /\ \A h \in DOMAIN new_payload_cache :
              d[h].val = new_payload_cache[h].val
    BY <1>1, <1>2, LruTouchIsLru
  <2>2. new_payload_cache' = d
    BY <1>2 DEF GetEntry, LruGet
  <2> HIDE DEF d
  <2> QED
    BY <2>1, <2>2
<1>3. CASE hash \notin DOMAIN new_payload_cache
  BY <1>1, <1>3 DEF GetEntry, LruGet
<1> QED
  BY <1>2, <1>3

\* PutNewPayload stores its entry and only drops others.
LEMMA PutKeepsEntries ==
    ASSUME TypeOK, NEW t \in Task, PutNewPayload(t), task[t].found \in Status
    PROVE  /\ IsLru(new_payload_cache, new_payload_cache_size, Block,
                    CacheEntry)'
           /\ DOMAIN new_payload_cache' \subseteq
                 DOMAIN new_payload_cache \cup {task[t].request.payload.hash}
           /\ task[t].request.payload.hash \in DOMAIN new_payload_cache'
           /\ new_payload_cache'[task[t].request.payload.hash].val =
                 [status |-> task[t].found,
                  block_number |-> task[t].request.payload.number]
           /\ \A h \in DOMAIN new_payload_cache'
                        \ {task[t].request.payload.hash} :
                 new_payload_cache'[h].val = new_payload_cache[h].val
<1> DEFINE hash == task[t].request.payload.hash
           entry == [status |-> task[t].found,
                     block_number |-> task[t].request.payload.number]
           d == LruPut(new_payload_cache, new_payload_cache_size, hash, entry)
<1>1. new_payload_cache_size \in Nat \ {0}
  BY NewPayloadAssumption
<1>2. IsLru(new_payload_cache, new_payload_cache_size, Block, CacheEntry)
  BY DEF TypeOK
<1>3. hash \in Block /\ task[t].request.payload.number \in Nat
  BY DEF TypeOK, TaskState, Request, Payload
<1>4. entry \in CacheEntry
  BY <1>3 DEF CacheEntry
<1> HIDE DEF entry, hash
<1>5. IsLru(d, new_payload_cache_size, Block, CacheEntry)
  BY <1>1, <1>2, <1>3, <1>4, LruPutIsLru
<1>6. DOMAIN d \subseteq DOMAIN new_payload_cache \cup {hash}
  BY <1>1, <1>2, <1>3, <1>4, LruPutIsLru
<1>7. hash \in DOMAIN d
  BY <1>1, <1>2, <1>3, <1>4, LruPutIsLru
<1>8. d[hash].val = entry
  BY <1>7 DEF LruPut
<1>9. \A h \in DOMAIN d \ {hash} : d[h].val = new_payload_cache[h].val
  BY <1>1, <1>2, <1>3, <1>4, LruPutIsLru
<1>10. new_payload_cache' = d
  BY DEF PutNewPayload, hash, entry
<1> HIDE DEF d
<1> QED
  BY <1>5, <1>6, <1>7, <1>8, <1>9, <1>10 DEF hash, entry

\* The state AfterMiss leaves a task in.
LEMMA AfterMissType ==
    ASSUME TypeOK, NEW t \in Task
    PROVE  AfterMiss(t) \in TaskState
<1>1. task[t] \in TaskState
  BY DEF TypeOK
<1>2. /\ Replied(task[t], "SYNCING") \in TaskState
      /\ Replied(task[t], "InvalidRequest") \in TaskState
  BY <1>1, RepliedType DEF Reply, Status, ErrorCode
<1>3. /\ [task[t] EXCEPT !.pc = "el_call"] \in TaskState
      /\ [task[t] EXCEPT !.pc = "wait"] \in TaskState
  BY <1>1 DEF TaskState, Pc
<1> QED
  BY <1>2, <1>3 DEF AfterMiss

\* Where a request leaves a controller's task.
LEMMA ControllerReceiveMoves ==
    ASSUME NEW t \in Task, NEW r \in Request, ControllerReceives(t, r)
    PROVE  \E s \in TaskState :
              /\ task' = [task EXCEPT ![t] = s]
              /\ s.request = r
              /\ \/ s.pc = "lookup" /\ s.reply = "none"
                 \/ s.pc = "idle" /\ s.reply = "ParseError"
<1>1. {"idle", "lookup"} \subseteq Pc /\ "ParseError" \in Reply
  BY DEF Pc, Reply, ErrorCode
<1>2. CASE Decode(r).outcome = "ok"
  <2>1. task' = [task EXCEPT ![t] = Started(r, "lookup")]
    BY <1>2 DEF ControllerReceives
  <2>2. /\ Started(r, "lookup") \in TaskState
        /\ Started(r, "lookup").pc = "lookup"
        /\ Started(r, "lookup").request = r
        /\ Started(r, "lookup").reply = "none"
    BY <1>1, StartedType
  <2> QED
    BY <2>1, <2>2
<1>3. CASE Decode(r).outcome = "ParseError"
  <2> DEFINE s == Replied(Started(r, "idle"), "ParseError")
  <2>1. task' = [task EXCEPT ![t] = s]
    BY <1>3 DEF ControllerReceives
  <2>2. /\ s \in TaskState /\ s.request = r
        /\ s.pc = "idle" /\ s.reply = "ParseError"
    BY <1>1, RefusedType
  <2> HIDE DEF s
  <2> QED
    BY <2>1, <2>2
<1> QED
  BY <1>2, <1>3, DecodeOutcome

\* Where a request leaves a client's task: one that is turned away was no
\* proper request, the others have an honest payload.
LEMMA ClientReceiveMoves ==
    ASSUME NEW t \in Task, NEW r \in Request, ClientReceives(t, r)
    PROVE  \E s \in TaskState :
              /\ task' = [task EXCEPT ![t] = s]
              /\ s.request = r
              /\ \/ s.pc = "recent" /\ s.reply = "none" /\ r.payload.honest
                 \/ /\ s.pc = "idle" /\ ~ProperRequest(r)
                    /\ s.reply \in {"ParseError", "InvalidRequest"}
<1> DEFINE verified == verify_payload_block_hash(r.payload, Decode(r).version)
<1>1. /\ {"idle", "recent"} \subseteq Pc
      /\ {"ParseError", "InvalidRequest"} \subseteq Reply
  BY DEF Pc, Reply, ErrorCode
<1>2. ProperRequest(r) => Decode(r).outcome = "ok" /\ verified
  BY ProperRequestDecodes DEF ProperRequest, verify_payload_block_hash
<1>3. ASSUME NEW a \in {"ParseError", "InvalidRequest"}, ~ProperRequest(r),
             task' = [task EXCEPT ![t] = Replied(Started(r, "idle"), a)]
      PROVE  \E s \in TaskState :
                /\ task' = [task EXCEPT ![t] = s]
                /\ s.request = r /\ s.pc = "idle" /\ s.reply = a
  <2> DEFINE s == Replied(Started(r, "idle"), a)
  <2>1. s \in TaskState /\ s.request = r /\ s.pc = "idle" /\ s.reply = a
    BY <1>1, RefusedType
  <2>2. task' = [task EXCEPT ![t] = s]
    BY <1>3
  <2> HIDE DEF s
  <2> QED
    BY <2>1, <2>2
<1>4. CASE Decode(r).outcome = "ParseError"
  <2>1. task' = [task EXCEPT ![t] = Replied(Started(r, "idle"), "ParseError")]
    BY <1>4 DEF ClientReceives
  <2> QED
    BY <1>2, <1>3, <1>4, <2>1
<1>5. CASE Decode(r).outcome = "ok" /\ verified
  <2>1. task' = [task EXCEPT ![t] = Started(r, "recent")]
    BY <1>5 DEF ClientReceives
  <2>2. r.payload.honest
    BY <1>5 DEF verify_payload_block_hash
  <2> QED
    BY <1>1, <2>1, <2>2, StartedType
<1>6. CASE Decode(r).outcome = "ok" /\ ~verified
  <2>1. task' = [task EXCEPT ![t] =
                    Replied(Started(r, "idle"), "InvalidRequest")]
    BY <1>6 DEF ClientReceives
  <2> QED
    BY <1>2, <1>3, <1>6, <2>1
<1> QED
  BY <1>4, <1>5, <1>6, DecodeOutcome

\* What every other step of a task makes of it.
Moved(t, s) ==
    /\ s.request = task[t].request
    /\ s.pc # "idle" => s.reply = task[t].reply
    /\ \/ /\ CheckRecent(t)
          /\ s.is_recent = is_recent_payload(task[t].request.payload.number)
          /\ s.definite_only = s.is_recent
          /\ s.pc = IF s.is_recent THEN "wait" ELSE "lookup"
       \/ /\ Poll(t) \/ TimeUp(t)
          /\ s.pc = "lookup" /\ s.is_recent = task[t].is_recent
       \/ /\ LookupMisses(t) /\ t \in ControllerTask
          /\ s.pc = "el_call"
       \/ /\ LookupMisses(t) /\ t \notin ControllerTask
          /\ task[t].definite_only
          /\ s.pc = "wait" /\ s.is_recent = task[t].is_recent
       \/ /\ LookupMisses(t) /\ t \notin ControllerTask
          /\ s.pc = "idle" /\ s.is_recent = task[t].is_recent
          /\ s.reply = IF task[t].request.hashes_ok THEN "SYNCING"
                       ELSE "InvalidRequest"
       \/ /\ LookupAnswers(t)
          /\ s.pc = "idle" /\ s.is_recent = task[t].is_recent
          /\ s.reply = CachedStatus(t) /\ CachedStatus(t) \in Status
       \/ /\ PutNewPayload(t)
          /\ s.pc = "register" /\ s.found = task[t].found
       \/ /\ RegisterCanonicalPayload(t)
          /\ s.pc = "idle" /\ s.reply = task[t].found
       \/ /\ EngineCallFails(t)
          /\ s.pc = "idle" /\ s.reply = "InvalidRequest"
       \/ /\ Disconnect(t)
          /\ s.pc = "idle" /\ s.reply = "dropped"
       \/ /\ \E status \in EngineStatus :
                EngineAnswers(t, status) /\ s.found = status
          /\ s.pc = "el_done"

LEMMA HandlerMoves ==
    ASSUME TypeOK, NEW t \in Task,
           TaskStep(t) \/ EngineCallEnds(t) \/ Disconnect(t)
    PROVE  \E s \in TaskState : task' = [task EXCEPT ![t] = s] /\ Moved(t, s)
<1> USE NewPayloadAssumption
<1>0. task[t] \in TaskState /\ task \in [Task -> TaskState]
  BY DEF TypeOK
<1>1. CASE CheckRecent(t)
  <2> DEFINE recent == is_recent_payload(task[t].request.payload.number)
             pc == IF recent THEN "wait" ELSE "lookup"
             left == IF recent THEN MaxPolls ELSE 0
             s == [task[t] EXCEPT !.is_recent = recent, !.pc = pc,
                                  !.polls = left, !.definite_only = recent]
  <2>1. recent \in BOOLEAN
    BY DEF is_recent_payload
  <2>2. pc \in Pc /\ left \in 0 .. MaxPolls
    BY DEF Pc
  <2>3. task' = [task EXCEPT ![t] = s]
    BY <1>0, <1>1 DEF CheckRecent
  <2> HIDE DEF recent, pc, left
  <2>4. s \in TaskState
    BY <1>0, <2>1, <2>2 DEF TaskState
  <2>5. /\ s.request = task[t].request /\ s.is_recent = recent /\ s.pc = pc
        /\ s.definite_only = recent /\ s.reply = task[t].reply
    BY <1>0 DEF TaskState
  <2> QED
    BY <1>1, <2>3, <2>4, <2>5 DEF Moved, recent, pc
<1>2. CASE Poll(t)
  <2> DEFINE left == task[t].polls - 1
             s == [task[t] EXCEPT !.pc = "lookup", !.polls = left]
  <2>1. left \in 0 .. MaxPolls
    BY <1>0, <1>2 DEF Poll, TaskState
  <2>2. task' = [task EXCEPT ![t] = s]
    BY <1>0, <1>2 DEF Poll
  <2> HIDE DEF left
  <2>3. /\ s \in TaskState /\ s.request = task[t].request
        /\ s.pc = "lookup" /\ s.is_recent = task[t].is_recent
        /\ s.reply = task[t].reply
    BY <1>0, <2>1 DEF TaskState, Pc
  <2> QED
    BY <1>2, <2>2, <2>3 DEF Moved
<1>3. CASE TimeUp(t)
  <2> DEFINE s == [task[t] EXCEPT !.pc = "lookup", !.polls = 0,
                                  !.definite_only = FALSE]
  <2>1. 0 \in 0 .. MaxPolls
    OBVIOUS
  <2>2. /\ s \in TaskState /\ s.request = task[t].request
        /\ s.pc = "lookup" /\ s.is_recent = task[t].is_recent
        /\ s.reply = task[t].reply
    BY <1>0, <2>1 DEF TaskState, Pc
  <2>3. task' = [task EXCEPT ![t] = s]
    BY <1>0, <1>3 DEF TimeUp
  <2> QED
    BY <1>3, <2>2, <2>3 DEF Moved
<1>4. CASE LookupMisses(t)
  <2> DEFINE a == IF task[t].request.hashes_ok THEN "SYNCING"
                  ELSE "InvalidRequest"
  <2>0. a \in Reply
    BY DEF Reply, Status, ErrorCode
  <2> HIDE DEF a
  <2>1. task' = [task EXCEPT ![t] = AfterMiss(t)] /\ AfterMiss(t) \in TaskState
    BY <1>4, AfterMissType DEF LookupMisses
  <2>2. CASE t \in ControllerTask
    <3>1. AfterMiss(t) = [task[t] EXCEPT !.pc = "el_call"]
      BY <2>2 DEF AfterMiss
    <3>2. /\ AfterMiss(t).request = task[t].request
          /\ AfterMiss(t).pc = "el_call"
          /\ AfterMiss(t).reply = task[t].reply
      BY <1>0, <3>1 DEF TaskState
    <3> QED
      BY <1>4, <2>1, <2>2, <3>2 DEF Moved
  <2>3. CASE t \notin ControllerTask /\ task[t].definite_only
    <3>1. AfterMiss(t) = [task[t] EXCEPT !.pc = "wait"]
      BY <2>3 DEF AfterMiss
    <3>2. /\ AfterMiss(t).request = task[t].request /\ AfterMiss(t).pc = "wait"
          /\ AfterMiss(t).is_recent = task[t].is_recent
          /\ AfterMiss(t).reply = task[t].reply
      BY <1>0, <3>1 DEF TaskState
    <3> QED
      BY <1>4, <2>1, <2>3, <3>2 DEF Moved
  <2>4. CASE t \notin ControllerTask /\ ~task[t].definite_only
    <3>1. AfterMiss(t) = Replied(task[t], a)
      BY <2>4 DEF AfterMiss, verify_versioned_hashes, a
    <3>2. /\ AfterMiss(t).request = task[t].request /\ AfterMiss(t).pc = "idle"
          /\ AfterMiss(t).is_recent = task[t].is_recent
          /\ AfterMiss(t).reply = a
      BY <1>0, <2>0, <3>1, RepliedType
    <3> QED
      BY <1>4, <2>1, <2>4, <3>2 DEF Moved, a
  <2> QED
    BY <2>2, <2>3, <2>4
<1>5. ASSUME NEW a \in Reply, task' = [task EXCEPT ![t] = Replied(task[t], a)]
      PROVE  \E s \in TaskState :
                /\ task' = [task EXCEPT ![t] = s]
                /\ s.request = task[t].request
                /\ s.pc = "idle" /\ s.reply = a
                /\ s.is_recent = task[t].is_recent
  BY <1>0, <1>5, RepliedType
<1>6. CASE LookupAnswers(t)
  <2>1. CachedStatus(t) \in Status
    BY <1>6 DEF LookupAnswers, LookupHits, Cached, LruContains, CachedStatus,
                TypeOK, IsLru, CacheEntry
  <2>2. CachedStatus(t) \in Reply
    BY <2>1 DEF Reply
  <2>3. task' = [task EXCEPT ![t] = Replied(task[t], CachedStatus(t))]
    BY <1>6 DEF LookupAnswers
  <2>4. PICK s \in TaskState :
            /\ task' = [task EXCEPT ![t] = s]
            /\ s.request = task[t].request
            /\ s.pc = "idle" /\ s.reply = CachedStatus(t)
            /\ s.is_recent = task[t].is_recent
    BY <1>5, <2>2, <2>3
  <2> QED
    BY <1>6, <2>1, <2>4 DEF Moved
<1>7. CASE PutNewPayload(t)
  <2> DEFINE s == [task[t] EXCEPT !.pc = "register"]
  <2>1. /\ s \in TaskState /\ s.request = task[t].request
        /\ s.pc = "register" /\ s.found = task[t].found
        /\ s.reply = task[t].reply
    BY <1>0 DEF TaskState, Pc
  <2>2. task' = [task EXCEPT ![t] = s]
    BY <1>0, <1>7 DEF PutNewPayload
  <2> QED
    BY <1>7, <2>1, <2>2 DEF Moved
<1>8. CASE RegisterCanonicalPayload(t)
  <2>1. task[t].found \in Reply
    BY <1>0 DEF TaskState, Reply
  <2>2. task' = [task EXCEPT ![t] = Replied(task[t], task[t].found)]
    BY <1>8 DEF RegisterCanonicalPayload
  <2> QED
    BY <1>5, <1>8, <2>1, <2>2 DEF Moved
<1>9. CASE EngineCallFails(t)
  <2>1. "InvalidRequest" \in Reply
    BY DEF Reply, ErrorCode
  <2>2. task' = [task EXCEPT ![t] = Replied(task[t], "InvalidRequest")]
    BY <1>9 DEF EngineCallFails
  <2> QED
    BY <1>5, <1>9, <2>1, <2>2 DEF Moved
<1>10. CASE Disconnect(t)
  <2>1. "dropped" \in Reply
    BY DEF Reply
  <2>2. task' = [task EXCEPT ![t] = Replied(task[t], "dropped")]
    BY <1>10 DEF Disconnect
  <2> QED
    BY <1>5, <1>10, <2>1, <2>2 DEF Moved
<1>11. ASSUME NEW status \in EngineStatus, EngineAnswers(t, status)
       PROVE  \E s \in TaskState :
                 task' = [task EXCEPT ![t] = s] /\ Moved(t, s)
  <2> DEFINE s == [task[t] EXCEPT !.pc = "el_done", !.found = status]
  <2>1. /\ s \in TaskState /\ s.request = task[t].request
        /\ s.pc = "el_done" /\ s.found = status
        /\ s.reply = task[t].reply
    BY <1>0 DEF TaskState, Pc
  <2>2. task' = [task EXCEPT ![t] = s]
    BY <1>0, <1>11 DEF EngineAnswers
  <2> QED
    BY <1>11, <2>1, <2>2 DEF Moved
<1> QED
  BY <1>1, <1>2, <1>3, <1>4, <1>6, <1>7, <1>8, <1>9, <1>10, <1>11
  DEF TaskStep, HandlerStep, EngineCallEnds

-----------------------------------------------------------------------------
(***************************************************************************)
(* The invariant behind the safety theorems: where a task may be and with  *)
(* what, and what of the engine's answers stands behind the cache, behind  *)
(* a status at hand and behind a wait that was skipped.                    *)
(***************************************************************************)

\* The controller sends payloads with the right block hash, and a block hash
\* names one payload.
TrustedHashes ==
    /\ \A r \in ControllerRequests : r.payload.honest
    /\ \A r, q \in ControllerRequests \cup ClientRequests :
          /\ r.payload.honest /\ q.payload.honest
          /\ r.payload.hash = q.payload.hash
          => r.payload = q.payload

\* Each side has its own awaits; a client past its first has passed the check
\* of its block hash.
InItsHandler(t, s) ==
    IF t \in ClientTask
    THEN /\ s.pc \in {"idle", "recent", "wait", "lookup"}
         /\ s.pc # "idle" => s.request \in ClientRequests
         /\ s.pc # "idle" => s.request.payload.honest
    ELSE /\ s.pc \in {"idle", "lookup", "el_call", "el_done", "register"}
         /\ s.pc # "idle" => s.request \in ControllerRequests

\* The status a controller task is about to cache or to send.
FoundIsSaid(said, s) ==
    s.pc \in {"el_done", "register"} =>
        /\ s.found \in Status
        /\ <<s.request.payload, s.found>> \in said

\* The engine was given a block more than the cutoff above number.
IsOld(said, number) ==
    \E x \in said : number + new_payload_wait_cutoff < x[1].number

SkippedIsOld(said, t, s) ==
    t \in ClientTask =>
        /\ s.pc = "wait" => s.is_recent
        /\ s.pc = "lookup" /\ s.definite_only => s.is_recent
        /\ \/ s.pc = "lookup"
           \/ s.pc = "idle" /\ s.reply \in Status
           => s.is_recent \/ IsOld(said, s.request.payload.number)

ServedIfProper(t, s) ==
    s.pc = "idle" =>
        /\ s.reply # "panicked"
        /\ t \in ClientTask /\ ProperRequest(s.request) =>
              s.reply \in Status \cup {"dropped"}

Justified(said, t, s) ==
    t \in ClientTask /\ s.pc = "idle" /\ s.reply \in Status =>
        \/ <<s.request.payload, s.reply>> \in said
        \/ /\ s.reply = "SYNCING"
           /\ s.request.payload.honest /\ s.request.hashes_ok

TaskInv(said, t, s) ==
    /\ InItsHandler(t, s)
    /\ FoundIsSaid(said, s)
    /\ SkippedIsOld(said, t, s)
    /\ ServedIfProper(t, s)
    /\ TrustedHashes => Justified(said, t, s)

\* Only the controller's payloads are put to the engine.
SaidOfController(said) ==
    \A x \in said : /\ \E r \in ControllerRequests : x[1] = r.payload
                    /\ x[2] \in EngineStatus

\* A cached entry is what the engine said of a payload with that hash.
EntryIsSaid(said, hash, entry) ==
    \E x \in said : /\ x[1].hash = hash
                    /\ x[2] = entry.status
                    /\ x[1].number = entry.block_number

CacheIsSaid(said, cache) ==
    \A h \in DOMAIN cache : EntryIsSaid(said, h, cache[h].val)

Inv ==
    /\ TypeOK
    /\ SaidOfController(el_said)
    /\ CacheIsSaid(el_said, new_payload_cache)
    /\ \A t \in Task : TaskInv(el_said, t, task[t])

\* What the engine has said stays said.
LEMMA TaskInvMonotone ==
    ASSUME NEW said, NEW more, said \subseteq more, NEW t, NEW s,
           TaskInv(said, t, s)
    PROVE  TaskInv(more, t, s)
<1>1. FoundIsSaid(more, s)
  BY DEF TaskInv, FoundIsSaid
<1>2. SkippedIsOld(more, t, s)
  BY DEF TaskInv, SkippedIsOld, IsOld
<1>3. TrustedHashes => Justified(more, t, s)
  BY DEF TaskInv, Justified
<1> QED
  BY <1>1, <1>2, <1>3 DEF TaskInv

LEMMA InvInit == Init => Inv
<1> SUFFICES ASSUME Init PROVE Inv
  OBVIOUS
<1>1. TypeOK
  BY TypeOKInit
<1>2. SaidOfController(el_said) /\ CacheIsSaid(el_said, new_payload_cache)
  BY DEF Init, SaidOfController, CacheIsSaid, LruEmpty
<1>3. ASSUME NEW t \in Task
      PROVE  TaskInv(el_said, t, task[t])
  <2>1. /\ task[t].pc = "idle" /\ task[t].reply = "none"
        /\ task[t].request = NoRequest
    BY DEF Init
  <2>2. ~ProperRequest(NoRequest)
    BY DEF ProperRequest, NoRequest
  <2> QED
    BY <2>1, <2>2
    DEF TaskInv, InItsHandler, FoundIsSaid, SkippedIsOld, ServedIfProper,
        Justified, Status
<1> QED
  BY <1>1, <1>2, <1>3 DEF Inv

\* Inv is kept by a step that moves one task to a state that satisfies it, if
\* the cache and the history stay as they should be.
LEMMA InvTaskMoves ==
    ASSUME Inv, NEW t \in Task, NEW s \in TaskState,
           task' = [task EXCEPT ![t] = s],
           el_said \subseteq el_said',
           el_said' \subseteq Payload \X Status,
           IsLru(new_payload_cache, new_payload_cache_size, Block,
                 CacheEntry)',
           SaidOfController(el_said'),
           CacheIsSaid(el_said', new_payload_cache'),
           TaskInv(el_said', t, s)
    PROVE  Inv'
<1>1. task \in [Task -> TaskState]
  BY DEF Inv, TypeOK
<1>2. \A u \in Task : task'[u] = IF u = t THEN s ELSE task[u]
  BY <1>1
<1>3. task' \in [Task -> TaskState]
  BY <1>1
<1>4. \A u \in Task : TaskInv(el_said', u, task[u])
  BY TaskInvMonotone DEF Inv
<1>5. \A u \in Task : TaskInv(el_said', u, task'[u])
  BY <1>2, <1>4
<1>6. TypeOK'
  BY <1>3 DEF TypeOK
<1> QED
  BY <1>5, <1>6 DEF Inv

\* The same when cache and history do not change.
LEMMA InvTaskMovesAlone ==
    ASSUME Inv, NEW t \in Task, NEW s \in TaskState,
           task' = [task EXCEPT ![t] = s],
           UNCHANGED <<new_payload_cache, el_said>>,
           TaskInv(el_said, t, s)
    PROVE  Inv'
BY InvTaskMoves DEF Inv, TypeOK

\* The same when the task looks its payload up.
LEMMA InvTaskLooksUp ==
    ASSUME Inv, NEW t \in Task, NEW s \in TaskState,
           task' = [task EXCEPT ![t] = s],
           GetEntry(t), UNCHANGED el_said,
           TaskInv(el_said, t, s)
    PROVE  Inv'
<1>1. TypeOK
  BY DEF Inv
<1>2. /\ DOMAIN new_payload_cache' = DOMAIN new_payload_cache
      /\ \A h \in DOMAIN new_payload_cache :
            new_payload_cache'[h].val = new_payload_cache[h].val
      /\ IsLru(new_payload_cache, new_payload_cache_size, Block, CacheEntry)'
  BY <1>1, GetEntryKeepsEntries
<1>3. CacheIsSaid(el_said', new_payload_cache')
  BY <1>2 DEF Inv, CacheIsSaid
<1> QED
  BY <1>2, <1>3, InvTaskMoves DEF Inv, TypeOK

\* With hashes that name their payloads, a cached status is what the engine
\* said of the very payload that is looked up.
LEMMA HitIsSaid ==
    ASSUME Inv, TrustedHashes, NEW t \in Task, task[t].pc # "idle", Cached(t)
    PROVE  <<task[t].request.payload, CachedStatus(t)>> \in el_said
<1> DEFINE r == task[t].request
<1>1. PICK x \in el_said : x[1].hash = r.payload.hash
                          /\ x[2] = CachedStatus(t)
  BY DEF Inv, CacheIsSaid, EntryIsSaid, Cached, LruContains, CachedStatus
<1>2. PICK q \in ControllerRequests : x[1] = q.payload
  BY DEF Inv, SaidOfController
<1>3. InItsHandler(t, task[t])
  BY DEF Inv, TaskInv
<1>4. /\ r \in ControllerRequests \cup ClientRequests
      /\ r.payload.honest /\ q.payload.honest
  BY <1>3 DEF InItsHandler, TrustedHashes
<1>5. x[1] = r.payload
  BY <1>1, <1>2, <1>4 DEF TrustedHashes
<1>6. x = <<x[1], x[2]>>
  BY DEF Inv, TypeOK
<1> QED
  BY <1>1, <1>5, <1>6

\* A payload is_recent_payload turns down is old.
LEMMA NotRecentIsOld ==
    ASSUME Inv, NEW number \in Nat, ~is_recent_payload(number)
    PROVE  IsOld(el_said, number)
<1> DEFINE c == new_payload_cache
           f == [h \in DOMAIN c |-> c[h].val.block_number]
           highest == highest_cached_payload_number
<1>1. /\ IsLru(c, new_payload_cache_size, Block, CacheEntry)
      /\ new_payload_cache_size \in Nat /\ new_payload_wait_cutoff \in Nat
  BY NewPayloadAssumption DEF Inv, TypeOK
<1>2. \A h \in DOMAIN c : f[h] \in Nat
  BY <1>1 DEF IsLru, CacheEntry
<1>3. CachedNumbers # {}
  <2> SUFFICES ASSUME CachedNumbers = {} PROVE FALSE
    OBVIOUS
  <2>1. highest = 0
    BY DEF highest_cached_payload_number
  <2> QED
    BY <1>1, <2>1 DEF is_recent_payload, SaturatingSub
<1>4. DOMAIN c # {}
  BY <1>3 DEF CachedNumbers
<1> HIDE DEF f
<1>5. PICK m \in DOMAIN c : \A k \in DOMAIN c : f[k] <= f[m]
  BY <1>1, <1>2, <1>4, LruGreatest
<1>6. /\ f[m] \in CachedNumbers
      /\ \A n \in CachedNumbers : n <= f[m]
  BY <1>5 DEF CachedNumbers, f
<1>7. highest \in CachedNumbers
  BY <1>3, <1>6 DEF highest_cached_payload_number
<1>8. PICK h \in DOMAIN c : highest = c[h].val.block_number
  BY <1>7 DEF CachedNumbers
<1>9. PICK x \in el_said : x[1].number = highest
  BY <1>8 DEF Inv, CacheIsSaid, EntryIsSaid
<1>10. highest \in Nat
  BY <1>2, <1>8 DEF f
<1> HIDE DEF highest
<1>11. number + new_payload_wait_cutoff < highest
  BY <1>1, <1>10 DEF is_recent_payload, SaturatingSub, highest
<1> QED
  BY <1>9, <1>11 DEF IsOld

\* Every step preserves Inv.
LEMMA InvStep == Inv /\ [Next]_vars => Inv'
<1> SUFFICES ASSUME Inv, [Next]_vars PROVE Inv'
  OBVIOUS
<1>0. TypeOK /\ \A t \in Task : TaskInv(el_said, t, task[t])
  BY DEF Inv
<1>1. /\ Task = ControllerTask \cup ClientTask
      /\ ControllerTask \cap ClientTask = {}
  BY NewPayloadAssumption DEF Task
<1>2. ASSUME NEW t \in ControllerTask, NEW r \in ControllerRequests,
             ControllerReceives(t, r)
      PROVE  Inv'
  <2>1. r \in Request /\ t \in Task /\ t \notin ClientTask
    BY <1>1, NewPayloadAssumption
  <2>2. PICK s \in TaskState :
           /\ task' = [task EXCEPT ![t] = s]
           /\ s.request = r
           /\ \/ s.pc = "lookup" /\ s.reply = "none"
              \/ s.pc = "idle" /\ s.reply = "ParseError"
    BY <1>2, <2>1, ControllerReceiveMoves
  <2>3. TaskInv(el_said, t, s)
    BY <2>1, <2>2
    DEF TaskInv, InItsHandler, FoundIsSaid, SkippedIsOld, ServedIfProper,
        Justified
  <2> QED
    BY <1>2, <2>1, <2>2, <2>3, InvTaskMovesAlone DEF ControllerReceives
<1>3. ASSUME NEW t \in ClientTask, NEW r \in ClientRequests,
             ClientReceives(t, r)
      PROVE  Inv'
  <2>1. r \in Request /\ t \in Task
    BY <1>1, NewPayloadAssumption
  <2>2. PICK s \in TaskState :
           /\ task' = [task EXCEPT ![t] = s]
           /\ s.request = r
           /\ \/ s.pc = "recent" /\ s.reply = "none" /\ r.payload.honest
              \/ /\ s.pc = "idle" /\ ~ProperRequest(r)
                 /\ s.reply \in {"ParseError", "InvalidRequest"}
    BY <1>3, <2>1, ClientReceiveMoves
  <2>3. TaskInv(el_said, t, s)
    BY <2>1, <2>2
    DEF TaskInv, InItsHandler, FoundIsSaid, SkippedIsOld, ServedIfProper,
        Justified, Status
  <2> QED
    BY <1>3, <2>1, <2>2, <2>3, InvTaskMovesAlone DEF ClientReceives
<1>4. ASSUME NEW t \in Task,
             TaskStep(t) \/ EngineCallEnds(t) \/ Disconnect(t)
      PROVE  Inv'
  <2>0. PICK s \in TaskState : task' = [task EXCEPT ![t] = s] /\ Moved(t, s)
    BY <1>0, <1>4, HandlerMoves
  <2>1. /\ s.request = task[t].request
        /\ task[t] \in TaskState /\ TaskInv(el_said, t, task[t])
    BY <1>0, <2>0 DEF Moved, TypeOK
  <2> DEFINE Kept == UNCHANGED <<new_payload_cache, el_said>>
  <2>2. CASE /\ CheckRecent(t)
             /\ s.is_recent = is_recent_payload(task[t].request.payload.number)
             /\ s.definite_only = s.is_recent
             /\ s.pc = IF s.is_recent THEN "wait" ELSE "lookup"
    <3>1. task[t].pc = "recent" /\ Kept
      BY <2>2 DEF CheckRecent
    <3>2. task[t].request.payload.number \in Nat
      BY <2>1 DEF TaskState, Request, Payload
    <3>3. s.is_recent \/ IsOld(el_said, s.request.payload.number)
      BY <2>1, <2>2, <3>2, NotRecentIsOld
    <3>4. TaskInv(el_said, t, s)
      BY <2>1, <2>2, <3>1, <3>3
      DEF TaskInv, InItsHandler, FoundIsSaid, SkippedIsOld, ServedIfProper,
          Justified
    <3> QED
      BY <2>0, <3>1, <3>4, InvTaskMovesAlone
  <2>3. CASE /\ Poll(t) \/ TimeUp(t)
             /\ s.pc = "lookup" /\ s.is_recent = task[t].is_recent
    <3>1. task[t].pc = "wait" /\ Kept
      BY <2>3 DEF Poll, TimeUp
    <3>2. TaskInv(el_said, t, s)
      BY <2>1, <2>3, <3>1
      DEF TaskInv, InItsHandler, FoundIsSaid, SkippedIsOld, ServedIfProper,
          Justified
    <3> QED
      BY <2>0, <3>1, <3>2, InvTaskMovesAlone
  <2>4. CASE /\ LookupMisses(t) /\ t \in ControllerTask
             /\ s.pc = "el_call"
    <3>1. task[t].pc = "lookup" /\ GetEntry(t) /\ UNCHANGED el_said
      BY <2>4 DEF LookupMisses
    <3>2. TaskInv(el_said, t, s)
      BY <1>1, <2>1, <2>4, <3>1
      DEF TaskInv, InItsHandler, FoundIsSaid, SkippedIsOld, ServedIfProper,
          Justified
    <3> QED
      BY <2>0, <3>1, <3>2, InvTaskLooksUp
  <2>5. CASE /\ LookupMisses(t) /\ t \notin ControllerTask
             /\ task[t].definite_only
             /\ s.pc = "wait" /\ s.is_recent = task[t].is_recent
    <3>1. task[t].pc = "lookup" /\ GetEntry(t) /\ UNCHANGED el_said
      BY <2>5 DEF LookupMisses
    <3>2. TaskInv(el_said, t, s)
      BY <1>1, <2>1, <2>5, <3>1
      DEF TaskInv, InItsHandler, FoundIsSaid, SkippedIsOld, ServedIfProper,
          Justified
    <3> QED
      BY <2>0, <3>1, <3>2, InvTaskLooksUp
  <2>6. CASE /\ LookupMisses(t) /\ t \notin ControllerTask
             /\ s.pc = "idle" /\ s.is_recent = task[t].is_recent
             /\ s.reply = IF task[t].request.hashes_ok THEN "SYNCING"
                          ELSE "InvalidRequest"
    <3>1. task[t].pc = "lookup" /\ GetEntry(t) /\ UNCHANGED el_said
      BY <2>6 DEF LookupMisses
    <3>2. ProperRequest(s.request) => s.request.hashes_ok
      BY DEF ProperRequest
    <3>3. TaskInv(el_said, t, s)
      BY <1>1, <2>1, <2>6, <3>1, <3>2
      DEF TaskInv, InItsHandler, FoundIsSaid, SkippedIsOld, ServedIfProper,
          Justified, Status
    <3> QED
      BY <2>0, <3>1, <3>3, InvTaskLooksUp
  <2>7. CASE /\ LookupAnswers(t)
             /\ s.pc = "idle" /\ s.is_recent = task[t].is_recent
             /\ s.reply = CachedStatus(t) /\ CachedStatus(t) \in Status
    <3>1. /\ task[t].pc = "lookup" /\ GetEntry(t) /\ UNCHANGED el_said
          /\ Cached(t)
      BY <2>7 DEF LookupAnswers, LookupHits
    <3>2. TrustedHashes => <<s.request.payload, s.reply>> \in el_said
      BY <2>1, <2>7, <3>1, HitIsSaid
    <3>3. s.reply # "panicked"
      BY <2>7 DEF Status
    <3>4. TaskInv(el_said, t, s)
      BY <1>1, <2>1, <2>7, <3>1, <3>2, <3>3
      DEF TaskInv, InItsHandler, FoundIsSaid, SkippedIsOld, ServedIfProper,
          Justified
    <3> QED
      BY <2>0, <3>1, <3>4, InvTaskLooksUp
  <2>8. CASE PutNewPayload(t) /\ s.pc = "register" /\ s.found = task[t].found
    <3> DEFINE r == task[t].request
    <3>1. task[t].pc = "el_done" /\ UNCHANGED el_said
      BY <2>8 DEF PutNewPayload
    <3>2. task[t].found \in Status /\ <<r.payload, task[t].found>> \in el_said
      BY <2>1, <3>1 DEF TaskInv, FoundIsSaid
    <3>3. /\ IsLru(new_payload_cache, new_payload_cache_size, Block,
                   CacheEntry)'
          /\ DOMAIN new_payload_cache' \subseteq
                DOMAIN new_payload_cache \cup {r.payload.hash}
          /\ new_payload_cache'[r.payload.hash].val =
                [status |-> task[t].found, block_number |-> r.payload.number]
          /\ \A h \in DOMAIN new_payload_cache' \ {r.payload.hash} :
                new_payload_cache'[h].val = new_payload_cache[h].val
      BY <1>0, <2>8, <3>2, PutKeepsEntries
    <3>4. EntryIsSaid(el_said, r.payload.hash,
                      new_payload_cache'[r.payload.hash].val)
      BY <3>2, <3>3 DEF EntryIsSaid
    <3>5. CacheIsSaid(el_said', new_payload_cache')
      BY <3>1, <3>3, <3>4 DEF Inv, CacheIsSaid
    <3>6. TaskInv(el_said, t, s)
      BY <1>1, <2>1, <2>8, <3>1, <3>2
      DEF TaskInv, InItsHandler, FoundIsSaid, SkippedIsOld, ServedIfProper,
          Justified
    <3> QED
      BY <2>0, <3>1, <3>3, <3>5, <3>6, InvTaskMoves DEF Inv, TypeOK
  <2>9. CASE RegisterCanonicalPayload(t) /\ s.pc = "idle"
             /\ s.reply = task[t].found
    <3>1. task[t].pc = "register" /\ Kept
      BY <2>9 DEF RegisterCanonicalPayload
    <3>2. t \notin ClientTask
      BY <2>1, <3>1 DEF TaskInv, InItsHandler
    <3>3. s.reply # "panicked"
      BY <2>1, <2>9, <3>1 DEF TaskInv, FoundIsSaid, Status
    <3>4. TaskInv(el_said, t, s)
      BY <2>9, <3>2, <3>3
      DEF TaskInv, InItsHandler, FoundIsSaid, SkippedIsOld, ServedIfProper,
          Justified
    <3> QED
      BY <2>0, <3>1, <3>4, InvTaskMovesAlone
  <2>10. CASE EngineCallFails(t) /\ s.pc = "idle"
              /\ s.reply = "InvalidRequest"
    <3>1. task[t].pc = "el_call" /\ Kept
      BY <2>10 DEF EngineCallFails
    <3>2. t \notin ClientTask
      BY <2>1, <3>1 DEF TaskInv, InItsHandler
    <3>3. TaskInv(el_said, t, s)
      BY <2>10, <3>2
      DEF TaskInv, InItsHandler, FoundIsSaid, SkippedIsOld, ServedIfProper,
          Justified
    <3> QED
      BY <2>0, <3>1, <3>3, InvTaskMovesAlone
  <2>11. CASE Disconnect(t) /\ s.pc = "idle" /\ s.reply = "dropped"
    <3>1. Kept
      BY <2>11 DEF Disconnect
    <3>2. TaskInv(el_said, t, s)
      BY <2>11
      DEF TaskInv, InItsHandler, FoundIsSaid, SkippedIsOld, ServedIfProper,
          Justified, Status
    <3> QED
      BY <2>0, <3>1, <3>2, InvTaskMovesAlone
  <2>12. ASSUME NEW status \in EngineStatus, EngineAnswers(t, status),
                s.found = status, s.pc = "el_done"
         PROVE  Inv'
    <3> DEFINE r == task[t].request
    <3>1. /\ task[t].pc = "el_call" /\ UNCHANGED new_payload_cache
          /\ el_said' = el_said \cup {<<r.payload, status>>}
      BY <2>12 DEF EngineAnswers
    <3>2. t \notin ClientTask /\ r \in ControllerRequests
      BY <2>1, <3>1 DEF TaskInv, InItsHandler
    <3>3. status \in Status /\ r.payload \in Payload
      BY <2>1, NewPayloadAssumption DEF TaskState, Request
    <3>4. /\ el_said \subseteq el_said'
          /\ el_said' \subseteq Payload \X Status
      BY <1>0, <3>1, <3>3 DEF TypeOK
    <3>5. SaidOfController(el_said')
      BY <3>1, <3>2 DEF Inv, SaidOfController
    <3>6. CacheIsSaid(el_said', new_payload_cache')
      BY <3>1, <3>4 DEF Inv, CacheIsSaid, EntryIsSaid
    <3>7. <<s.request.payload, s.found>> \in el_said'
      BY <2>1, <2>12, <3>1
    <3>8. TaskInv(el_said', t, s)
      BY <2>1, <2>12, <3>2, <3>3, <3>7
      DEF TaskInv, InItsHandler, FoundIsSaid, SkippedIsOld, ServedIfProper,
          Justified
    <3>9. IsLru(new_payload_cache, new_payload_cache_size, Block, CacheEntry)'
      BY <1>0, <3>1 DEF TypeOK
    <3> QED
      BY <2>0, <3>4, <3>5, <3>6, <3>8, <3>9, InvTaskMoves
  <2> QED
    BY <2>0, <2>2, <2>3, <2>4, <2>5, <2>6, <2>7, <2>8, <2>9, <2>10, <2>11,
       <2>12
    DEF Moved
<1>5. CASE UNCHANGED vars
  BY <1>5 DEF vars, Inv, TypeOK
<1> QED
  BY <1>2, <1>3, <1>4, <1>5 DEF Next

\* Inv holds throughout.
LEMMA Invariant == Spec => []Inv
BY InvInit, InvStep, PTL DEF Spec

-----------------------------------------------------------------------------
(* The invariants of the runs.                                             *)

\* TypeOK for every instance: in particular no status but an engine's ever
\* gets into the cache, and the cache keeps to new_payload_cache_size.
THEOREM TypeCorrect == Spec => []TypeOK
<1>1. Inv => TypeOK
  BY DEF Inv
<1> QED
  BY <1>1, Invariant, PTL

\* ClientStatusIsJustified for every instance in which the controller's
\* payloads carry the right block hash and no two payloads share one: whatever
\* clients send, no interleaving or eviction makes handle_new_payload answer
\* with a status of another payload, or with an unverified SYNCING.
THEOREM ClientStatuses ==
    ASSUME TrustedHashes
    PROVE  Spec => []ClientStatusIsJustified
<1>1. Inv => ClientStatusIsJustified
  BY DEF Inv, TaskInv, Justified, ClientStatusIsJustified, Task
<1> QED
  BY <1>1, Invariant, PTL

\* ProperRequestsAreServed for every instance and fork schedule: the decoder
\* of new_payload.rs never panics, and no path turns a proper request away.
THEOREM ProperRequestsServed == Spec => []ProperRequestsAreServed
<1>1. Inv => ProperRequestsAreServed
  BY DEF Inv, TaskInv, ServedIfProper, ProperRequestsAreServed
<1> QED
  BY <1>1, Invariant, PTL

\* OnlyOldPayloadsSkipTheWait for every instance: whatever is cached, evicted
\* or put meanwhile, is_recent_payload only turns down a payload that is more
\* than the cutoff below one the engine was given.
THEOREM OldPayloadsOnly == Spec => []OnlyOldPayloadsSkipTheWait
<1>1. Inv => OnlyOldPayloadsSkipTheWait
  <2> SUFFICES ASSUME Inv, NEW t \in ClientTask, task[t].pc = "idle",
                      task[t].reply \in Status, ~task[t].is_recent
               PROVE  \E p \in {said[1] : said \in el_said} :
                         task[t].request.payload.number
                            + new_payload_wait_cutoff < p.number
    BY DEF OnlyOldPayloadsSkipTheWait
  <2>1. IsOld(el_said, task[t].request.payload.number)
    BY DEF Inv, TaskInv, SkippedIsOld, Task
  <2> QED
    BY <2>1 DEF IsOld
<1> QED
  BY <1>1, Invariant, PTL

-----------------------------------------------------------------------------
(* One controller request at a time.                                       *)

\* What an only controller task was last told, or is about to be told, is what
\* the cache holds for its payload.
VerdictCached(cache, s) ==
    LET hash == s.request.payload.hash IN
    hash \in DOMAIN cache =>
        /\ s.pc = "register" => cache[hash].val.status = s.found
        /\ s.pc = "idle" /\ s.reply = "VALID" =>
              cache[hash].val.status = "VALID"

VerdictCachedInv ==
    \A t \in ControllerTask : VerdictCached(new_payload_cache, task[t])

\* Every step preserves it: only the task itself replaces its entry.
LEMMA VerdictCachedStep ==
    ASSUME \A t, u \in ControllerTask : t = u
    PROVE  Inv /\ VerdictCachedInv /\ [Next]_vars => VerdictCachedInv'
<1> SUFFICES ASSUME Inv, VerdictCachedInv, [Next]_vars,
                    NEW c \in ControllerTask
             PROVE  VerdictCached(new_payload_cache', task'[c])
  BY DEF VerdictCachedInv
<1>0. /\ TypeOK /\ c \in Task /\ task \in [Task -> TaskState]
      /\ VerdictCached(new_payload_cache, task[c])
      /\ \A t \in Task : TaskInv(el_said, t, task[t])
  BY DEF Inv, TypeOK, VerdictCachedInv, Task
<1>1. ASSUME UNCHANGED new_payload_cache \/ \E t \in Task : GetEntry(t)
      PROVE  /\ DOMAIN new_payload_cache' = DOMAIN new_payload_cache
             /\ \A h \in DOMAIN new_payload_cache :
                   new_payload_cache'[h].val = new_payload_cache[h].val
  BY <1>0, <1>1, GetEntryKeepsEntries
<1>2. ASSUME NEW t \in ClientTask, NEW s, task' = [task EXCEPT ![t] = s],
             UNCHANGED new_payload_cache \/ GetEntry(t)
      PROVE  VerdictCached(new_payload_cache', task'[c])
  <2>1. t \in Task /\ t # c
    BY NewPayloadAssumption DEF Task
  <2>2. task'[c] = task[c]
    BY <1>0, <1>2, <2>1
  <2> QED
    BY <1>0, <1>1, <1>2, <2>1, <2>2 DEF VerdictCached
<1>3. ASSUME NEW r \in ControllerRequests, ControllerReceives(c, r)
      PROVE  VerdictCached(new_payload_cache', task'[c])
  <2>1. r \in Request
    BY NewPayloadAssumption
  <2>2. PICK s \in TaskState :
           /\ task' = [task EXCEPT ![c] = s]
           /\ \/ s.pc = "lookup" /\ s.reply = "none"
              \/ s.pc = "idle" /\ s.reply = "ParseError"
    BY <1>0, <1>3, <2>1, ControllerReceiveMoves
  <2> QED
    BY <1>0, <2>2 DEF VerdictCached
<1>4. ASSUME NEW t \in ClientTask, NEW r \in ClientRequests,
             ClientReceives(t, r)
      PROVE  VerdictCached(new_payload_cache', task'[c])
  BY <1>2, <1>4 DEF ClientReceives
<1>5. ASSUME NEW t \in Task,
             TaskStep(t) \/ EngineCallEnds(t) \/ Disconnect(t)
      PROVE  VerdictCached(new_payload_cache', task'[c])
  <2>1. PICK s \in TaskState : task' = [task EXCEPT ![t] = s] /\ Moved(t, s)
    BY <1>0, <1>5, HandlerMoves
  <2>2. task'[t] = s /\ s.request = task[t].request
    BY <1>0, <2>1 DEF Moved
  <2>3. CASE t \in ClientTask
    <3>1. task[t].pc \notin {"el_done", "register"}
      BY <1>0, <2>3 DEF TaskInv, InItsHandler
    <3>2. UNCHANGED new_payload_cache \/ GetEntry(t)
      BY <1>5, <3>1
      DEF TaskStep, HandlerStep, EngineCallEnds, CheckRecent, Poll, TimeUp,
          LookupMisses, LookupAnswers, PutNewPayload,
          RegisterCanonicalPayload, EngineCallFails, EngineAnswers, Disconnect
    <3> QED
      BY <1>2, <2>1, <2>3, <3>2
  <2>4. CASE t \notin ClientTask /\ s.pc \notin {"idle", "register"}
    <3>1. t = c
      BY <2>4 DEF Task
    <3> QED
      BY <2>2, <2>4, <3>1 DEF VerdictCached
  <2>5. CASE t \notin ClientTask /\ s.pc \in {"idle", "register"}
    <3>1. t = c
      BY <2>5 DEF Task
    <3>2. CASE PutNewPayload(t) /\ s.pc = "register"
               /\ s.found = task[t].found
      <4>1. task[t].found \in Status
        BY <1>0, <3>2 DEF PutNewPayload, TaskInv, FoundIsSaid
      <4>2. new_payload_cache'[task[t].request.payload.hash].val =
               [status |-> task[t].found,
                block_number |-> task[t].request.payload.number]
        BY <1>0, <3>2, <4>1, PutKeepsEntries
      <4>3. new_payload_cache'[s.request.payload.hash].val.status = s.found
        BY <2>2, <3>2, <4>2
      <4> QED
        BY <2>2, <3>1, <3>2, <4>3 DEF VerdictCached
    <3>3. CASE LookupAnswers(t) /\ s.pc = "idle" /\ s.reply = CachedStatus(t)
      <4>1. /\ \A h \in DOMAIN new_payload_cache :
                  new_payload_cache'[h].val = new_payload_cache[h].val
            /\ s.request.payload.hash \in DOMAIN new_payload_cache
        BY <1>1, <2>2, <3>3
        DEF LookupAnswers, LookupHits, Cached, LruContains
      <4>2. new_payload_cache'[s.request.payload.hash].val.status = s.reply
        BY <2>2, <3>3, <4>1 DEF CachedStatus
      <4> QED
        BY <2>2, <3>1, <3>3, <4>2 DEF VerdictCached
    <3>4. CASE /\ RegisterCanonicalPayload(t) /\ s.pc = "idle"
               /\ s.reply = task[t].found
      <4>1. task[t].pc = "register" /\ UNCHANGED new_payload_cache
        BY <3>4 DEF RegisterCanonicalPayload
      <4> QED
        BY <1>0, <2>2, <3>1, <3>4, <4>1 DEF VerdictCached
    <3>5. CASE s.pc = "idle" /\ s.reply # "VALID"
      BY <2>2, <3>1, <3>5 DEF VerdictCached
    <3> QED
      BY <2>1, <2>5, <3>2, <3>3, <3>4, <3>5 DEF Moved
  <2> QED
    BY <2>3, <2>4, <2>5
<1>6. CASE UNCHANGED vars
  BY <1>0, <1>6 DEF vars
<1>7. ASSUME NEW t \in ControllerTask, NEW r \in ControllerRequests,
             ControllerReceives(t, r)
      PROVE  VerdictCached(new_payload_cache', task'[c])
  <2>1. t = c
    OBVIOUS
  <2> QED
    BY <1>3, <1>7, <2>1
<1> QED
  BY <1>4, <1>5, <1>6, <1>7 DEF Next

\* ControllerVerdictIsServed for every instance with at most one controller
\* request at a time, however unreliable the engine, whatever it answers and
\* whatever the clients do.  With two at a time it fails: a later put of
\* handle_controller_new_payload replaces whatever is there.
THEOREM OneControllerVerdict ==
    ASSUME \A t, u \in ControllerTask : t = u
    PROVE  Spec => []ControllerVerdictIsServed
<1>1. Init => VerdictCachedInv
  BY DEF Init, VerdictCachedInv, VerdictCached, LruEmpty
<1>2. VerdictCachedInv => ControllerVerdictIsServed
  BY DEF VerdictCachedInv, VerdictCached, ControllerVerdictIsServed, Cached,
         CachedStatus, LruContains
<1>3. Inv /\ VerdictCachedInv /\ [Next]_vars => VerdictCachedInv'
  BY VerdictCachedStep
<1> QED
  BY <1>1, <1>2, <1>3, Invariant, PTL DEF Spec

-----------------------------------------------------------------------------
(* The handlers implement StatusOracle.                                    *)

\* What the oracle sees of a step that moves task t to s.
LEMMA OracleView ==
    ASSUME task \in [Task -> TaskState], NEW t \in Task, NEW s,
           task' = [task EXCEPT ![t] = s]
    PROVE  /\ [u \in Task |-> task[u].request]' =
                 [[u \in Task |-> task[u].request] EXCEPT ![t] = s.request]
           /\ [u \in Task |-> task[u].pc # "idle"]' =
                 [[u \in Task |-> task[u].pc # "idle"] EXCEPT
                     ![t] = (s.pc # "idle")]
           /\ [u \in Task |-> task[u].reply]' =
                 [[u \in Task |-> task[u].reply] EXCEPT ![t] = s.reply]
<1>1. \A u \in Task : task'[u] = IF u = t THEN s ELSE task[u]
  OBVIOUS
<1> QED
  BY <1>1

\* A request that is taken on is a question asked.
LEMMA OracleAsks ==
    ASSUME task \in [Task -> TaskState], NEW t \in Task, NEW s,
           task' = [task EXCEPT ![t] = s], UNCHANGED el_said,
           task[t].pc = "idle", s.request \in Request,
           s.pc # "idle" /\ s.reply = "none"
    PROVE  Oracle!Next
<1> DEFINE question == [u \in Task |-> task[u].request]
           busy == [u \in Task |-> task[u].pc # "idle"]
           reply == [u \in Task |-> task[u].reply]
<1>1. /\ question' = [question EXCEPT ![t] = s.request]
      /\ busy' = [busy EXCEPT ![t] = (s.pc # "idle")]
      /\ reply' = [reply EXCEPT ![t] = s.reply]
  BY OracleView
<1>2. /\ ~busy[t]
      /\ busy' = [busy EXCEPT ![t] = TRUE]
      /\ reply' = [reply EXCEPT ![t] = "none"]
      /\ question'[t] \in Request
      /\ question' = [question EXCEPT ![t] = question'[t]]
  BY <1>1
<1>3. Oracle!Ask(t)
  BY <1>2 DEF Oracle!Ask, Oracle!Poses
<1> QED
  BY <1>3 DEF Oracle!Next

\* A request that is turned away is a question refused.
LEMMA OracleRefuses ==
    ASSUME task \in [Task -> TaskState], NEW t \in Task, NEW s,
           task' = [task EXCEPT ![t] = s], UNCHANGED el_said,
           task[t].pc = "idle", s.request \in Request,
           s.pc = "idle" /\ s.reply \notin Status
    PROVE  Oracle!Next
<1> DEFINE question == [u \in Task |-> task[u].request]
           busy == [u \in Task |-> task[u].pc # "idle"]
           reply == [u \in Task |-> task[u].reply]
<1>1. /\ question' = [question EXCEPT ![t] = s.request]
      /\ busy' = [busy EXCEPT ![t] = (s.pc # "idle")]
      /\ reply' = [reply EXCEPT ![t] = s.reply]
  BY OracleView
<1>2. /\ ~busy[t]
      /\ busy' = busy
      /\ reply'[t] \notin Status
      /\ reply' = [reply EXCEPT ![t] = reply'[t]]
      /\ question'[t] \in Request
      /\ question' = [question EXCEPT ![t] = question'[t]]
  BY <1>1
<1>3. Oracle!Refuse(t)
  BY <1>2 DEF Oracle!Refuse, Oracle!Poses, Oracle!Status, Status
<1> QED
  BY <1>3 DEF Oracle!Next

\* A reply that may be given is an answer.
LEMMA OracleAnswers ==
    ASSUME task \in [Task -> TaskState], NEW t \in Task, NEW s,
           task' = [task EXCEPT ![t] = s], UNCHANGED el_said,
           task[t].pc # "idle", s.pc = "idle",
           s.request = task[t].request,
           s.reply \in Status =>
              \/ Backed(el_said, task[t].request, s.reply)
              \/ s.reply = "SYNCING" /\ Synthesises(t, task[t].request)
    PROVE  Oracle!Next
<1> DEFINE question == [u \in Task |-> task[u].request]
           busy == [u \in Task |-> task[u].pc # "idle"]
           reply == [u \in Task |-> task[u].reply]
<1>1. /\ question' = [question EXCEPT ![t] = s.request]
      /\ busy' = [busy EXCEPT ![t] = (s.pc # "idle")]
      /\ reply' = [reply EXCEPT ![t] = s.reply]
  BY OracleView
<1>2. /\ busy[t]
      /\ question' = question
      /\ busy' = [busy EXCEPT ![t] = FALSE]
      /\ reply'[t] = s.reply /\ question[t] = task[t].request
      /\ reply' = [reply EXCEPT ![t] = reply'[t]]
  BY <1>1
<1>3. Oracle!MayAnswer(t, reply'[t])
  BY <1>2 DEF Oracle!MayAnswer, Oracle!Status, Status
<1>4. Oracle!Answer(t)
  BY <1>2, <1>3 DEF Oracle!Answer
<1> QED
  BY <1>4 DEF Oracle!Next

\* The oracle sees nothing of a task's way to its answer but what the engine
\* says meanwhile.
LEMMA OracleWaits ==
    ASSUME task \in [Task -> TaskState], NEW t \in Task, NEW s,
           task' = [task EXCEPT ![t] = s], el_said \subseteq el_said',
           task[t].pc # "idle", s.pc # "idle",
           s.request = task[t].request, s.reply = task[t].reply
    PROVE  Oracle!Next
<1> DEFINE question == [u \in Task |-> task[u].request]
           busy == [u \in Task |-> task[u].pc # "idle"]
           reply == [u \in Task |-> task[u].reply]
<1>1. /\ question' = [question EXCEPT ![t] = s.request]
      /\ busy' = [busy EXCEPT ![t] = (s.pc # "idle")]
      /\ reply' = [reply EXCEPT ![t] = s.reply]
  BY OracleView
<1>2. question' = question /\ busy' = busy /\ reply' = reply
  BY <1>1
<1>3. Oracle!Learn
  BY <1>2 DEF Oracle!Learn
<1> QED
  BY <1>3 DEF Oracle!Next

\* Every step is a step of the oracle, or one it does not see.
LEMMA OracleStep ==
    ASSUME TrustedHashes
    PROVE  Inv /\ [Next]_vars => [Oracle!Next]_(Oracle!vars)
<1> SUFFICES ASSUME Inv, [Next]_vars PROVE [Oracle!Next]_(Oracle!vars)
  OBVIOUS
<1>0. /\ TypeOK /\ task \in [Task -> TaskState]
      /\ \A t \in Task : TaskInv(el_said, t, task[t])
  BY DEF Inv, TypeOK
<1>1. ASSUME NEW t \in ControllerTask, NEW r \in ControllerRequests,
             ControllerReceives(t, r)
      PROVE  Oracle!Next
  <2>1. r \in Request /\ t \in Task
    BY NewPayloadAssumption DEF Task
  <2>2. PICK s \in TaskState :
           /\ task' = [task EXCEPT ![t] = s]
           /\ s.request = r
           /\ \/ s.pc = "lookup" /\ s.reply = "none"
              \/ s.pc = "idle" /\ s.reply = "ParseError"
    BY <1>1, <2>1, ControllerReceiveMoves
  <2>3. "ParseError" \notin Status
    BY DEF Status
  <2>4. task[t].pc = "idle" /\ UNCHANGED el_said
    BY <1>1 DEF ControllerReceives
  <2> QED
    BY <1>0, <2>1, <2>2, <2>3, <2>4, OracleAsks, OracleRefuses
<1>2. ASSUME NEW t \in ClientTask, NEW r \in ClientRequests,
             ClientReceives(t, r)
      PROVE  Oracle!Next
  <2>1. r \in Request /\ t \in Task
    BY NewPayloadAssumption DEF Task
  <2>2. PICK s \in TaskState :
           /\ task' = [task EXCEPT ![t] = s]
           /\ s.request = r
           /\ \/ s.pc = "recent" /\ s.reply = "none"
              \/ s.pc = "idle" /\ s.reply \in {"ParseError", "InvalidRequest"}
    BY <1>2, <2>1, ClientReceiveMoves
  <2>3. {"ParseError", "InvalidRequest"} \cap Status = {}
    BY DEF Status
  <2>4. task[t].pc = "idle" /\ UNCHANGED el_said
    BY <1>2 DEF ClientReceives
  <2>5. CASE s.pc = "recent" /\ s.reply = "none"
    BY <1>0, <2>1, <2>2, <2>4, <2>5, OracleAsks
  <2>6. CASE s.pc = "idle" /\ s.reply \in {"ParseError", "InvalidRequest"}
    BY <1>0, <2>1, <2>2, <2>3, <2>4, <2>6, OracleRefuses
  <2> QED
    BY <2>2, <2>5, <2>6
<1>3. ASSUME NEW t \in Task,
             TaskStep(t) \/ EngineCallEnds(t) \/ Disconnect(t)
      PROVE  Oracle!Next
  <2>1. PICK s \in TaskState : task' = [task EXCEPT ![t] = s] /\ Moved(t, s)
    BY <1>0, <1>3, HandlerMoves
  <2>2. task[t].pc # "idle" /\ el_said \subseteq el_said'
    BY <1>3
    DEF TaskStep, HandlerStep, EngineCallEnds, CheckRecent, Poll, TimeUp,
        LookupMisses, LookupAnswers, PutNewPayload,
        RegisterCanonicalPayload, EngineCallFails, EngineAnswers, Disconnect
  <2>3. /\ s.request = task[t].request
        /\ s.pc # "idle" => s.reply = task[t].reply
    BY <2>1 DEF Moved
  <2>4. CASE s.pc # "idle"
    BY <1>0, <2>1, <2>2, <2>3, <2>4, OracleWaits
  <2>5. CASE s.pc = "idle"
    <3>1. UNCHANGED el_said
      BY <2>1, <2>5
      DEF Moved, LookupMisses, LookupAnswers, RegisterCanonicalPayload,
          EngineCallFails, Disconnect
    <3>2. ASSUME s.reply \in Status
          PROVE  \/ Backed(el_said, task[t].request, s.reply)
                 \/ s.reply = "SYNCING" /\ Synthesises(t, task[t].request)
      <4>1. CASE LookupAnswers(t) /\ s.reply = CachedStatus(t)
        <5>1. Cached(t)
          BY <4>1 DEF LookupAnswers, LookupHits
        <5> QED
          BY <2>2, <4>1, <5>1, HitIsSaid DEF Backed
      <4>2. CASE RegisterCanonicalPayload(t) /\ s.reply = task[t].found
        BY <1>0, <4>2
        DEF RegisterCanonicalPayload, TaskInv, FoundIsSaid, Backed
      <4>3. CASE /\ LookupMisses(t) /\ t \notin ControllerTask
                 /\ s.reply = IF task[t].request.hashes_ok THEN "SYNCING"
                              ELSE "InvalidRequest"
        <5>1. t \in ClientTask /\ task[t].request.payload.honest
          BY <1>0, <2>2, <4>3 DEF TaskInv, InItsHandler, Task
        <5>2. s.reply = "SYNCING" /\ task[t].request.hashes_ok
          BY <3>2, <4>3 DEF Status
        <5> QED
          BY <5>1, <5>2 DEF Synthesises
      <4>4. s.reply \notin {"InvalidRequest", "dropped"}
        BY <3>2 DEF Status
      <4> QED
        BY <2>1, <2>5, <4>1, <4>2, <4>3, <4>4 DEF Moved
    <3> QED
      BY <1>0, <2>1, <2>2, <2>3, <2>5, <3>1, <3>2, OracleAnswers
  <2> QED
    BY <2>4, <2>5
<1>4. CASE UNCHANGED vars
  BY <1>4 DEF vars, Oracle!vars
<1> QED
  BY <1>1, <1>2, <1>3, <1>4 DEF Next

\* ImplementsOracle for every instance with trusted hashes: all that the
\* handlers of new_payload.rs do, with their cache, polls, evictions, failed
\* calls and dropped connections, is asking, learning and answering as
\* StatusOracle allows.
THEOREM Refinement ==
    ASSUME TrustedHashes
    PROVE  Spec => ImplementsOracle
<1>1. Init => Oracle!Init
  <2> SUFFICES ASSUME Init PROVE Oracle!Init
    OBVIOUS
  <2> QED
    BY NoRequestType DEF Init, Oracle!Init
<1>2. Inv /\ [Next]_vars => [Oracle!Next]_(Oracle!vars)
  BY OracleStep
<1> QED
  BY <1>1, <1>2, Invariant, PTL DEF Spec, Oracle!Spec, ImplementsOracle
=============================================================================
