------------------------- MODULE ForkchoiceUpdated -------------------------
(***************************************************************************)
(* The handlers of engine_forkchoiceUpdated (src/fcu.rs) and the three     *)
(* caches they share (src/multiplexer.rs).                                 *)
(*                                                                         *)
(* Every HTTP request runs as a task.  A task is suspended only at an      *)
(* await, so each action below is the code between two awaits, and pc      *)
(* names the await a task is suspended at:                                 *)
(*                                                                         *)
(*   idle              no request; reply holds the last answer             *)
(*   lookup            get_cached_fcu: waiting for the fcu_cache mutex     *)
(*   check_justified   get_cached_fcu, loose matching: holds the fcu_cache *)
(*                     mutex, waiting for the justified_block_cache mutex  *)
(*   check_finalized   the same, waiting for finalized_block_cache         *)
(*   el_call           controller: waiting for the execution engine        *)
(*   el_done           controller: has the answer, waiting for fcu_cache   *)
(*   put_justified     controller: waiting for justified_block_cache       *)
(*   put_finalized     controller: waiting for finalized_block_cache       *)
(*   wait              client: head of the polling loop, or asleep in it   *)
(*   attributes        waiting for the payload builder                     *)
(*                                                                         *)
(* The engine is external.  It may answer any status of EngineStatus, at   *)
(* any time, or not at all.                                                *)
(***************************************************************************)
EXTENDS Types, LruCache

CONSTANTS
    Block,                       \* execution block hashes
    Genesis,                     \* the block the engine starts from
    ControllerTask,              \* concurrent requests on /canonical
    ClientTask,                  \* concurrent requests on /
    ControllerRequests,          \* what the controller may send
    ClientRequests,              \* what clients may send
    EngineStatus,                \* the statuses the engine may answer
    fcu_cache_size,
    justified_block_cache_size,
    finalized_block_cache_size,
    fcu_matching,                \* which fcUs a cached status answers
    MaxPolls,                    \* fcu_wait_millis / 50 ms, rounded up
    Unreliable                   \* engine calls may fail, peers disconnect

Task == ControllerTask \cup ClientTask

\* The option's variants, by the names it is given on the command line.
FcuMatching == {"exact", "loose", "head-only"}

Fcu == ForkchoiceState(Block)

\* A JSON-RPC request: its fork choice state, its method version, the
\* attributes on the wire, and whether the rest of its parameters parse.
Request ==
    [fcu : Fcu, method : 1 .. 3, wellformed : BOOLEAN,
     attrs : PayloadAttributes(Nat) \cup {NoAttributes}]

ASSUME ForkchoiceUpdatedAssumption ==
    /\ Genesis \in Block
    /\ ControllerTask \cap ClientTask = {}
    /\ ControllerRequests \subseteq Request
    /\ ClientRequests \subseteq Request
    /\ EngineStatus \subseteq Status
    /\ fcu_cache_size \in Nat \ {0}
    /\ justified_block_cache_size \in Nat \ {0}
    /\ finalized_block_cache_size \in Nat   \* read by nothing
    /\ fcu_matching \in FcuMatching
    /\ MaxPolls \in Nat
    /\ Unreliable \in BOOLEAN

VARIABLES
    fcu_cache,              \* LRU: Fcu -> Status
    justified_block_cache,  \* LRU: Block -> unit
    finalized_block_cache,  \* LRU: Block -> unit
    task,                   \* the state of every request task
    orphans,                \* fcUs the engine may still process although the
                            \* task that sent them has gone
    el_forkchoice,          \* the fork choice the engine last applied
    el_said                 \* history: every <<fcu, status>> it answered

vars == <<fcu_cache, justified_block_cache, finalized_block_cache, task,
          orphans, el_forkchoice, el_said>>

engine == <<orphans, el_forkchoice, el_said>>
checkpoints == <<justified_block_cache, finalized_block_cache>>

Pc == {"idle", "lookup", "check_justified", "check_finalized", "el_call",
       "el_done", "put_justified", "put_finalized", "wait", "attributes"}

Reply == {"none", "dropped"} \cup Status \cup ErrorCode

TaskRecord ==
    [pc : Pc, fcu : Fcu,
     attrs : PayloadAttributes(Nat) \cup {NoAttributes},
     definite_only : BOOLEAN,          \* argument of the current lookup
     polls : 0 .. MaxPolls,            \* polls the wait still has time for
     found : Status \cup {"none"},     \* status at hand
     reply : Reply]                    \* last answer sent

\* Where a task has a payload status at hand.
HasStatus == {"check_justified", "check_finalized", "el_done",
              "put_justified", "put_finalized", "attributes"}

TaskState == {s \in TaskRecord : s.pc \in HasStatus => s.found \in Status}

GenesisFcu ==
    [head_block_hash |-> Genesis, safe_block_hash |-> Genesis,
     finalized_block_hash |-> Genesis]

Init ==
    /\ fcu_cache = LruEmpty
    /\ justified_block_cache = LruEmpty
    /\ finalized_block_cache = LruEmpty
    /\ task = [t \in Task |->
                 [pc |-> "idle", fcu |-> GenesisFcu, attrs |-> NoAttributes,
                  definite_only |-> TRUE, polls |-> 0, found |-> "none",
                  reply |-> "none"]]
    /\ orphans = {}
    /\ el_forkchoice = GenesisFcu
    /\ el_said = {}

-----------------------------------------------------------------------------
(* Finishing a request.                                                    *)

\* The task's state once it has sent reply r.
Replied(s, r) ==
    [pc |-> "idle", fcu |-> s.fcu, attrs |-> NoAttributes,
     definite_only |-> TRUE, polls |-> 0, found |-> "none", reply |-> r]

\* The payload status is known: reply, by way of the builder if attributes
\* came with the request.
WithStatus(s, status) ==
    IF s.attrs = NoAttributes
    THEN Replied(s, status)
    ELSE [s EXCEPT !.pc = "attributes", !.found = status]

-----------------------------------------------------------------------------
(* A request arrives.                                                      *)

\* The version of attributes the controller handler decodes.
ControllerAttributesVersion(method) == IF method = 2 THEN 2 ELSE 3

\* The client handler decodes every method's attributes as version 2.
ClientAttributesVersion == 2

\* The state of a task that has parsed request r and is about to wait at pc.
Parsed(r, version, pc, polls) ==
    [pc |-> pc, fcu |-> r.fcu,
     attrs |-> DecodedAttributes(r.attrs, version),
     definite_only |-> TRUE, polls |-> polls, found |-> "none",
     reply |-> "none"]

Receive(t, r, version, pc, polls) ==
    /\ task[t].pc = "idle"
    /\ task' = [task EXCEPT ![t] =
                  IF r.wellformed /\ AttributesDecodeAs(r.attrs, version)
                  THEN Parsed(r, version, pc, polls)
                  ELSE Replied([@ EXCEPT !.fcu = r.fcu], "ParseError")]
    /\ UNCHANGED <<fcu_cache, checkpoints, engine>>

\* handle_controller_fcu, up to its cache lookup.
ControllerReceives(t, r) ==
    Receive(t, r, ControllerAttributesVersion(r.method), "lookup", 0)

\* handle_fcu, up to its polling loop.
ClientReceives(t, r) ==
    Receive(t, r, ClientAttributesVersion, "wait", MaxPolls)

-----------------------------------------------------------------------------
(* get_cached_fcu.                                                         *)

\* The bug of not holding the fcu_cache mutex across the checkpoint checks.
FcuCacheNeverLocked == TRUE

\* The guard on fcu_cache lives to the end of get_cached_fcu, so with loose
\* matching it is held while the checkpoint caches are awaited.
FcuCacheUnlocked ==
    \A t \in Task : task[t].pc \notin {"check_justified", "check_finalized"}

\* The cached entries a lookup of fcu accepts.
MatchingFcus(fcu) ==
    IF fcu_matching = "exact"
    THEN {fcu} \cap DOMAIN fcu_cache
    ELSE {f \in DOMAIN fcu_cache : f.head_block_hash = fcu.head_block_hash}

\* The entry it returns: the most recently used one.
MatchedFcu(fcu) == LruFirst(fcu_cache, MatchingFcus(fcu))

DefiniteEnough(definite_only, status) == ~definite_only \/ IsDefinite(status)

\* The bug of an optimistic VALID where SYNCING is due.
AfterLookupOptimistic(t, s, result) ==
    IF result # "none" THEN WithStatus(s, result)
    ELSE IF t \in ControllerTask
         THEN [s EXCEPT !.pc = "el_call", !.found = "none"]
         ELSE IF s.definite_only
              THEN [s EXCEPT !.pc = "wait", !.found = "none"]
              ELSE WithStatus(s, "VALID")

\* How the caller of get_cached_fcu goes on, given its result ("none" is a
\* miss): a hit is the answer; on a miss the controller asks the engine, a
\* polling client sleeps, and a client out of time answers SYNCING.
AfterLookup(t, s, result) ==
    IF result # "none" THEN WithStatus(s, result)
    ELSE IF t \in ControllerTask
         THEN [s EXCEPT !.pc = "el_call", !.found = "none"]
         ELSE IF s.definite_only
              THEN [s EXCEPT !.pc = "wait", !.found = "none"]
              ELSE WithStatus(s, "SYNCING")

LookupMisses(t) ==
    /\ task[t].pc = "lookup"
    /\ FcuCacheUnlocked
    /\ MatchingFcus(task[t].fcu) = {}
    /\ task' = [task EXCEPT ![t] = AfterLookup(t, @, "none")]
    /\ UNCHANGED <<fcu_cache, checkpoints, engine>>

\* Exact and head-only matching need no other cache.  Only the exact lookup
\* is a get, which renews the entry; the others iterate.
LookupFinds(t) ==
    /\ task[t].pc = "lookup"
    /\ FcuCacheUnlocked
    /\ fcu_matching # "loose"
    /\ MatchingFcus(task[t].fcu) # {}
    /\ LET f == MatchedFcu(task[t].fcu)
           status == fcu_cache[f].val
       IN  /\ task' = [task EXCEPT ![t] =
                 AfterLookup(t, @,
                     IF DefiniteEnough(@.definite_only, status)
                     THEN status ELSE "none")]
           /\ fcu_cache' = IF fcu_matching = "exact"
                           THEN LruTouch(fcu_cache, f) ELSE fcu_cache
    /\ UNCHANGED <<checkpoints, engine>>

LookupFindsLoosely(t) ==
    /\ task[t].pc = "lookup"
    /\ FcuCacheUnlocked
    /\ fcu_matching = "loose"
    /\ MatchingFcus(task[t].fcu) # {}
    /\ task' = [task EXCEPT
                   ![t].pc = "check_justified",
                   ![t].found = fcu_cache[MatchedFcu(task[t].fcu)].val]
    /\ UNCHANGED <<fcu_cache, checkpoints, engine>>

CheckJustified(t) ==
    /\ task[t].pc = "check_justified"
    /\ task' = [task EXCEPT ![t] =
          IF LruContains(justified_block_cache, @.fcu.safe_block_hash)
          THEN [@ EXCEPT !.pc = "check_finalized"]
          ELSE AfterLookup(t, @, "none")]
    /\ UNCHANGED <<fcu_cache, checkpoints, engine>>

CheckFinalized(t) ==
    /\ task[t].pc = "check_finalized"
    /\ task' = [task EXCEPT ![t] =
          AfterLookup(t, @,
             IF /\ LruContains(finalized_block_cache,
                               @.fcu.finalized_block_hash)
                /\ DefiniteEnough(@.definite_only, @.found)
             THEN @.found ELSE "none")]
    /\ UNCHANGED <<fcu_cache, checkpoints, engine>>

-----------------------------------------------------------------------------
(* The controller's call to the engine and the cache updates that follow.  *)

\* The engine processes fcu and settles on status.
EngineApplies(fcu, status) ==
    /\ el_said' = el_said \cup {<<fcu, status>>}
    /\ el_forkchoice' = IF status = "VALID" THEN fcu ELSE el_forkchoice

EngineAnswers(t, status) ==
    /\ task[t].pc = "el_call"
    /\ EngineApplies(task[t].fcu, status)
    /\ task' = [task EXCEPT ![t].pc = "el_done", ![t].found = status]
    /\ UNCHANGED <<fcu_cache, checkpoints, orphans>>

\* The bug of telling the controller SYNCING when the call fails.
EngineCallFailsAsSyncing(t) ==
    /\ Unreliable
    /\ task[t].pc = "el_call"
    /\ orphans' \in {orphans, orphans \cup {task[t].fcu}}
    /\ task' = [task EXCEPT ![t] = Replied(@, "SYNCING")]
    /\ UNCHANGED <<fcu_cache, checkpoints, el_forkchoice, el_said>>

\* The call fails or times out: nothing is cached.  The engine may never
\* have seen the request, or may yet process it.
EngineCallFails(t) ==
    /\ Unreliable
    /\ task[t].pc = "el_call"
    /\ orphans' \in {orphans, orphans \cup {task[t].fcu}}
    /\ task' = [task EXCEPT ![t] = Replied(@, "InvalidRequest")]
    /\ UNCHANGED <<fcu_cache, checkpoints, el_forkchoice, el_said>>

EngineProcessesOrphan(fcu, status) ==
    /\ EngineApplies(fcu, status)
    /\ orphans' = orphans \ {fcu}
    /\ UNCHANGED <<fcu_cache, checkpoints, task>>

\* The bug of overwriting whatever the cache holds.
NeverRedundant(fcu) == FALSE

\* The bug of keeping whatever status came first.
AnyEntryIsRedundant(fcu) == LruContains(fcu_cache, fcu)

\* An update is redundant if the cache already has a definite status.
RedundantUpdate(fcu) ==
    LruContains(fcu_cache, fcu) /\ IsDefinite(fcu_cache[fcu].val)

\* The bug of publishing the checkpoints of an fcU the engine did not accept.
CheckpointsOfAnyStatus(status) == TRUE

\* Only a VALID fcU makes its safe and finalized blocks known.
MakesCheckpoints(status) == status = "VALID"

\* Either branch moves the entry to the front (get_mut, put).
UpdateFcuCache(t) ==
    LET s == task[t] IN
    /\ s.pc = "el_done"
    /\ FcuCacheUnlocked
    /\ IF RedundantUpdate(s.fcu)
       THEN /\ fcu_cache' = LruTouch(fcu_cache, s.fcu)
            /\ task' = [task EXCEPT ![t] = WithStatus(@, @.found)]
       ELSE /\ fcu_cache' = LruPut(fcu_cache, fcu_cache_size, s.fcu, s.found)
            /\ task' = [task EXCEPT ![t] =
                          IF MakesCheckpoints(s.found)
                          THEN [@ EXCEPT !.pc = "put_justified"]
                          ELSE WithStatus(@, @.found)]
    /\ UNCHANGED <<checkpoints, engine>>

JustifiedBlockCacheCapacity == justified_block_cache_size

PutJustified(t) ==
    /\ task[t].pc = "put_justified"
    /\ justified_block_cache' =
          LruPut(justified_block_cache, JustifiedBlockCacheCapacity,
                 task[t].fcu.safe_block_hash, "unit")
    /\ task' = [task EXCEPT ![t].pc = "put_finalized"]
    /\ UNCHANGED <<fcu_cache, finalized_block_cache, engine>>

\* Multiplexer::new gives this cache the size of the justified one.
FinalizedBlockCacheCapacity == justified_block_cache_size

PutFinalized(t) ==
    /\ task[t].pc = "put_finalized"
    /\ finalized_block_cache' =
          LruPut(finalized_block_cache, FinalizedBlockCacheCapacity,
                 task[t].fcu.finalized_block_hash, "unit")
    /\ task' = [task EXCEPT ![t] = WithStatus(@, @.found)]
    /\ UNCHANGED <<fcu_cache, justified_block_cache, engine>>

-----------------------------------------------------------------------------
(* The client's wait.                                                      *)

\* The bug of a loop that does not look at the clock.
PollWithoutDeadline(t) ==
    /\ task[t].pc = "wait"
    /\ task' = [task EXCEPT ![t].pc = "lookup"]
    /\ UNCHANGED <<fcu_cache, checkpoints, engine>>

\* The bug of polling once more than there is time for.
PollOnceMore(t) ==
    /\ task[t].pc = "wait"
    /\ task[t].polls >= 0
    /\ task' = [task EXCEPT ![t].pc = "lookup",
                            ![t].polls = @ - 1]
    /\ UNCHANGED <<fcu_cache, checkpoints, engine>>

\* Time is left: look for a definite status.
Poll(t) ==
    /\ task[t].pc = "wait"
    /\ task[t].polls > 0
    /\ task' = [task EXCEPT ![t].pc = "lookup",
                            ![t].polls = @ - 1]
    /\ UNCHANGED <<fcu_cache, checkpoints, engine>>

\* The wait is over, perhaps before every poll was made: any status will do.
TimeUp(t) ==
    /\ task[t].pc = "wait"
    /\ task' = [task EXCEPT ![t].pc = "lookup",
                            ![t].polls = 0,
                            ![t].definite_only = FALSE]
    /\ UNCHANGED <<fcu_cache, checkpoints, engine>>

-----------------------------------------------------------------------------
(* The payload builder's part is in module PayloadBuilder.                 *)

\* An error of the builder is the controller's answer; if it panics, the
\* connection is closed.
RegisterAttributes(t, outcome) ==
    /\ t \in ControllerTask
    /\ task[t].pc = "attributes"
    /\ task' = [task EXCEPT ![t] =
          Replied(@, IF outcome = "ok" THEN @.found ELSE outcome)]
    /\ UNCHANGED <<fcu_cache, checkpoints, engine>>

\* A client is answered with the status whether or not a payload is found.
GetExistingPayloadId(t) ==
    /\ t \in ClientTask
    /\ task[t].pc = "attributes"
    /\ task' = [task EXCEPT ![t] = Replied(@, @.found)]
    /\ UNCHANGED <<fcu_cache, checkpoints, engine>>

-----------------------------------------------------------------------------
(* The peer closes the connection: the server drops the suspended task,    *)
(* and with it the mutex guard it may hold.                                *)
Disconnect(t) ==
    /\ Unreliable
    /\ task[t].pc # "idle"
    /\ orphans' \in {orphans} \cup
          (IF task[t].pc = "el_call" THEN {orphans \cup {task[t].fcu}} ELSE {})
    /\ task' = [task EXCEPT ![t] = Replied(@, "dropped")]
    /\ UNCHANGED <<fcu_cache, checkpoints, el_forkchoice, el_said>>

-----------------------------------------------------------------------------
\* What task t does by itself, once it has a request.
HandlerStep(t) ==
    \/ LookupMisses(t)
    \/ LookupFinds(t)
    \/ LookupFindsLoosely(t)
    \/ CheckJustified(t)
    \/ CheckFinalized(t)
    \/ UpdateFcuCache(t)
    \/ PutJustified(t)
    \/ PutFinalized(t)
    \/ Poll(t)
    \/ TimeUp(t)

\* Here the builder's outcome is arbitrary.
TaskStep(t) ==
    \/ HandlerStep(t)
    \/ \E outcome \in BuilderOutcome : RegisterAttributes(t, outcome)
    \/ GetExistingPayloadId(t)

EngineCallEnds(t) ==
    \/ \E status \in EngineStatus : EngineAnswers(t, status)
    \/ EngineCallFails(t)

Next ==
    \/ \E t \in ControllerTask, r \in ControllerRequests :
          ControllerReceives(t, r)
    \/ \E t \in ClientTask, r \in ClientRequests : ClientReceives(t, r)
    \/ \E t \in Task : TaskStep(t) \/ EngineCallEnds(t) \/ Disconnect(t)
    \/ \E fcu \in orphans, status \in EngineStatus :
          EngineProcessesOrphan(fcu, status)

Spec == Init /\ [][Next]_vars

(***************************************************************************)
(* The runtime polls every task that can go on; an engine call ends, at    *)
(* the latest by its HTTP timeout; and tokio's mutex serves its waiters in *)
(* order, so a task that waits for fcu_cache is not overtaken for ever.    *)
(***************************************************************************)
Fairness ==
    \A t \in Task :
        /\ WF_vars(TaskStep(t))
        /\ WF_vars(EngineCallEnds(t))
        /\ SF_vars(LookupMisses(t) \/ LookupFinds(t) \/ LookupFindsLoosely(t))
        /\ SF_vars(UpdateFcuCache(t))

FairSpec == Spec /\ Fairness

-----------------------------------------------------------------------------
(* Properties.                                                             *)

\* Type correctness.  Every cache stays a well-formed LRU map within the
\* capacity Multiplexer::new gave it.
TypeOK ==
    /\ IsLru(fcu_cache, fcu_cache_size, Fcu, Status)
    /\ IsLru(justified_block_cache, justified_block_cache_size, Block,
             {"unit"})
    /\ IsLru(finalized_block_cache, FinalizedBlockCacheCapacity, Block,
             {"unit"})
    /\ task \in [Task -> TaskState]
    /\ orphans \subseteq Fcu
    /\ el_forkchoice \in Fcu
    /\ el_said \subseteq Fcu \X Status

\* In the following, said is a set of engine answers such as el_said.

\* The engine accepted some fork choice with this safe block.
SafeBacked(said, block) ==
    \E g \in Fcu : g.safe_block_hash = block /\ <<g, "VALID">> \in said

\* The engine accepted some fork choice with this finalized block.
FinalizedBacked(said, block) ==
    \E g \in Fcu :
        g.finalized_block_hash = block /\ <<g, "VALID">> \in said

\* The engine gave this status to some fork choice with this head.
HeadBacked(said, block, status) ==
    \E g \in Fcu : g.head_block_hash = block /\ <<g, status>> \in said

\* What the matching mode demands of a cached status served for fcu.
MatchBacked(said, fcu, status) ==
    /\ fcu_matching # "exact"
    /\ HeadBacked(said, fcu.head_block_hash, status)
    /\ fcu_matching = "loose" =>
          /\ SafeBacked(said, fcu.safe_block_hash)
          /\ FinalizedBacked(said, fcu.finalized_block_hash)

Backed(said, fcu, status) ==
    <<fcu, status>> \in said \/ MatchBacked(said, fcu, status)

(***************************************************************************)
(* No consensus node is ever told VALID or INVALID by eleel alone: a       *)
(* definite answer to an fcU is one the engine gave for the very same fcU, *)
(* or, with loose matching, for one with the same head while the safe and  *)
(* the finalized block each come from an fcU the engine found VALID, or,   *)
(* with head-only matching, for one with the same head (get_cached_fcu and *)
(* the FcuMatching documentation).  Caches, evictions, polling, failed     *)
(* calls and dropped connections cannot make up a verdict.                 *)
(***************************************************************************)
VerdictsComeFromEngine ==
    \A t \in Task :
        task[t].pc = "idle" /\ IsDefinite(task[t].reply) =>
            Backed(el_said, task[t].fcu, task[t].reply)

\* Only clients are told SYNCING for want of an answer.
Synthesises(t, fcu) == t \in ClientTask

Oracle ==
    INSTANCE StatusOracle WITH
        Question <- Fcu, Supports <- Backed, MaySynthesise <- Synthesises,
        said <- el_said,
        question <- [t \in Task |-> task[t].fcu],
        busy <- [t \in Task |-> task[t].pc # "idle"],
        reply <- [t \in Task |-> task[t].reply]

(***************************************************************************)
(* The handlers implement the oracle.  Beyond VerdictsComeFromEngine this  *)
(* says that an ACCEPTED or SYNCING is the engine's too, except that a     *)
(* client whose wait found nothing is told SYNCING ("Synthesise a syncing  *)
(* response"); that the controller is never told a status the engine did   *)
(* not give, an engine call that fails included; that the answer is for    *)
(* the fcU the task was asked about, and comes once.                       *)
(***************************************************************************)
ImplementsOracle == Oracle!Spec

(***************************************************************************)
(* A definite status is final while it stays in fcu_cache.  Two controller *)
(* requests for one fcU can be with the engine at once, and the SYNCING of *)
(* the slower must not hide the verdict of the faster                      *)
(* (handle_controller_fcu, "ignoring redundant fcU cache update").         *)
(***************************************************************************)
DefiniteEntriesAreFinal ==
    [][\A f \in DOMAIN fcu_cache \cap DOMAIN fcu_cache' :
          IsDefinite(fcu_cache[f].val) =>
              fcu_cache'[f].val = fcu_cache[f].val]_vars

(***************************************************************************)
(* get_cached_fcu picks an entry and then awaits the checkpoint caches.    *)
(* When it decides, the entry it picked is still the one the cache would   *)
(* give: no controller update slips in between, because the guard on       *)
(* fcu_cache outlives both awaits.                                         *)
(***************************************************************************)
LockedReadIsCurrent ==
    \A t \in Task :
        task[t].pc \in {"check_justified", "check_finalized"} =>
            /\ MatchingFcus(task[t].fcu) # {}
            /\ task[t].found = fcu_cache[MatchedFcu(task[t].fcu)].val

(***************************************************************************)
(* Every request is answered: the polling loop of handle_fcu ends, nobody  *)
(* waits for ever on a mutex another task holds while it waits itself      *)
(* (get_cached_fcu nests three), and a failed engine call ends the request *)
(* with an error.                                                          *)
(***************************************************************************)
RequestsAreAnswered ==
    \A t \in Task : task[t].pc # "idle" ~> task[t].pc = "idle"

\* The status a definite-only lookup of fcu would now return.
CachedVerdict(fcu) ==
    IF /\ MatchingFcus(fcu) # {}
       /\ fcu_matching = "loose" =>
             /\ LruContains(justified_block_cache, fcu.safe_block_hash)
             /\ LruContains(finalized_block_cache, fcu.finalized_block_hash)
       /\ IsDefinite(fcu_cache[MatchedFcu(fcu)].val)
    THEN fcu_cache[MatchedFcu(fcu)].val
    ELSE "none"

(***************************************************************************)
(* What the controller was just told, clients are told too.  Config says   *)
(* of the wait for the controller's request that it "will allow the        *)
(* definitive (VALID) response from the execution engine to be returned".  *)
(* So once a controller request has its VALID, a lookup of the same fcU    *)
(* finds it, also when another request for it was answered SYNCING         *)
(* meanwhile. That holds with exact matching and room in the cache. It     *)
(* need not with loose matching: when the safe hash has left               *)
(* justified_block_cache the controller's request goes to the engine       *)
(* again, its fresh VALID is a "redundant" update, and the hash is not put *)
(* back.                                                                   *)
(***************************************************************************)
ControllerVerdictIsServed ==
    \A t \in ControllerTask :
        task[t].pc = "idle" /\ task[t].reply = "VALID" =>
            CachedVerdict(task[t].fcu) = "VALID"

(***************************************************************************)
(* README.md: the controller "is in charge, and its messages will be sent  *)
(* directly to the execution node".  So when a controller, the only one,   *)
(* has been told that its fork choice is VALID, the engine has it.  It     *)
(* need not: handle_controller_fcu answers an fcU it has cached without    *)
(* telling the engine, which has meanwhile moved on to another head.       *)
(***************************************************************************)
EngineFollowsController ==
    \A t \in ControllerTask :
        task[t].pc = "idle" /\ task[t].reply = "VALID" =>
            el_forkchoice = task[t].fcu
=============================================================================
