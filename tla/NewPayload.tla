---------------------------- MODULE NewPayload ----------------------------
(***************************************************************************)
(* The handlers of engine_newPayload (src/new_payload.rs) and the cache    *)
(* they share.  As in ForkchoiceUpdated every request is a task and pc     *)
(* names the await it is suspended at:                                     *)
(*                                                                         *)
(*   idle       no request; reply holds the last answer                    *)
(*   recent     client: is_recent_payload, waiting for the cache mutex     *)
(*   wait       client: head of the polling loop, or asleep in it          *)
(*   lookup     get_cached_payload_status, waiting for the cache mutex     *)
(*   el_call    controller: waiting for the execution engine               *)
(*   el_done    controller: has the answer, waiting for the cache mutex    *)
(*   register   controller: waiting for the payload builder                *)
(***************************************************************************)
EXTENDS Types, LruCache, ChainSpec

CONSTANTS
    Block,                       \* execution block hashes
    ControllerTask,              \* concurrent requests on /canonical
    ClientTask,                  \* concurrent requests on /
    ControllerRequests,          \* what the controller may send
    ClientRequests,              \* what clients may send
    EngineStatus,                \* the statuses the engine may answer
    new_payload_cache_size,
    new_payload_wait_cutoff,
    MaxPolls,                    \* new_payload_wait_millis / 50 ms
    ConsistentEngine,            \* the engine never goes back on a verdict
    Unreliable                   \* engine calls may fail, peers disconnect

Task == ControllerTask \cup ClientTask

(***************************************************************************)
(* A payload on the wire.  version is the structure its block hash was     *)
(* computed over (1 Bellatrix, 2 Capella, 3 Deneb, 4 Electra); honest says *)
(* that hash really is the hash of that structure.                         *)
(***************************************************************************)
Payload ==
    [hash : Block, number : Nat, timestamp : Nat, version : 1 .. 4,
     honest : BOOLEAN]

\* A request: arity is the number of parameters, wellformed says that each of
\* them parses on its own, hashes_ok that the versioned hashes are the block's.
Request ==
    [method : 1 .. 4, arity : 0 .. 4, wellformed : BOOLEAN,
     hashes_ok : BOOLEAN, payload : Payload]

ASSUME NewPayloadAssumption ==
    /\ Block # {}
    /\ ControllerTask \cap ClientTask = {}
    /\ ControllerRequests \subseteq Request
    /\ ClientRequests \subseteq Request
    /\ EngineStatus \subseteq Status
    /\ new_payload_cache_size \in Nat \ {0}
    /\ new_payload_wait_cutoff \in Nat
    /\ MaxPolls \in Nat
    /\ ConsistentEngine \in BOOLEAN
    /\ Unreliable \in BOOLEAN

VARIABLES
    new_payload_cache,  \* LRU: Block -> [status, block_number]
    task,               \* the state of every request task
    el_said             \* history: every <<payload, status>> it answered

vars == <<new_payload_cache, task, el_said>>

Pc == {"idle", "recent", "wait", "lookup", "el_call", "el_done", "register"}

Reply == {"none", "dropped", "panicked"} \cup Status \cup ErrorCode

CacheEntry == [status : Status, block_number : Nat]

\* What a task that never had a request holds.
NoRequest ==
    [method |-> 1, arity |-> 0, wellformed |-> FALSE, hashes_ok |-> FALSE,
     payload |-> [hash |-> CHOOSE b \in Block : TRUE, number |-> 0,
                  timestamp |-> 0, version |-> 1, honest |-> FALSE]]

TaskState ==
    [pc : Pc, request : Request,
     definite_only : BOOLEAN,          \* argument of the current lookup
     is_recent : BOOLEAN,
     polls : 0 .. MaxPolls,            \* polls the wait still has time for
     found : Status \cup {"none"},     \* status at hand
     reply : Reply]                    \* last answer sent

Init ==
    /\ new_payload_cache = LruEmpty
    /\ task = [t \in Task |->
                 [pc |-> "idle", request |-> NoRequest,
                  definite_only |-> TRUE, is_recent |-> FALSE, polls |-> 0,
                  found |-> "none", reply |-> "none"]]
    /\ el_said = {}

-----------------------------------------------------------------------------
(* decode_new_payload and new_payload_request_from_parts.                  *)

\* V4 brings versioned hashes, beacon root and requests, V3 the first two.
ParametersOf(method) == IF method \in {3, 4} THEN method ELSE 1

\* The payload version of a fork; the others count as the newest.
PayloadVersionOf(fork) ==
    CASE fork = "Bellatrix" -> 1
      [] fork = "Capella" -> 2
      [] fork = "Deneb" -> 3
      [] OTHER -> 4

\* The bug of going by the fork alone.
ForkAlone(method, fork) == PayloadVersionOf(fork)

\* The structure the payload is decoded as: the older of what the method and
\* what the fork of its timestamp stand for.
DecodedVersion(method, fork) ==
    IF method < PayloadVersionOf(fork) THEN method ELSE PayloadVersionOf(fork)

\* V3 and V4 payloads have the same fields; decoding ignores extra ones.
FieldsSuffice(payload, version) ==
    payload.version >= version \/ {payload.version, version} = {3, 4}

\* "ParseError", or "panicked" when the unwrap of the execution requests fails,
\* or the version decoded.
Decode(r) ==
    LET slot == timestamp_to_slot(r.payload.timestamp)
        version == DecodedVersion(r.method, fork_name_at_slot(slot))
    IN  IF \/ ~r.wellformed
           \/ r.arity # ParametersOf(r.method)
           \/ slot = NoSlot
           \/ ~FieldsSuffice(r.payload, version)
        THEN [outcome |-> "ParseError", version |-> 0]
        ELSE IF version = 4 /\ r.method # 4
             THEN [outcome |-> "panicked", version |-> 4]
             ELSE [outcome |-> "ok", version |-> version]

\* The block hash covers the structure: decoded as another version it differs.
verify_payload_block_hash(payload, version) ==
    payload.honest /\ payload.version = version

verify_versioned_hashes(r) == r.hashes_ok

-----------------------------------------------------------------------------
(* Requests.                                                               *)

\* The task's state once it has sent reply a.
Replied(s, a) ==
    [s EXCEPT !.pc = "idle", !.definite_only = TRUE, !.polls = 0,
              !.found = "none", !.reply = a]

\* The state of a task with a new request, about to wait at pc.
Started(r, pc) ==
    [pc |-> pc, request |-> r, definite_only |-> TRUE, is_recent |-> FALSE,
     polls |-> 0, found |-> "none", reply |-> "none"]

\* handle_controller_new_payload, up to its cache lookup.
ControllerReceives(t, r) ==
    /\ task[t].pc = "idle"
    /\ task' = [task EXCEPT ![t] =
          IF Decode(r).outcome = "ok"
          THEN Started(r, "lookup")
          ELSE Replied(Started(r, "idle"), Decode(r).outcome)]
    /\ UNCHANGED <<new_payload_cache, el_said>>

\* The bug of keying the cache with a hash nobody checked.
ClientReceivesUnchecked(t, r) ==
    /\ task[t].pc = "idle"
    /\ task' = [task EXCEPT ![t] =
          IF Decode(r).outcome # "ok"
          THEN Replied(Started(r, "idle"), Decode(r).outcome)
          ELSE Started(r, "recent")]
    /\ UNCHANGED <<new_payload_cache, el_said>>

\* handle_new_payload, up to is_recent_payload.  The hash is checked before
\* it is used as a key.
ClientReceives(t, r) ==
    /\ task[t].pc = "idle"
    /\ task' = [task EXCEPT ![t] =
          IF Decode(r).outcome # "ok"
          THEN Replied(Started(r, "idle"), Decode(r).outcome)
          ELSE IF verify_payload_block_hash(r.payload, Decode(r).version)
               THEN Started(r, "recent")
               ELSE Replied(Started(r, "idle"), "InvalidRequest")]
    /\ UNCHANGED <<new_payload_cache, el_said>>

-----------------------------------------------------------------------------
(* The client's wait.                                                      *)

CachedNumbers ==
    {new_payload_cache[h].val.block_number : h \in DOMAIN new_payload_cache}

highest_cached_payload_number ==
    IF CachedNumbers = {} THEN 0
    ELSE CHOOSE n \in CachedNumbers : \A m \in CachedNumbers : m <= n

\* The bug of a subtraction that wraps instead of saturating.
WrappingIsRecentPayload(number) ==
    number >=
        (highest_cached_payload_number - new_payload_wait_cutoff) % 2^16

SaturatingSub(a, b) == IF a > b THEN a - b ELSE 0

is_recent_payload(number) ==
    number >= SaturatingSub(highest_cached_payload_number,
                            new_payload_wait_cutoff)

\* Only a recent payload is waited for.  The last lookup takes any status.
CheckRecent(t) ==
    LET recent == is_recent_payload(task[t].request.payload.number) IN
    /\ task[t].pc = "recent"
    /\ task' = [task EXCEPT
          ![t].is_recent = recent,
          ![t].pc = IF recent THEN "wait" ELSE "lookup",
          ![t].polls = IF recent THEN MaxPolls ELSE 0,
          ![t].definite_only = recent]
    /\ UNCHANGED <<new_payload_cache, el_said>>

\* The bug of a loop that does not look at the clock.
PollWithoutDeadline(t) ==
    /\ task[t].pc = "wait"
    /\ task' = [task EXCEPT ![t].pc = "lookup"]
    /\ UNCHANGED <<new_payload_cache, el_said>>

\* The bug of polling once more than there is time for.
PollOnceMore(t) ==
    /\ task[t].pc = "wait"
    /\ task[t].polls >= 0
    /\ task' = [task EXCEPT ![t].pc = "lookup", ![t].polls = @ - 1]
    /\ UNCHANGED <<new_payload_cache, el_said>>

\* Time is left: look for a definite status.
Poll(t) ==
    /\ task[t].pc = "wait"
    /\ task[t].polls > 0
    /\ task' = [task EXCEPT ![t].pc = "lookup", ![t].polls = @ - 1]
    /\ UNCHANGED <<new_payload_cache, el_said>>

\* The wait is over, perhaps before every poll was made.
TimeUp(t) ==
    /\ task[t].pc = "wait"
    /\ task' = [task EXCEPT ![t].pc = "lookup", ![t].polls = 0,
                            ![t].definite_only = FALSE]
    /\ UNCHANGED <<new_payload_cache, el_said>>

-----------------------------------------------------------------------------
(* get_cached_payload_status and what its callers do with the result.      *)

Cached(t) == LruContains(new_payload_cache, task[t].request.payload.hash)

CachedStatus(t) ==
    new_payload_cache[task[t].request.payload.hash].val.status

LookupHits(t) ==
    /\ Cached(t)
    /\ ~task[t].definite_only \/ IsDefinite(CachedStatus(t))

\* The get renews the entry even if its status is not definite enough.
GetEntry(t) ==
    new_payload_cache' =
        LruGet(new_payload_cache, task[t].request.payload.hash)

LookupAnswers(t) ==
    /\ task[t].pc = "lookup"
    /\ LookupHits(t)
    /\ task' = [task EXCEPT ![t] = Replied(@, CachedStatus(t))]
    /\ GetEntry(t)
    /\ UNCHANGED el_said

\* The bug of a synthetic SYNCING without the check of the versioned hashes.
AfterMissUnchecked(t) ==
    IF t \in ControllerTask
    THEN [task[t] EXCEPT !.pc = "el_call"]
    ELSE IF task[t].definite_only
         THEN [task[t] EXCEPT !.pc = "wait"]
         ELSE Replied(task[t], "SYNCING")

\* A miss sends the controller to the engine and a polling client to sleep; a
\* client out of time is told SYNCING once its versioned hashes are verified.
AfterMiss(t) ==
    IF t \in ControllerTask
    THEN [task[t] EXCEPT !.pc = "el_call"]
    ELSE IF task[t].definite_only
         THEN [task[t] EXCEPT !.pc = "wait"]
         ELSE Replied(task[t], IF verify_versioned_hashes(task[t].request)
                               THEN "SYNCING" ELSE "InvalidRequest")

LookupMisses(t) ==
    /\ task[t].pc = "lookup"
    /\ ~LookupHits(t)
    /\ task' = [task EXCEPT ![t] = AfterMiss(t)]
    /\ GetEntry(t)
    /\ UNCHANGED el_said

-----------------------------------------------------------------------------
(* The controller's call to the engine.                                    *)

\* The engine has not already given payload a definite other status.
NoOtherVerdict(payload, status) ==
    \A said \in el_said :
        said[1] = payload /\ IsDefinite(said[2]) => said[2] = status

EngineAnswers(t, status) ==
    /\ task[t].pc = "el_call"
    /\ ConsistentEngine => NoOtherVerdict(task[t].request.payload, status)
    /\ el_said' = el_said \cup {<<task[t].request.payload, status>>}
    /\ task' = [task EXCEPT ![t].pc = "el_done", ![t].found = status]
    /\ UNCHANGED new_payload_cache

\* The call fails or times out: nothing is cached.
EngineCallFails(t) ==
    /\ Unreliable
    /\ task[t].pc = "el_call"
    /\ task' = [task EXCEPT ![t] = Replied(@, "InvalidRequest")]
    /\ UNCHANGED <<new_payload_cache, el_said>>

\* The bug of leaving an entry that is there alone.
KeepFirstEntry(t) ==
    /\ task[t].pc = "el_done"
    /\ new_payload_cache' =
          LruGetOrInsert(new_payload_cache, new_payload_cache_size,
                 task[t].request.payload.hash,
                 [status |-> task[t].found,
                  block_number |-> task[t].request.payload.number])
    /\ task' = [task EXCEPT ![t].pc = "register"]
    /\ UNCHANGED el_said

\* The put replaces whatever was cached for the hash.
PutNewPayload(t) ==
    /\ task[t].pc = "el_done"
    /\ new_payload_cache' =
          LruPut(new_payload_cache, new_payload_cache_size,
                 task[t].request.payload.hash,
                 [status |-> task[t].found,
                  block_number |-> task[t].request.payload.number])
    /\ task' = [task EXCEPT ![t].pc = "register"]
    /\ UNCHANGED el_said

\* The builder's part is in module PayloadBuilder.
RegisterCanonicalPayload(t) ==
    /\ task[t].pc = "register"
    /\ task' = [task EXCEPT ![t] = Replied(@, @.found)]
    /\ UNCHANGED <<new_payload_cache, el_said>>

\* The peer closes the connection: the server drops the suspended task.
Disconnect(t) ==
    /\ Unreliable
    /\ task[t].pc # "idle"
    /\ task' = [task EXCEPT ![t] = Replied(@, "dropped")]
    /\ UNCHANGED <<new_payload_cache, el_said>>

-----------------------------------------------------------------------------
\* What task t does by itself, once it has a request.
HandlerStep(t) ==
    \/ CheckRecent(t)
    \/ Poll(t)
    \/ TimeUp(t)
    \/ LookupAnswers(t)
    \/ LookupMisses(t)
    \/ PutNewPayload(t)

TaskStep(t) == HandlerStep(t) \/ RegisterCanonicalPayload(t)

EngineCallEnds(t) ==
    \/ \E status \in EngineStatus : EngineAnswers(t, status)
    \/ EngineCallFails(t)

Next ==
    \/ \E t \in ControllerTask, r \in ControllerRequests :
          ControllerReceives(t, r)
    \/ \E t \in ClientTask, r \in ClientRequests : ClientReceives(t, r)
    \/ \E t \in Task : TaskStep(t) \/ EngineCallEnds(t) \/ Disconnect(t)

Spec == Init /\ [][Next]_vars

\* The runtime polls every task that can go on, no task keeps the cache mutex
\* across an await, and an engine call ends at the latest by its timeout.
Fairness ==
    \A t \in Task : WF_vars(TaskStep(t)) /\ WF_vars(EngineCallEnds(t))

FairSpec == Spec /\ Fairness

-----------------------------------------------------------------------------
(* Properties.                                                             *)

\* Type correctness, with the cache within its configured size.
TypeOK ==
    /\ IsLru(new_payload_cache, new_payload_cache_size, Block, CacheEntry)
    /\ task \in [Task -> TaskState]
    /\ el_said \subseteq Payload \X Status

(***************************************************************************)
(* Every payload status a client is sent stands for that very payload.     *)
(* Either the engine gave it for the same payload, not just for the same   *)
(* hash, or it is the SYNCING of handle_new_payload, and then both the     *)
(* block hash and the versioned hashes were right ("Before sending a       *)
(* synthetic SYNCING response we MUST check the block ... and the          *)
(* versioned hashes").  The controller is trusted to send honest payloads. *)
(***************************************************************************)
ClientStatusIsJustified ==
    \A t \in ClientTask :
        LET r == task[t].request
            status == task[t].reply
        IN  task[t].pc = "idle" /\ status \in Status =>
                \/ <<r.payload, status>> \in el_said
                \/ status = "SYNCING" /\ r.payload.honest /\ r.hashes_ok

\* What the engine said of a payload is the answer to every request with it.
Backed(said, request, status) == <<request.payload, status>> \in said

\* Only clients are told SYNCING for want of an answer, and only for a payload
\* whose hashes are right.
Synthesises(t, request) ==
    t \in ClientTask /\ request.payload.honest /\ request.hashes_ok

Oracle ==
    INSTANCE StatusOracle WITH
        Question <- Request, Supports <- Backed, MaySynthesise <- Synthesises,
        said <- el_said,
        question <- [t \in Task |-> task[t].request],
        busy <- [t \in Task |-> task[t].pc # "idle"],
        reply <- [t \in Task |-> task[t].reply]

(***************************************************************************)
(* The handlers implement the oracle: at the moment it is sent, a status   *)
(* is one the engine has given for the payload of that request, for the    *)
(* controller always and for a client unless it is the SYNCING of a        *)
(* verified payload; a request that does not decode or verify gets no      *)
(* status; and every request is answered at most once.                     *)
(***************************************************************************)
ImplementsOracle == Oracle!Spec

\* A request as the Engine API wants it: the method of the payload's version,
\* that version being the one of its slot's fork.
ProperRequest(r) ==
    LET slot == timestamp_to_slot(r.payload.timestamp) IN
    /\ r.wellformed /\ r.payload.honest /\ r.hashes_ok
    /\ r.method = r.payload.version
    /\ r.arity = ParametersOf(r.method)
    /\ slot # NoSlot
    /\ fork_name_at_slot(slot) \notin {"Base", "Altair"}
    /\ r.payload.version = PayloadVersionOf(fork_name_at_slot(slot))

(***************************************************************************)
(* decode_new_payload picks the structure by method and fork.  It never    *)
(* picks one whose missing part makes new_payload_request_from_parts       *)
(* panic, and it never makes a proper request fail to parse or to verify:  *)
(* a client with a proper request is always sent a status.                 *)
(***************************************************************************)
ProperRequestsAreServed ==
    \A t \in Task :
        task[t].pc = "idle" =>
            /\ task[t].reply # "panicked"
            /\ t \in ClientTask /\ ProperRequest(task[t].request) =>
                  task[t].reply \in Status \cup {"dropped"}

(***************************************************************************)
(* Config: only "payloads older than this age receive an instant SYNCING   *)
(* response".  A client that did not wait asked for a block more than      *)
(* new_payload_wait_cutoff below some block the engine was given; with an  *)
(* empty cache or near genesis, where the subtraction saturates, every     *)
(* payload is recent.                                                      *)
(***************************************************************************)
OnlyOldPayloadsSkipTheWait ==
    \A t \in ClientTask :
        LET s == task[t] IN
        s.pc = "idle" /\ s.reply \in Status /\ ~s.is_recent =>
            \E p \in {said[1] : said \in el_said} :
                s.request.payload.number + new_payload_wait_cutoff < p.number

(***************************************************************************)
(* What the controller was told about a payload, clients are told as long  *)
(* as the entry is cached: Config says that a longer wait "will allow the  *)
(* definitive (VALID) response from the execution engine to be returned".  *)
(* It holds when the controller sends one request at a time.  With two at  *)
(* once handle_controller_new_payload may put an earlier SYNCING over the  *)
(* VALID, even if the engine never goes back on a verdict: unlike the fcU  *)
(* cache, this one does not ask what is there.                             *)
(***************************************************************************)
ControllerVerdictIsServed ==
    \A t \in ControllerTask :
        /\ task[t].pc = "idle"
        /\ task[t].reply = "VALID"
        /\ Cached(t)
        => CachedStatus(t) = "VALID"

(***************************************************************************)
(* Every request is answered: the polling loop ends, and so does every     *)
(* engine call.                                                            *)
(***************************************************************************)
RequestsAreAnswered ==
    \A t \in Task : task[t].pc # "idle" ~> task[t].pc = "idle"
=============================================================================
