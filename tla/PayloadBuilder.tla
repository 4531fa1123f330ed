-------------------------- MODULE PayloadBuilder --------------------------
(***************************************************************************)
(* The dummy payload builder (src/payload_builder.rs).  Each operation     *)
(* takes the one payload_builder mutex and has no other await, so each is  *)
(* one action.                                                             *)
(***************************************************************************)
EXTENDS Types, LruCache, ChainSpec, BaseFee

CONSTANTS
    Block,                       \* hashes of the blocks the engine knows of
    BlockInfo,                   \* the PayloadInfo of each of them
    Attributes,                  \* decoded attributes the controller sends
    EngineStatus,                \* the statuses the engine may answer
    payload_builder_cache_size,
    MaxPayloadId                 \* bound on the payloads built

Info == [block_number : Nat, base_fee_per_gas : Nat, gas_used : Nat,
         gas_limit : Nat]

ASSUME PayloadBuilderAssumption ==
    /\ BlockInfo \in [Block -> Info]
    /\ Attributes \subseteq PayloadAttributes(Nat)
    /\ EngineStatus \subseteq Status
    /\ payload_builder_cache_size \in Nat \ {0}
    /\ MaxPayloadId \in Nat

VARIABLES
    next_payload_id,
    payload_attributes,  \* LRU: Key -> payload id
    payload_info,        \* LRU: Block -> Info
    payloads,            \* LRU: payload id -> Payload
    promised             \* history: every <<key, id>> sent in a reply

vars == <<next_payload_id, payload_attributes, payload_info, payloads,
          promised>>

\* What a payload is asked for with.
Key == [parent_hash : Block, attributes : Attributes]

\* The dummy payload: the attributes it was built from, and what the builder
\* derives.  Its other fields are constants or copies of the parent's.
Payload == [parent_hash : Block, attributes : Attributes, fork : Fork,
            block_number : Nat, base_fee_per_gas : Nat]

Init ==
    /\ next_payload_id = 0
    /\ payload_attributes = LruEmpty
    /\ payload_info = LruEmpty
    /\ payloads = LruEmpty
    /\ promised = {}

-----------------------------------------------------------------------------
(* register_attributes.                                                    *)

SlotOf(key) == timestamp_to_slot(key.attributes.timestamp)

ForkOf(key) == fork_name_at_slot(SlotOf(key))

\* The bug of building whatever the fork.
BuildableAtAnyFork(key) == TRUE

\* From Capella on the withdrawals are needed, which V1 attributes lack.
Buildable(key) ==
    \/ ForkOf(key) = "Bellatrix"
    \/ /\ ForkOf(key) \in {"Capella", "Deneb", "Electra"}
       /\ key.attributes.version >= 2

Build(key, parent) ==
    [parent_hash |-> key.parent_hash, attributes |-> key.attributes,
     fork |-> ForkOf(key), block_number |-> parent.block_number + 1,
     base_fee_per_gas |->
        expected_base_fee_per_gas(parent.base_fee_per_gas, parent.gas_used,
                                  parent.gas_limit)]

\* A timestamp before genesis is an error before the lock is taken.
InvalidTimestamp(key) ==
    /\ SlotOf(key) = NoSlot
    /\ UNCHANGED vars

\* "Return early if payload already known/built": the same id again.  Only
\* payload_attributes is renewed.
AlreadyKnown(key) ==
    /\ SlotOf(key) # NoSlot
    /\ LruContains(payload_attributes, key)
    /\ payload_attributes' = LruTouch(payload_attributes, key)
    /\ promised' = promised \cup {<<key, payload_attributes[key].val>>}
    /\ UNCHANGED <<next_payload_id, payload_info, payloads>>

UnknownParent(key) ==
    /\ SlotOf(key) # NoSlot
    /\ ~LruContains(payload_attributes, key)
    /\ ~LruContains(payload_info, key.parent_hash)
    /\ UNCHANGED vars

\* The parent is renewed in payload_info whatever comes of it.
ParentFound(key) ==
    /\ SlotOf(key) # NoSlot
    /\ ~LruContains(payload_attributes, key)
    /\ LruContains(payload_info, key.parent_hash)
    /\ payload_info' = LruTouch(payload_info, key.parent_hash)

ParentPanics(key) ==
    LET parent == payload_info[key.parent_hash].val
    IN  BaseFeePanics(parent.gas_used, parent.gas_limit)

\* The bug of filing the attributes before the payload is built.
BuildPanicsAfterPut(key) ==
    /\ ParentFound(key)
    /\ ParentPanics(key)
    /\ payload_attributes' = LruPut(payload_attributes,
          payload_builder_cache_size, key, next_payload_id)
    /\ UNCHANGED <<next_payload_id, payloads, promised>>

\* The base fee panics, which drops the guard and leaves the rest as it was.
BuildPanics(key) ==
    /\ ParentFound(key)
    /\ ParentPanics(key)
    /\ UNCHANGED <<next_payload_id, payload_attributes, payloads, promised>>

\* An unsupported fork, or missing withdrawals.
CannotBuild(key) ==
    /\ ParentFound(key)
    /\ ~ParentPanics(key)
    /\ ~Buildable(key)
    /\ UNCHANGED <<next_payload_id, payload_attributes, payloads, promised>>

\* The bug of not moving on to the next id.
StoreWithoutIncrement(key) ==
    LET payload == Build(key, payload_info[key.parent_hash].val) IN
    /\ payload_attributes' = LruPut(payload_attributes,
          payload_builder_cache_size, key, next_payload_id)
    /\ payloads' = LruPut(payloads, payload_builder_cache_size,
                          next_payload_id, payload)
    /\ next_payload_id' = next_payload_id

\* The bug of a map without a bound for the payloads.
StoreUnbounded(key) ==
    LET payload == Build(key, payload_info[key.parent_hash].val) IN
    /\ payload_attributes' = LruPut(payload_attributes,
          payload_builder_cache_size, key, next_payload_id)
    /\ payloads' = LruPut(payloads, MaxPayloadId + 1, next_payload_id, payload)
    /\ next_payload_id' = next_payload_id + 1

Store(key) ==
    LET payload == Build(key, payload_info[key.parent_hash].val) IN
    /\ payload_attributes' = LruPut(payload_attributes,
          payload_builder_cache_size, key, next_payload_id)
    /\ payloads' = LruPut(payloads, payload_builder_cache_size,
                          next_payload_id, payload)
    /\ next_payload_id' = next_payload_id + 1

BuildPayload(key) ==
    /\ next_payload_id < MaxPayloadId
    /\ ParentFound(key)
    /\ ~ParentPanics(key)
    /\ Buildable(key)
    /\ Store(key)
    /\ promised' = promised \cup {<<key, next_payload_id>>}

register_attributes(key, outcome) ==
    \/ /\ outcome = "ok"
       /\ AlreadyKnown(key) \/ BuildPayload(key)
    \/ /\ outcome = "InvalidPayloadAttributes"
       /\ InvalidTimestamp(key) \/ UnknownParent(key) \/ CannotBuild(key)
    \/ /\ outcome = "dropped"
       /\ BuildPanics(key)

-----------------------------------------------------------------------------
(* The other operations.                                                   *)

\* A client's attributes: a hit renews the key, a miss is an error.
get_existing_payload_id(key) ==
    /\ payload_attributes' = LruGet(payload_attributes, key)
    /\ promised' = IF LruContains(payload_attributes, key)
                   THEN promised \cup {<<key, payload_attributes[key].val>>}
                   ELSE promised
    /\ UNCHANGED <<next_payload_id, payload_info, payloads>>

\* The bug of tracking whatever the engine answers.
TrackAnyStatus(status) == TRUE

\* The statuses register_canonical_payload does not return early on.
Trackable(status) == status \notin {"INVALID", "INVALID_BLOCK_HASH"}

\* After the engine has answered newPayload.  get_or_insert keeps an entry
\* that is already there.
register_canonical_payload(block, status) ==
    /\ payload_info' =
          IF Trackable(status)
          THEN LruGetOrInsert(payload_info, payload_builder_cache_size,
                              block, BlockInfo[block])
          ELSE payload_info
    /\ UNCHANGED <<next_payload_id, payload_attributes, payloads, promised>>

\* A hit renews the payload.
get_payload(id) ==
    /\ payloads' = LruGet(payloads, id)
    /\ UNCHANGED <<next_payload_id, payload_attributes, payload_info,
                   promised>>

\* The response a payload is put into.  From Fulu on there is none.
ResponseForm(fork) ==
    CASE fork = "Bellatrix" -> "JsonGetPayloadResponseV1"
      [] fork = "Capella"   -> "JsonGetPayloadResponseV2"
      [] fork = "Deneb"     -> "JsonGetPayloadResponseV3"
      [] fork = "Electra"   -> "JsonGetPayloadResponseV4"
      [] OTHER              -> "panic"

\* What engine_getPayload with id is answered once get_payload has looked.
handle_get_payload(id) ==
    IF LruContains(payloads, id) THEN ResponseForm(payloads[id].val.fork)
    ELSE "UnknownPayload"

-----------------------------------------------------------------------------
Next ==
    \/ \E key \in Key, outcome \in BuilderOutcome :
          register_attributes(key, outcome)
    \/ \E key \in Key : get_existing_payload_id(key)
    \/ \E block \in Block, status \in EngineStatus :
          register_canonical_payload(block, status)
    \/ \E id \in 0 .. MaxPayloadId : get_payload(id)

Spec == Init /\ [][Next]_vars

-----------------------------------------------------------------------------
(* Properties.                                                             *)

\* Type correctness, with every cache within the configured size.
TypeOK ==
    /\ next_payload_id \in 0 .. MaxPayloadId
    /\ IsLru(payload_attributes, payload_builder_cache_size, Key, Nat)
    /\ IsLru(payload_info, payload_builder_cache_size, Block, Info)
    /\ IsLru(payloads, payload_builder_cache_size, Nat, Payload)
    /\ promised \subseteq Key \X Nat

(***************************************************************************)
(* An id stands for one payload for ever.  Whatever was built, renewed and *)
(* evicted since a node was given an id for a parent and attributes,       *)
(* getPayload with that id yields the payload of that parent and those     *)
(* attributes, numbered one above the parent, or an error.                 *)
(***************************************************************************)
IdsNameOnePayload ==
    \A p \in promised :
        LruContains(payloads, p[2]) =>
            LET payload == payloads[p[2]].val IN
            /\ payload.parent_hash = p[1].parent_hash
            /\ payload.attributes = p[1].attributes
            /\ payload.block_number =
                  BlockInfo[p[1].parent_hash].block_number + 1

\* handle_get_payload panics on a payload later than Electra.
\* register_attributes stores none, whatever the timestamps asked for, so that
\* no id it has given out makes getPayload panic.
StoredPayloadsCanBeServed ==
    \A id \in DOMAIN payloads : handle_get_payload(id) # "panic"

(***************************************************************************)
(* register_attributes returns early "if payload already known/built".  So *)
(* attributes are known only once their payload is built: its id is there, *)
(* or has been pushed out of a full map by later payloads, which the two   *)
(* maps, renewed by different calls, need not do to the same entries.  An  *)
(* error or a panic on the way leaves no id behind that never had a        *)
(* payload.                                                                *)
(***************************************************************************)
KnownAttributesWereBuilt ==
    \A key \in DOMAIN payload_attributes :
        \/ LruContains(payloads, payload_attributes[key].val)
        \/ Cardinality(DOMAIN payloads) = payload_builder_cache_size
=============================================================================
