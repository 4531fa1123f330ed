----------------------- MODULE PayloadBuilderProofs -----------------------
(***************************************************************************)
(* Type correctness of PayloadBuilder, that an id names one payload, which *)
(* getPayload can serve, and that known attributes were built.             *)
(***************************************************************************)
EXTENDS PayloadBuilder, LruCacheProofs, TLAPS

-----------------------------------------------------------------------------
(* The base fee is a natural number wherever the code does not panic.      *)

LEMMA DivIsNat ==
    ASSUME NEW a \in Nat, NEW b \in Nat \ {0}
    PROVE  a \div b \in Nat
BY SMT

LEMMA FeeDeltaIsNat ==
    ASSUME NEW fee \in Nat, NEW delta \in Nat, NEW target \in Nat \ {0}
    PROVE  FeeDelta(fee, delta, target) \in Nat
<1>1. fee * delta \in Nat
  BY SMT
<1>2. (fee * delta) \div target \in Nat
  BY <1>1, DivIsNat
<1> QED
  BY <1>2, DivIsNat DEF FeeDelta, BASE_FEE_MAX_CHANGE_DENOMINATOR

\* The fee never goes below 0, whatever the parent, unless the code panics.
LEMMA BaseFeeIsNat ==
    ASSUME NEW fee \in Nat, NEW used \in Nat, NEW limit \in Nat,
           ~BaseFeePanics(used, limit)
    PROVE  expected_base_fee_per_gas(fee, used, limit) \in Nat
<1> DEFINE target == limit \div ELASTICITY_MULTIPLIER
           rise == FeeDelta(fee, used - target, target)
           fall == FeeDelta(fee, target - used, target)
<1>1. target \in Nat
  BY DivIsNat DEF ELASTICITY_MULTIPLIER
<1>2. target = 0 => used = target
  BY <1>1 DEF BaseFeePanics
<1> HIDE DEF target
<1>3. used > target => rise \in Nat
  <2> SUFFICES ASSUME used > target PROVE rise \in Nat
    OBVIOUS
  <2>1. used - target \in Nat /\ target \in Nat \ {0}
    BY <1>1, <1>2
  <2> QED
    BY <2>1, FeeDeltaIsNat
<1>4. used < target => fall \in Nat
  <2> SUFFICES ASSUME used < target PROVE fall \in Nat
    OBVIOUS
  <2>1. target - used \in Nat /\ target \in Nat \ {0}
    BY <1>1
  <2> QED
    BY <2>1, FeeDeltaIsNat
<1>5. expected_base_fee_per_gas(fee, used, limit) =
        IF used = target THEN fee
        ELSE IF used > target
             THEN fee + (IF rise < 1 THEN 1 ELSE rise)
             ELSE IF fall > fee THEN 0 ELSE fee - fall
  BY DEF expected_base_fee_per_gas, target
<1> HIDE DEF rise, fall
<1> QED
  BY <1>1, <1>3, <1>4, <1>5

-----------------------------------------------------------------------------
(* The caches' operations.                                                 *)

\* A get, hit or miss, keeps a cache a cache, with the same keys and values.
LEMMA LruGetIsLru ==
    ASSUME NEW c, NEW cap \in Nat, NEW K, NEW V, NEW k, IsLru(c, cap, K, V)
    PROVE  /\ IsLru(LruGet(c, k), cap, K, V)
           /\ DOMAIN LruGet(c, k) = DOMAIN c
           /\ \A j \in DOMAIN c : LruGet(c, k)[j].val = c[j].val
<1>1. CASE k \in DOMAIN c
  <2>1. LruGet(c, k) = LruTouch(c, k)
    BY <1>1 DEF LruGet
  <2>2. /\ IsLru(LruTouch(c, k), cap, K, V)
        /\ DOMAIN LruTouch(c, k) = DOMAIN c
        /\ \A j \in DOMAIN c : LruTouch(c, k)[j].val = c[j].val
    BY <1>1, LruTouchIsLru
  <2> QED
    BY <2>1, <2>2
<1>2. CASE k \notin DOMAIN c
  BY <1>2 DEF LruGet
<1> QED
  BY <1>1, <1>2

-----------------------------------------------------------------------------
(* The invariant.                                                          *)

\* payload_info holds what the blocks' own payloads say.
InfoInv == \A b \in DOMAIN payload_info : payload_info[b].val = BlockInfo[b]

(***************************************************************************)
(* Ids are given out in order: every stored payload and every promise is   *)
(* below the next id, and the id of every cached key was promised for it.  *)
(***************************************************************************)
IdInv ==
    /\ \A id \in DOMAIN payloads : id < next_payload_id
    /\ \A p \in promised : p[2] < next_payload_id
    /\ \A key \in DOMAIN payload_attributes :
          <<key, payload_attributes[key].val>> \in promised

\* Every stored payload is of a fork that getPayload has a response for.
ForkInv ==
    \A id \in DOMAIN payloads :
        payloads[id].val.fork \in {"Bellatrix", "Capella", "Deneb", "Electra"}

\* Every known id has its payload unless payloads has been filled since; a map
\* that has been filled stays full.
BuiltInv ==
    \A key \in DOMAIN payload_attributes :
        \/ payload_attributes[key].val \in DOMAIN payloads
        \/ LruFull(payloads, payload_builder_cache_size)

BuilderInv ==
    /\ TypeOK
    /\ InfoInv
    /\ IdInv
    /\ IdsNameOnePayload
    /\ ForkInv
    /\ BuiltInv

LEMMA BuilderInvInit == Init => BuilderInv
<1> SUFFICES ASSUME Init PROVE BuilderInv
  OBVIOUS
<1>1. DOMAIN LruEmpty = {}
  BY DEF LruEmpty
<1>2. TypeOK
  BY LruEmptyIsLru, PayloadBuilderAssumption DEF Init, TypeOK
<1> QED
  BY <1>1, <1>2
  DEF Init, BuilderInv, InfoInv, IdInv, IdsNameOnePayload, ForkInv, BuiltInv

\* What register_attributes builds for a key on a tracked parent.
LEMMA BuildIsPayload ==
    ASSUME BuilderInv, NEW key \in Key, ParentFound(key), ~ParentPanics(key),
           Buildable(key)
    PROVE  LET payload == Build(key, payload_info[key.parent_hash].val) IN
           /\ payload \in Payload
           /\ payload.parent_hash = key.parent_hash
           /\ payload.attributes = key.attributes
           /\ payload.block_number =
                 BlockInfo[key.parent_hash].block_number + 1
           /\ payload.fork \in {"Bellatrix", "Capella", "Deneb", "Electra"}
<1> DEFINE parent == payload_info[key.parent_hash].val
           fee == expected_base_fee_per_gas(parent.base_fee_per_gas,
                      parent.gas_used, parent.gas_limit)
<1>1. parent = BlockInfo[key.parent_hash] /\ parent \in Info
  BY PayloadBuilderAssumption
  DEF BuilderInv, InfoInv, ParentFound, LruContains, Key
<1>2. ~BaseFeePanics(parent.gas_used, parent.gas_limit)
  BY DEF ParentPanics
<1>3. ForkOf(key) \in {"Bellatrix", "Capella", "Deneb", "Electra"}
  BY DEF Buildable
<1>4. {"Bellatrix", "Capella", "Deneb", "Electra"} \subseteq Fork
  <2>1. /\ "Bellatrix" = ForkName[3] /\ "Capella" = ForkName[4]
        /\ "Deneb" = ForkName[5] /\ "Electra" = ForkName[6]
    BY DEF ForkName
  <2> QED
    BY <2>1 DEF Fork
<1> HIDE DEF parent
<1>5. fee \in Nat
  BY <1>1, <1>2, BaseFeeIsNat DEF Info
<1>6. parent.block_number + 1 \in Nat
  BY <1>1 DEF Info
<1>7. Build(key, parent) =
        [parent_hash |-> key.parent_hash, attributes |-> key.attributes,
         fork |-> ForkOf(key), block_number |-> parent.block_number + 1,
         base_fee_per_gas |-> fee]
  BY DEF Build
<1> HIDE DEF fee
<1> QED
  BY <1>1, <1>3, <1>4, <1>5, <1>6, <1>7 DEF Key, Payload, parent

\* The early return of register_attributes and get_existing_payload_id on a
\* hit send an id that was promised for the key before.
LEMMA RenewKeepsInv ==
    ASSUME BuilderInv, NEW key \in DOMAIN payload_attributes,
           payload_attributes' = LruTouch(payload_attributes, key),
           promised' = promised \cup {<<key, payload_attributes[key].val>>},
           UNCHANGED <<next_payload_id, payload_info, payloads>>
    PROVE  BuilderInv'
<1> USE PayloadBuilderAssumption
<1>1. promised' = promised
  BY DEF BuilderInv, IdInv
<1>2. /\ IsLru(payload_attributes', payload_builder_cache_size, Key, Nat)
      /\ DOMAIN payload_attributes' = DOMAIN payload_attributes
      /\ \A k \in DOMAIN payload_attributes :
            payload_attributes'[k].val = payload_attributes[k].val
  BY LruTouchIsLru DEF BuilderInv, TypeOK
<1> QED
  BY <1>1, <1>2
  DEF BuilderInv, TypeOK, InfoInv, IdInv, IdsNameOnePayload, ForkInv, BuiltInv

\* payload_info may be renewed or grow by the truth; nothing else depends on it.
LEMMA InfoMayChange ==
    ASSUME BuilderInv,
           IsLru(payload_info', payload_builder_cache_size, Block, Info),
           InfoInv',
           UNCHANGED <<next_payload_id, payload_attributes, payloads, promised>>
    PROVE  BuilderInv'
BY DEF BuilderInv, TypeOK, IdInv, IdsNameOnePayload, ForkInv, BuiltInv

\* The parent is renewed in payload_info.
LEMMA ParentRenewed ==
    ASSUME BuilderInv, NEW key \in Key, ParentFound(key)
    PROVE  /\ IsLru(payload_info', payload_builder_cache_size, Block, Info)
           /\ InfoInv'
<1>1. /\ IsLru(payload_info', payload_builder_cache_size, Block, Info)
      /\ DOMAIN payload_info' = DOMAIN payload_info
      /\ \A b \in DOMAIN payload_info :
            payload_info'[b].val = payload_info[b].val
  <2>1. /\ IsLru(payload_info, payload_builder_cache_size, Block, Info)
        /\ payload_builder_cache_size \in Nat
    BY PayloadBuilderAssumption DEF BuilderInv, TypeOK
  <2>2. /\ key.parent_hash \in DOMAIN payload_info
        /\ payload_info' = LruTouch(payload_info, key.parent_hash)
    BY DEF ParentFound, LruContains
  <2> QED
    BY <2>1, <2>2, LruTouchIsLru
<1> QED
  BY <1>1 DEF BuilderInv, InfoInv

\* A new payload takes the next id, which no promise and no payload has.
LEMMA BuildPayloadKeepsInv ==
    ASSUME BuilderInv, NEW key \in Key, BuildPayload(key)
    PROVE  BuilderInv'
<1> USE PayloadBuilderAssumption
<1> DEFINE payload == Build(key, payload_info[key.parent_hash].val)
           n == next_payload_id
<1>1. /\ payload \in Payload
      /\ payload.parent_hash = key.parent_hash
      /\ payload.attributes = key.attributes
      /\ payload.block_number = BlockInfo[key.parent_hash].block_number + 1
      /\ payload.fork \in {"Bellatrix", "Capella", "Deneb", "Electra"}
  BY BuildIsPayload DEF BuildPayload
<1>2. /\ n \in Nat /\ n < MaxPayloadId /\ next_payload_id' = n + 1
      /\ payload_attributes' = LruPut(payload_attributes,
            payload_builder_cache_size, key, n)
      /\ payloads' = LruPut(payloads, payload_builder_cache_size, n, payload)
      /\ promised' = promised \cup {<<key, n>>}
  BY DEF BuildPayload, Store, BuilderInv, TypeOK
<1> HIDE DEF payload
<1>3. /\ IsLru(payload_attributes', payload_builder_cache_size, Key, Nat)
      /\ DOMAIN payload_attributes' \subseteq DOMAIN payload_attributes \cup {key}
      /\ payload_attributes'[key].val = n
      /\ \A k \in DOMAIN payload_attributes' \ {key} :
            payload_attributes'[k].val = payload_attributes[k].val
  <2>1. /\ IsLru(payload_attributes, payload_builder_cache_size, Key, Nat)
        /\ payload_builder_cache_size \in Nat \ {0}
    BY DEF BuilderInv, TypeOK
  <2>2. n \in Nat
    BY <1>2
  <2> DEFINE d == LruPut(payload_attributes, payload_builder_cache_size, key, n)
  <2>3. /\ IsLru(d, payload_builder_cache_size, Key, Nat)
        /\ DOMAIN d \subseteq DOMAIN payload_attributes \cup {key}
        /\ d[key].val = n
        /\ \A j \in DOMAIN d \ {key} : d[j].val = payload_attributes[j].val
    BY <2>1, <2>2, LruPutIsLru
  <2>4. payload_attributes' = d
    BY <1>2
  <2> HIDE DEF d
  <2> QED
    BY <2>3, <2>4
<1>4. /\ IsLru(payloads', payload_builder_cache_size, Nat, Payload)
      /\ DOMAIN payloads' \subseteq DOMAIN payloads \cup {n}
      /\ payloads'[n].val = payload
      /\ \A id \in DOMAIN payloads' \ {n} : payloads'[id].val = payloads[id].val
  <2>1. /\ IsLru(payloads, payload_builder_cache_size, Nat, Payload)
        /\ payload_builder_cache_size \in Nat \ {0}
    BY DEF BuilderInv, TypeOK
  <2>2. n \in Nat /\ payload \in Payload
    BY <1>1, <1>2
  <2> DEFINE d == LruPut(payloads, payload_builder_cache_size, n, payload)
  <2>3. /\ IsLru(d, payload_builder_cache_size, Nat, Payload)
        /\ DOMAIN d \subseteq DOMAIN payloads \cup {n}
        /\ d[n].val = payload
        /\ \A j \in DOMAIN d \ {n} : d[j].val = payloads[j].val
    BY <2>1, <2>2, LruPutIsLru
  <2>4. payloads' = d
    BY <1>2
  <2> HIDE DEF d
  <2> QED
    BY <2>3, <2>4
<1>5. IsLru(payload_info', payload_builder_cache_size, Block, Info) /\ InfoInv'
  BY ParentRenewed DEF BuildPayload
<1>6. TypeOK'
  BY <1>2, <1>3, <1>4, <1>5 DEF BuilderInv, TypeOK
<1>7. IdInv'
  <2>1. \A id \in DOMAIN payloads : id \in Nat /\ id < n
    BY DEF BuilderInv, IdInv, TypeOK, IsLru
  <2>2. \A p \in promised : p[2] \in Nat /\ p[2] < n
    BY DEF BuilderInv, IdInv, TypeOK
  <2>3. \A k \in DOMAIN payload_attributes' :
           <<k, payload_attributes'[k].val>> \in promised'
    BY <1>2, <1>3 DEF BuilderInv, IdInv
  <2> QED
    BY <1>2, <1>4, <2>1, <2>2, <2>3 DEF IdInv
<1>8. IdsNameOnePayload'
  <2> SUFFICES ASSUME NEW p \in promised', p[2] \in DOMAIN payloads'
               PROVE  LET q == payloads'[p[2]].val IN
                      /\ q.parent_hash = p[1].parent_hash
                      /\ q.attributes = p[1].attributes
                      /\ q.block_number =
                            BlockInfo[p[1].parent_hash].block_number + 1
    BY DEF IdsNameOnePayload, LruContains
  <2>1. CASE p = <<key, n>>
    BY <1>1, <1>4, <2>1
  <2>2. CASE p \in promised
    <3>1. p[2] \in Nat /\ p[2] < n
      BY <2>2 DEF BuilderInv, IdInv, TypeOK
    <3>2. p[2] \in DOMAIN payloads /\ payloads'[p[2]].val = payloads[p[2]].val
      BY <1>2, <1>4, <3>1
    <3> QED
      BY <2>2, <3>2 DEF BuilderInv, IdsNameOnePayload, LruContains
  <2> QED
    BY <1>2, <2>1, <2>2
<1>9. ForkInv'
  BY <1>1, <1>4 DEF BuilderInv, ForkInv
<1>10. BuiltInv'
  <2>1. /\ IsLru(payloads, payload_builder_cache_size, Nat, Payload)
        /\ n \notin DOMAIN payloads
    BY <1>2 DEF BuilderInv, TypeOK, IdInv
  <2>2. /\ LruFull(payloads, payload_builder_cache_size) =>
              LruFull(payloads', payload_builder_cache_size)
        /\ \A id \in DOMAIN payloads \ DOMAIN payloads' :
              LruFull(payloads, payload_builder_cache_size)
    BY <1>2, <2>1, LruPutFull
  <2>3. n \in DOMAIN payloads'
    <3>1. n \in Nat /\ payload \in Payload
      BY <1>1, <1>2
    <3>2. n \in DOMAIN LruPut(payloads, payload_builder_cache_size, n, payload)
      BY <2>1, <3>1, LruPutIsLru
    <3> QED
      BY <1>2, <3>2
  <2> QED
    BY <1>3, <2>2, <2>3 DEF BuilderInv, BuiltInv
<1> QED
  BY <1>5, <1>6, <1>7, <1>8, <1>9, <1>10 DEF BuilderInv

LEMMA RegisterAttributesKeepsInv ==
    ASSUME BuilderInv, NEW key \in Key, NEW outcome,
           register_attributes(key, outcome)
    PROVE  BuilderInv'
<1>1. CASE AlreadyKnown(key)
  BY <1>1, RenewKeepsInv DEF AlreadyKnown, LruContains
<1>2. CASE BuildPayload(key)
  BY <1>2, BuildPayloadKeepsInv
<1>3. CASE InvalidTimestamp(key) \/ UnknownParent(key)
  BY <1>3
  DEF InvalidTimestamp, UnknownParent, vars, BuilderInv, TypeOK, InfoInv,
      IdInv, IdsNameOnePayload, ForkInv, BuiltInv
<1>4. CASE CannotBuild(key) \/ BuildPanics(key)
  BY <1>4, ParentRenewed, InfoMayChange DEF CannotBuild, BuildPanics
<1> QED
  BY <1>1, <1>2, <1>3, <1>4 DEF register_attributes

LEMMA GetExistingPayloadIdKeepsInv ==
    ASSUME BuilderInv, NEW key \in Key, get_existing_payload_id(key)
    PROVE  BuilderInv'
<1>1. CASE key \in DOMAIN payload_attributes
  BY <1>1, RenewKeepsInv DEF get_existing_payload_id, LruContains, LruGet
<1>2. CASE key \notin DOMAIN payload_attributes
  BY <1>2
  DEF get_existing_payload_id, LruContains, LruGet, BuilderInv, TypeOK,
      InfoInv, IdInv, IdsNameOnePayload, ForkInv, BuiltInv
<1> QED
  BY <1>1, <1>2

LEMMA RegisterCanonicalPayloadKeepsInv ==
    ASSUME BuilderInv, NEW block \in Block, NEW status,
           register_canonical_payload(block, status)
    PROVE  BuilderInv'
<1> USE PayloadBuilderAssumption
<1>1. CASE ~Trackable(status)
  BY <1>1, InfoMayChange
  DEF register_canonical_payload, BuilderInv, TypeOK, InfoInv
<1>2. CASE Trackable(status) /\ block \in DOMAIN payload_info
  <2>1. payload_info' = LruTouch(payload_info, block)
    BY <1>2 DEF register_canonical_payload, LruGetOrInsert
  <2>2. /\ IsLru(payload_info', payload_builder_cache_size, Block, Info)
        /\ DOMAIN payload_info' = DOMAIN payload_info
        /\ \A b \in DOMAIN payload_info :
              payload_info'[b].val = payload_info[b].val
    BY <1>2, <2>1, LruTouchIsLru DEF BuilderInv, TypeOK
  <2>3. InfoInv'
    BY <2>2 DEF BuilderInv, InfoInv
  <2> QED
    BY <2>2, <2>3, InfoMayChange DEF register_canonical_payload
<1>3. CASE Trackable(status) /\ block \notin DOMAIN payload_info
  <2>1. payload_info' = LruPut(payload_info, payload_builder_cache_size, block,
                               BlockInfo[block])
    BY <1>3 DEF register_canonical_payload, LruGetOrInsert
  <2>2. BlockInfo[block] \in Info
    OBVIOUS
  <2>3. /\ IsLru(payload_info', payload_builder_cache_size, Block, Info)
        /\ DOMAIN payload_info' \subseteq DOMAIN payload_info \cup {block}
        /\ payload_info'[block].val = BlockInfo[block]
        /\ \A b \in DOMAIN payload_info' \ {block} :
              payload_info'[b].val = payload_info[b].val
    <3>1. /\ IsLru(payload_info, payload_builder_cache_size, Block, Info)
          /\ payload_builder_cache_size \in Nat \ {0}
      BY DEF BuilderInv, TypeOK
    <3> DEFINE d == LruPut(payload_info, payload_builder_cache_size, block,
                           BlockInfo[block])
    <3>2. /\ IsLru(d, payload_builder_cache_size, Block, Info)
          /\ DOMAIN d \subseteq DOMAIN payload_info \cup {block}
          /\ d[block].val = BlockInfo[block]
          /\ \A b \in DOMAIN d \ {block} : d[b].val = payload_info[b].val
      BY <2>2, <3>1, LruPutIsLru
    <3>3. payload_info' = d
      BY <2>1
    <3> HIDE DEF d
    <3> QED
      BY <3>2, <3>3
  <2>4. InfoInv'
    BY <2>3 DEF BuilderInv, InfoInv
  <2> QED
    BY <2>3, <2>4, InfoMayChange DEF register_canonical_payload
<1> QED
  BY <1>1, <1>2, <1>3

LEMMA GetPayloadKeepsInv ==
    ASSUME BuilderInv, NEW id, get_payload(id)
    PROVE  BuilderInv'
<1>1. /\ IsLru(payloads', payload_builder_cache_size, Nat, Payload)
      /\ DOMAIN payloads' = DOMAIN payloads
      /\ \A i \in DOMAIN payloads : payloads'[i].val = payloads[i].val
  <2>1. /\ IsLru(payloads, payload_builder_cache_size, Nat, Payload)
        /\ payload_builder_cache_size \in Nat
    BY PayloadBuilderAssumption DEF BuilderInv, TypeOK
  <2>2. payloads' = LruGet(payloads, id)
    BY DEF get_payload
  <2> QED
    BY <2>1, <2>2, LruGetIsLru
<1>2. BuiltInv'
  <2>1. LruFull(payloads, payload_builder_cache_size) =>
           LruFull(payloads', payload_builder_cache_size)
    BY LruTouchFull, PayloadBuilderAssumption
    DEF get_payload, LruGet, BuilderInv, TypeOK
  <2> QED
    BY <1>1, <2>1 DEF get_payload, BuilderInv, BuiltInv
<1> QED
  BY <1>1, <1>2
  DEF get_payload, BuilderInv, TypeOK, InfoInv, IdInv, IdsNameOnePayload,
      ForkInv, LruContains

LEMMA BuilderInvStep == BuilderInv /\ [Next]_vars => BuilderInv'
<1> SUFFICES ASSUME BuilderInv, [Next]_vars PROVE BuilderInv'
  OBVIOUS
<1>1. CASE UNCHANGED vars
  BY <1>1
  DEF vars, BuilderInv, TypeOK, InfoInv, IdInv, IdsNameOnePayload, ForkInv,
      BuiltInv
<1>2. CASE Next
  BY <1>2, RegisterAttributesKeepsInv, GetExistingPayloadIdKeepsInv,
     RegisterCanonicalPayloadKeepsInv, GetPayloadKeepsInv DEF Next
<1> QED
  BY <1>1, <1>2

-----------------------------------------------------------------------------
(* Theorems.                                                               *)

\* Type correctness for every instance: whatever is asked of the builder, its
\* three caches stay well-formed LRU maps within payload_builder_cache_size,
\* and the base fee it computes is never negative.
THEOREM BuilderTypeCorrect == Spec => []TypeOK
<1>1. BuilderInv => TypeOK
  BY DEF BuilderInv
<1> QED
  BY <1>1, BuilderInvInit, BuilderInvStep, PTL DEF Spec

\* IdsNameOnePayload for every instance: with any blocks, attributes, cache
\* size and sequence of calls to payload_builder.rs, an id that was sent for a
\* parent and attributes never yields a payload for anything else.
THEOREM IdsAreUnique == Spec => []IdsNameOnePayload
<1>1. BuilderInv => IdsNameOnePayload
  BY DEF BuilderInv
<1> QED
  BY <1>1, BuilderInvInit, BuilderInvStep, PTL DEF Spec

\* StoredPayloadsCanBeServed for every fork schedule: handle_get_payload never
\* reaches its panic on a payload that register_attributes has stored.
THEOREM PayloadsAreServable == Spec => []StoredPayloadsCanBeServed
<1>1. BuilderInv => StoredPayloadsCanBeServed
  BY DEF BuilderInv, ForkInv, StoredPayloadsCanBeServed, handle_get_payload,
         ResponseForm, LruContains
<1> QED
  BY <1>1, BuilderInvInit, BuilderInvStep, PTL DEF Spec

\* KnownAttributesWereBuilt for every instance: however the two maps are renewed
\* and whichever steps of register_attributes fail, an id that it still knows
\* has its payload, unless later payloads have filled the map.
THEOREM AttributesWereBuilt == Spec => []KnownAttributesWereBuilt
<1>1. BuilderInv => KnownAttributesWereBuilt
  <2> SUFFICES ASSUME BuilderInv PROVE KnownAttributesWereBuilt
    OBVIOUS
  <2>1. LruFull(payloads, payload_builder_cache_size) =>
           Cardinality(DOMAIN payloads) = payload_builder_cache_size
    BY LruFullCardinality, PayloadBuilderAssumption DEF BuilderInv, TypeOK
  <2> QED
    BY <2>1 DEF BuilderInv, BuiltInv, KnownAttributesWereBuilt, LruContains
<1> QED
  BY <1>1, BuilderInvInit, BuilderInvStep, PTL DEF Spec
=============================================================================
