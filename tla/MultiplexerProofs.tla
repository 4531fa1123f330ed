------------------------- MODULE MultiplexerProofs -------------------------
(***************************************************************************)
(* The parts of Multiplexer keep what is proved of each of them alone, and *)
(* together they build only on blocks the engine has answered for.         *)
(***************************************************************************)
EXTENDS Multiplexer, PayloadBuilderProofs

-----------------------------------------------------------------------------
(* The theorems about the handlers, for the handlers of Multiplexer.       *)

FcuProofs ==
    INSTANCE ForkchoiceUpdatedProofs WITH
        ControllerTask <- FcuControllerTask, ClientTask <- FcuClientTask,
        ControllerRequests <- FcuControllerRequests,
        ClientRequests <- FcuClientRequests,
        EngineStatus <- FcuEngineStatus,
        task <- fcu_task, el_said <- fcu_said

NpProofs ==
    INSTANCE NewPayloadProofs WITH
        ControllerTask <- NpControllerTask, ClientTask <- NpClientTask,
        ControllerRequests <- NpControllerRequests,
        ClientRequests <- NpClientRequests,
        task <- np_task, el_said <- np_said

\* The constants are what ForkchoiceUpdated assumes of them.
LEMMA FcuAssumptions ==
    /\ Genesis \in Block
    /\ FcuControllerTask \cap FcuClientTask = {}
    /\ FcuControllerRequests \subseteq FcuProofs!Request
    /\ FcuClientRequests \subseteq FcuProofs!Request
    /\ FcuEngineStatus \subseteq FcuProofs!Status
    /\ fcu_cache_size \in Nat \ {0}
    /\ justified_block_cache_size \in Nat \ {0}
    /\ finalized_block_cache_size \in Nat
    /\ fcu_matching \in FcuProofs!FcuMatching
    /\ MaxPolls \in Nat
    /\ Unreliable \in BOOLEAN
<1>1. FcuProofs!Request = FcuHandlers!Request
  BY DEF FcuProofs!Request, FcuHandlers!Request, FcuProofs!Fcu, FcuHandlers!Fcu,
         FcuProofs!ForkchoiceState, FcuHandlers!ForkchoiceState,
         FcuProofs!PayloadAttributes, FcuHandlers!PayloadAttributes,
         FcuProofs!NoAttributes, FcuHandlers!NoAttributes
<1>2. FcuProofs!Status = Status /\ FcuProofs!FcuMatching = FcuHandlers!FcuMatching
  BY DEF FcuProofs!Status, Status, FcuProofs!FcuMatching, FcuHandlers!FcuMatching
<1> QED  BY <1>1, <1>2, MultiplexerAssumption

\* The constants are what NewPayload assumes of them.
LEMMA NpAssumptions ==
    /\ Block # {}
    /\ NpControllerTask \cap NpClientTask = {}
    /\ NpControllerRequests \subseteq NpProofs!Request
    /\ NpClientRequests \subseteq NpProofs!Request
    /\ EngineStatus \subseteq NpProofs!Status
    /\ new_payload_cache_size \in Nat \ {0}
    /\ new_payload_wait_cutoff \in Nat
    /\ MaxPolls \in Nat
    /\ ConsistentEngine \in BOOLEAN
    /\ Unreliable \in BOOLEAN
<1>1. NpProofs!Request = NpHandlers!Request
  BY DEF NpProofs!Request, NpHandlers!Request, NpProofs!Payload,
         NpHandlers!Payload
<1>2. NpProofs!Status = Status
  BY DEF NpProofs!Status, Status
<1> QED
  BY <1>1, <1>2, MultiplexerAssumption, PayloadBuilderAssumption

(***************************************************************************)
(* FcuHandlers and FcuProofs are instances of the same definitions, the    *)
(* one with and the other without theorems, and so are NpHandlers and      *)
(* NpProofs.  Expanded to the last definition they are the same formulas.  *)
(***************************************************************************)
LEMMA FcuSpecs == FcuHandlers!Spec <=> FcuProofs!Spec
  BY PTL DEF FcuHandlers!Status, FcuHandlers!ErrorCode,
         FcuHandlers!BuilderOutcome, FcuHandlers!IsDefinite,
         FcuHandlers!ForkchoiceState, FcuHandlers!PayloadAttributes,
         FcuHandlers!NoAttributes, FcuHandlers!AttributesDecodeAs,
         FcuHandlers!DecodedAttributes, FcuHandlers!LruEmpty,
         FcuHandlers!LruContains, FcuHandlers!LruRankAfterUse,
         FcuHandlers!LruTouch, FcuHandlers!LruPut, FcuHandlers!LruFirst,
         FcuHandlers!IsLru, FcuHandlers!Task, FcuHandlers!Fcu,
         FcuHandlers!engine, FcuHandlers!checkpoints, FcuHandlers!Pc,
         FcuHandlers!Reply, FcuHandlers!TaskRecord, FcuHandlers!HasStatus,
         FcuHandlers!TaskState, FcuHandlers!GenesisFcu, FcuHandlers!Init,
         FcuHandlers!Replied, FcuHandlers!WithStatus,
         FcuHandlers!ControllerAttributesVersion,
         FcuHandlers!ClientAttributesVersion, FcuHandlers!Parsed,
         FcuHandlers!Receive, FcuHandlers!ControllerReceives,
         FcuHandlers!ClientReceives, FcuHandlers!FcuCacheUnlocked,
         FcuHandlers!MatchingFcus, FcuHandlers!MatchedFcu,
         FcuHandlers!DefiniteEnough, FcuHandlers!AfterLookup,
         FcuHandlers!LookupMisses, FcuHandlers!LookupFinds,
         FcuHandlers!LookupFindsLoosely, FcuHandlers!CheckJustified,
         FcuHandlers!CheckFinalized, FcuHandlers!EngineApplies,
         FcuHandlers!EngineAnswers, FcuHandlers!EngineCallFails,
         FcuHandlers!EngineProcessesOrphan, FcuHandlers!RedundantUpdate,
         FcuHandlers!MakesCheckpoints, FcuHandlers!UpdateFcuCache,
         FcuHandlers!JustifiedBlockCacheCapacity, FcuHandlers!PutJustified,
         FcuHandlers!FinalizedBlockCacheCapacity, FcuHandlers!PutFinalized,
         FcuHandlers!Poll, FcuHandlers!TimeUp, FcuHandlers!RegisterAttributes,
         FcuHandlers!GetExistingPayloadId, FcuHandlers!Disconnect,
         FcuHandlers!HandlerStep, FcuHandlers!TaskStep,
         FcuHandlers!EngineCallEnds, FcuHandlers!Next, FcuHandlers!Spec,
         FcuHandlers!vars, FcuProofs!Status, FcuProofs!ErrorCode,
         FcuProofs!BuilderOutcome, FcuProofs!IsDefinite,
         FcuProofs!ForkchoiceState, FcuProofs!PayloadAttributes,
         FcuProofs!NoAttributes, FcuProofs!AttributesDecodeAs,
         FcuProofs!DecodedAttributes, FcuProofs!LruEmpty,
         FcuProofs!LruContains, FcuProofs!LruRankAfterUse, FcuProofs!LruTouch,
         FcuProofs!LruPut, FcuProofs!LruFirst, FcuProofs!IsLru,
         FcuProofs!Task, FcuProofs!Fcu, FcuProofs!engine,
         FcuProofs!checkpoints, FcuProofs!Pc, FcuProofs!Reply,
         FcuProofs!TaskRecord, FcuProofs!HasStatus, FcuProofs!TaskState,
         FcuProofs!GenesisFcu, FcuProofs!Init, FcuProofs!Replied,
         FcuProofs!WithStatus, FcuProofs!ControllerAttributesVersion,
         FcuProofs!ClientAttributesVersion, FcuProofs!Parsed,
         FcuProofs!Receive, FcuProofs!ControllerReceives,
         FcuProofs!ClientReceives, FcuProofs!FcuCacheUnlocked,
         FcuProofs!MatchingFcus, FcuProofs!MatchedFcu,
         FcuProofs!DefiniteEnough, FcuProofs!AfterLookup,
         FcuProofs!LookupMisses, FcuProofs!LookupFinds,
         FcuProofs!LookupFindsLoosely, FcuProofs!CheckJustified,
         FcuProofs!CheckFinalized, FcuProofs!EngineApplies,
         FcuProofs!EngineAnswers, FcuProofs!EngineCallFails,
         FcuProofs!EngineProcessesOrphan, FcuProofs!RedundantUpdate,
         FcuProofs!MakesCheckpoints, FcuProofs!UpdateFcuCache,
         FcuProofs!JustifiedBlockCacheCapacity, FcuProofs!PutJustified,
         FcuProofs!FinalizedBlockCacheCapacity, FcuProofs!PutFinalized,
         FcuProofs!Poll, FcuProofs!TimeUp, FcuProofs!RegisterAttributes,
         FcuProofs!GetExistingPayloadId, FcuProofs!Disconnect,
         FcuProofs!HandlerStep, FcuProofs!TaskStep, FcuProofs!EngineCallEnds,
         FcuProofs!Next, FcuProofs!Spec, FcuProofs!vars

\* The same of the types of the fcU handlers.
LEMMA FcuTypes == FcuHandlers!TypeOK <=> FcuProofs!TypeOK
  BY DEF FcuHandlers!TypeOK, FcuHandlers!IsLru, FcuHandlers!Fcu,
         FcuHandlers!ForkchoiceState, FcuHandlers!Status,
         FcuHandlers!ErrorCode, FcuHandlers!FinalizedBlockCacheCapacity,
         FcuHandlers!Task, FcuHandlers!TaskState, FcuHandlers!TaskRecord,
         FcuHandlers!Pc, FcuHandlers!HasStatus, FcuHandlers!Reply,
         FcuHandlers!PayloadAttributes, FcuHandlers!NoAttributes,
         FcuProofs!TypeOK, FcuProofs!IsLru, FcuProofs!Fcu,
         FcuProofs!ForkchoiceState, FcuProofs!Status, FcuProofs!ErrorCode,
         FcuProofs!FinalizedBlockCacheCapacity, FcuProofs!Task,
         FcuProofs!TaskState, FcuProofs!TaskRecord, FcuProofs!Pc,
         FcuProofs!HasStatus, FcuProofs!Reply, FcuProofs!PayloadAttributes,
         FcuProofs!NoAttributes

\* The same of the specifications of the newPayload handlers.
LEMMA NpSpecs == NpHandlers!Spec <=> NpProofs!Spec
  BY PTL DEF NpHandlers!Status, NpHandlers!ErrorCode, NpHandlers!IsDefinite,
         NpHandlers!LruEmpty, NpHandlers!LruContains,
         NpHandlers!LruRankAfterUse, NpHandlers!LruTouch, NpHandlers!LruGet,
         NpHandlers!LruPut, NpHandlers!IsLru, NpHandlers!ForkName,
         NpHandlers!NoSlot, NpHandlers!timestamp_to_slot,
         NpHandlers!fork_name_at_slot, NpHandlers!Task, NpHandlers!Payload,
         NpHandlers!Request, NpHandlers!Pc, NpHandlers!Reply,
         NpHandlers!CacheEntry, NpHandlers!NoRequest, NpHandlers!TaskState,
         NpHandlers!Init, NpHandlers!ParametersOf,
         NpHandlers!PayloadVersionOf, NpHandlers!DecodedVersion,
         NpHandlers!FieldsSuffice, NpHandlers!Decode,
         NpHandlers!verify_payload_block_hash,
         NpHandlers!verify_versioned_hashes, NpHandlers!Replied,
         NpHandlers!Started, NpHandlers!ControllerReceives,
         NpHandlers!ClientReceives, NpHandlers!CachedNumbers,
         NpHandlers!highest_cached_payload_number, NpHandlers!SaturatingSub,
         NpHandlers!is_recent_payload, NpHandlers!CheckRecent,
         NpHandlers!Poll, NpHandlers!TimeUp, NpHandlers!Cached,
         NpHandlers!CachedStatus, NpHandlers!LookupHits, NpHandlers!GetEntry,
         NpHandlers!LookupAnswers, NpHandlers!AfterMiss,
         NpHandlers!LookupMisses, NpHandlers!NoOtherVerdict,
         NpHandlers!EngineAnswers, NpHandlers!EngineCallFails,
         NpHandlers!PutNewPayload, NpHandlers!RegisterCanonicalPayload,
         NpHandlers!Disconnect, NpHandlers!HandlerStep, NpHandlers!TaskStep,
         NpHandlers!EngineCallEnds, NpHandlers!Next, NpHandlers!Spec,
         NpHandlers!vars, NpProofs!Status, NpProofs!ErrorCode,
         NpProofs!IsDefinite, NpProofs!LruEmpty, NpProofs!LruContains,
         NpProofs!LruRankAfterUse, NpProofs!LruTouch, NpProofs!LruGet,
         NpProofs!LruPut, NpProofs!IsLru, NpProofs!ForkName, NpProofs!NoSlot,
         NpProofs!timestamp_to_slot, NpProofs!fork_name_at_slot,
         NpProofs!Task, NpProofs!Payload, NpProofs!Request, NpProofs!Pc,
         NpProofs!Reply, NpProofs!CacheEntry, NpProofs!NoRequest,
         NpProofs!TaskState, NpProofs!Init, NpProofs!ParametersOf,
         NpProofs!PayloadVersionOf, NpProofs!DecodedVersion,
         NpProofs!FieldsSuffice, NpProofs!Decode,
         NpProofs!verify_payload_block_hash, NpProofs!verify_versioned_hashes,
         NpProofs!Replied, NpProofs!Started, NpProofs!ControllerReceives,
         NpProofs!ClientReceives, NpProofs!CachedNumbers,
         NpProofs!highest_cached_payload_number, NpProofs!SaturatingSub,
         NpProofs!is_recent_payload, NpProofs!CheckRecent, NpProofs!Poll,
         NpProofs!TimeUp, NpProofs!Cached, NpProofs!CachedStatus,
         NpProofs!LookupHits, NpProofs!GetEntry, NpProofs!LookupAnswers,
         NpProofs!AfterMiss, NpProofs!LookupMisses, NpProofs!NoOtherVerdict,
         NpProofs!EngineAnswers, NpProofs!EngineCallFails,
         NpProofs!PutNewPayload, NpProofs!RegisterCanonicalPayload,
         NpProofs!Disconnect, NpProofs!HandlerStep, NpProofs!TaskStep,
         NpProofs!EngineCallEnds, NpProofs!Next, NpProofs!Spec, NpProofs!vars

\* The same of the types of the newPayload handlers.
LEMMA NpTypes == NpHandlers!TypeOK <=> NpProofs!TypeOK
  BY DEF NpHandlers!TypeOK, NpHandlers!IsLru, NpHandlers!CacheEntry,
         NpHandlers!Status, NpHandlers!ErrorCode, NpHandlers!Task,
         NpHandlers!TaskState, NpHandlers!Pc, NpHandlers!Reply,
         NpHandlers!Request, NpHandlers!Payload, NpProofs!TypeOK,
         NpProofs!IsLru, NpProofs!CacheEntry, NpProofs!Status,
         NpProofs!ErrorCode, NpProofs!Task, NpProofs!TaskState, NpProofs!Pc,
         NpProofs!Reply, NpProofs!Request, NpProofs!Payload

-----------------------------------------------------------------------------
(* Every step of the composition is a step of each part, or leaves it alone. *)

\* The composition implements the fcU handlers.
LEMMA MuxImplementsFcu == MuxSpec => FcuHandlers!Spec
<1>1. MuxInit => FcuHandlers!Init
  BY DEF MuxInit
<1>2. [MuxNext]_muxVars => [FcuHandlers!Next]_(FcuHandlers!vars)
  <2>1. fcuVars = FcuHandlers!vars /\ FcuTask = FcuHandlers!Task
    BY DEF fcuVars, FcuHandlers!vars, FcuTask, FcuHandlers!Task
  <2>2. BuilderOutcome = FcuHandlers!BuilderOutcome
    BY DEF BuilderOutcome, FcuHandlers!BuilderOutcome
  <2>3. FcuProceeds => FcuHandlers!Next
    BY <2>1 DEF FcuProceeds, FcuHandlers!Next, FcuHandlers!TaskStep
  <2>4. ASSUME NEW t \in FcuControllerTask, RegisterAttributes(t)
        PROVE  FcuHandlers!Next
    BY <2>2, <2>4 DEF RegisterAttributes, FcuHandlers!Next,
                      FcuHandlers!TaskStep, FcuHandlers!Task
  <2>5. ASSUME NEW t \in FcuClientTask, GetExistingPayloadId(t)
        PROVE  FcuHandlers!Next
    BY <2>5 DEF GetExistingPayloadId, FcuHandlers!Next,
                FcuHandlers!TaskStep, FcuHandlers!Task
  <2>6. \/ NpProceeds
        \/ \E t \in NpControllerTask : RegisterCanonicalPayload(t)
        \/ GetPayload
        \/ UNCHANGED muxVars
        => UNCHANGED FcuHandlers!vars
    BY DEF NpProceeds, RegisterCanonicalPayload, GetPayload, muxVars, fcuVars,
           FcuHandlers!vars
  <2> QED
    BY <2>3, <2>4, <2>5, <2>6 DEF MuxNext
<1> QED
  BY <1>1, <1>2, PTL DEF MuxSpec, FcuHandlers!Spec

\* The composition implements the newPayload handlers.
LEMMA MuxImplementsNp == MuxSpec => NpHandlers!Spec
<1>1. MuxInit => NpHandlers!Init
  BY DEF MuxInit
<1>2. [MuxNext]_muxVars => [NpHandlers!Next]_(NpHandlers!vars)
  <2>1. npVars = NpHandlers!vars /\ NpTask = NpHandlers!Task
    BY DEF npVars, NpHandlers!vars, NpTask, NpHandlers!Task
  <2>2. NpProceeds => NpHandlers!Next
    BY <2>1 DEF NpProceeds, NpHandlers!Next, NpHandlers!TaskStep
  <2>3. ASSUME NEW t \in NpControllerTask, RegisterCanonicalPayload(t)
        PROVE  NpHandlers!Next
    BY <2>3 DEF RegisterCanonicalPayload, NpHandlers!Next,
                NpHandlers!TaskStep, NpHandlers!Task
  <2>4. \/ FcuProceeds
        \/ \E t \in FcuControllerTask : RegisterAttributes(t)
        \/ \E t \in FcuClientTask : GetExistingPayloadId(t)
        \/ GetPayload
        \/ UNCHANGED muxVars
        => UNCHANGED NpHandlers!vars
    BY DEF FcuProceeds, RegisterAttributes, GetExistingPayloadId, GetPayload,
           muxVars, npVars, NpHandlers!vars
  <2> QED
    BY <2>2, <2>3, <2>4 DEF MuxNext
<1> QED
  BY <1>1, <1>2, PTL DEF MuxSpec, NpHandlers!Spec

-----------------------------------------------------------------------------
(* What the handlers guarantee at the builder's interface.                 *)

\* The builder is asked about blocks and attributes it may be asked about.
KeyInv ==
    \A t \in FcuTask : fcu_task[t].pc = "attributes" => KeyOf(t) \in Key

\* What is to be tracked is a block of the controller's with the status the
\* engine gave for it.
RegisterInv ==
    \A t \in NpControllerTask : np_task[t].pc = "register" =>
        /\ np_task[t].request \in NpControllerRequests
        /\ np_task[t].request.payload.hash \in Block
        /\ np_task[t].found \in EngineStatus
        /\ <<np_task[t].request.payload, np_task[t].found>> \in np_said

\* The fcU handlers keep the attributes of their requests until they ask.
LEMMA KeysAreKeys == MuxSpec => []KeyInv
<1>1. FcuProofs!Spec => [](FcuProofs!TypeOK /\ FcuProofs!AttributesInv)
  BY FcuAssumptions, FcuProofs!TypeCorrect,
     FcuProofs!AttributesComeFromRequests, PTL
<1>2. FcuProofs!RequestedAttributes \subseteq Attributes \cup {NoAttributes}
  <2>1. FcuProofs!NoAttributes = NoAttributes
    BY DEF FcuProofs!NoAttributes, NoAttributes
  <2>2. FcuProofs!DecodedControllerAttributes
           \subseteq Attributes \cup {NoAttributes}
    BY MultiplexerAssumption
    DEF FcuProofs!DecodedControllerAttributes, AttributesCovered,
        FcuProofs!AttributesDecodeAs, AttributesDecodeAs,
        FcuProofs!DecodedAttributes, DecodedAttributes,
        FcuProofs!NoAttributes, NoAttributes,
        FcuProofs!ControllerAttributesVersion,
        FcuHandlers!ControllerAttributesVersion
  <2>3. FcuProofs!DecodedClientAttributes
           \subseteq Attributes \cup {NoAttributes}
    BY MultiplexerAssumption
    DEF FcuProofs!DecodedClientAttributes, AttributesCovered,
        FcuProofs!AttributesDecodeAs, AttributesDecodeAs,
        FcuProofs!DecodedAttributes, DecodedAttributes,
        FcuProofs!NoAttributes, NoAttributes,
        FcuProofs!ClientAttributesVersion, FcuHandlers!ClientAttributesVersion
  <2> QED
    BY <2>1, <2>2, <2>3 DEF FcuProofs!RequestedAttributes
<1>3. FcuProofs!TypeOK /\ FcuProofs!AttributesInv => KeyInv
  <2> SUFFICES ASSUME FcuProofs!TypeOK, FcuProofs!AttributesInv,
                      NEW t \in FcuTask, fcu_task[t].pc = "attributes"
               PROVE  KeyOf(t) \in Key
    BY DEF KeyInv
  <2>1. t \in FcuProofs!Task
    BY DEF FcuTask, FcuProofs!Task
  <2>2. fcu_task[t].fcu.head_block_hash \in Block
    BY <2>1 DEF FcuProofs!TypeOK, FcuProofs!TaskState, FcuProofs!TaskRecord,
                FcuProofs!Fcu, FcuProofs!ForkchoiceState
  <2>3. fcu_task[t].attrs \in Attributes
    BY <1>2, <2>1 DEF FcuProofs!AttributesInv, FcuProofs!AttributesAsked,
                      FcuProofs!NoAttributes, NoAttributes
  <2> QED
    BY <2>2, <2>3 DEF KeyOf, Key
<1> QED
  BY <1>1, <1>3, FcuSpecs, MuxImplementsFcu, PTL

\* The invariant of the newPayload handlers, in the composition.
LEMMA MuxNpInv == MuxSpec => []NpProofs!Inv
BY NpAssumptions, ChainSpecAssumption, NpProofs!Invariant, NpSpecs, MuxImplementsNp, PTL

\* The newPayload handlers keep to RegisterInv.
LEMMA RegisteredIsSaid == NpProofs!Inv => RegisterInv
<1> SUFFICES ASSUME NpProofs!Inv, NEW t \in NpControllerTask,
                    np_task[t].pc = "register"
             PROVE  /\ np_task[t].request \in NpControllerRequests
                    /\ np_task[t].request.payload.hash \in Block
                    /\ np_task[t].found \in EngineStatus
                    /\ <<np_task[t].request.payload, np_task[t].found>>
                          \in np_said
  BY DEF RegisterInv
<1>1. t \in NpProofs!Task /\ t \notin NpClientTask
  BY MultiplexerAssumption DEF NpProofs!Task
<1>2. NpProofs!TaskInv(np_said, t, np_task[t])
  BY <1>1 DEF NpProofs!Inv
<1>3. np_task[t].request \in NpControllerRequests
  BY <1>1, <1>2 DEF NpProofs!TaskInv, NpProofs!InItsHandler
<1>4. <<np_task[t].request.payload, np_task[t].found>> \in np_said
  BY <1>2 DEF NpProofs!TaskInv, NpProofs!FoundIsSaid
<1>5. np_task[t].found \in EngineStatus
  BY <1>4 DEF NpProofs!Inv, NpProofs!SaidOfController
<1>6. np_task[t].request.payload.hash \in Block
  BY <1>3, MultiplexerAssumption DEF NpHandlers!Request, NpHandlers!Payload
<1> QED
  BY <1>3, <1>4, <1>5, <1>6

\* Every step of the composition is one the builder allows.
LEMMA MuxBuilderStep ==
    ASSUME KeyInv, RegisterInv, [MuxNext]_muxVars
    PROVE  [Next]_vars
<1>1. ASSUME NEW t \in FcuControllerTask, RegisterAttributes(t)
      PROVE  Next
  <2>1. KeyOf(t) \in Key
    BY <1>1 DEF RegisterAttributes, FcuHandlers!RegisterAttributes, KeyInv,
                FcuTask
  <2> QED
    BY <1>1, <2>1 DEF RegisterAttributes, Next
<1>2. ASSUME NEW t \in FcuClientTask, GetExistingPayloadId(t)
      PROVE  Next
  <2>1. KeyOf(t) \in Key
    BY <1>2 DEF GetExistingPayloadId, FcuHandlers!GetExistingPayloadId, KeyInv,
                FcuTask
  <2> QED
    BY <1>2, <2>1 DEF GetExistingPayloadId, Next
<1>3. ASSUME NEW t \in NpControllerTask, RegisterCanonicalPayload(t)
      PROVE  Next
  <2>1. /\ np_task[t].request.payload.hash \in Block
        /\ np_task[t].found \in EngineStatus
    BY <1>3 DEF RegisterCanonicalPayload, NpHandlers!RegisterCanonicalPayload,
                RegisterInv
  <2> QED
    BY <1>3, <2>1 DEF RegisterCanonicalPayload, Next
<1>4. GetPayload => Next
  BY DEF GetPayload, Next
<1>5. FcuProceeds \/ NpProceeds \/ UNCHANGED muxVars => UNCHANGED vars
  BY DEF FcuProceeds, NpProceeds, muxVars
<1> QED
  BY <1>1, <1>2, <1>3, <1>4, <1>5 DEF MuxNext

\* The composition implements the payload builder: its handlers use it only
\* in the ways its own specification foresees.
LEMMA MuxImplementsBuilder == MuxSpec => Spec
<1>1. MuxInit => Init
  BY DEF MuxInit
<1>2. KeyInv /\ RegisterInv /\ [MuxNext]_muxVars => [Next]_vars
  BY MuxBuilderStep
<1> QED
  BY <1>1, <1>2, KeysAreKeys, MuxNpInv, RegisteredIsSaid, PTL
  DEF MuxSpec, Spec

-----------------------------------------------------------------------------
(* The blocks the payloads are built on.                                   *)

\* The engine has answered for block b, whose number it was told, and did not
\* reject it then.
AnsweredBlock(said, b) ==
    \E x \in said :
        /\ x[1].hash = b
        /\ x[2] \notin {"INVALID", "INVALID_BLOCK_HASH"}
        /\ x[1].number = BlockInfo[b].block_number

\* The payload extends such a block.
BuiltOnAnswered(said, payload) ==
    /\ AnsweredBlock(said, payload.parent_hash)
    /\ payload.block_number = BlockInfo[payload.parent_hash].block_number + 1

\* Every tracked block, and the parent of every payload, was answered for.
ParentsInv ==
    /\ \A b \in DOMAIN payload_info : AnsweredBlock(np_said, b)
    /\ \A id \in DOMAIN payloads : BuiltOnAnswered(np_said, payloads[id].val)

\* What the engine has said stays said.
LEMMA NpSaidGrows ==
    ASSUME [MuxNext]_muxVars
    PROVE  np_said \subseteq np_said'
<1>1. NpProceeds => np_said \subseteq np_said'
  BY DEF NpProceeds, NpHandlers!ControllerReceives, NpHandlers!ClientReceives,
         NpHandlers!HandlerStep, NpHandlers!EngineCallEnds,
         NpHandlers!Disconnect, NpHandlers!CheckRecent, NpHandlers!Poll,
         NpHandlers!TimeUp, NpHandlers!LookupAnswers, NpHandlers!LookupMisses,
         NpHandlers!PutNewPayload, NpHandlers!EngineAnswers,
         NpHandlers!EngineCallFails
<1>2. \/ FcuProceeds
      \/ \E t \in FcuControllerTask : RegisterAttributes(t)
      \/ \E t \in FcuClientTask : GetExistingPayloadId(t)
      \/ \E t \in NpControllerTask : RegisterCanonicalPayload(t)
      \/ GetPayload
      \/ UNCHANGED muxVars
      => np_said' = np_said
  BY DEF FcuProceeds, RegisterAttributes, GetExistingPayloadId,
         RegisterCanonicalPayload, GetPayload, muxVars, npVars,
         NpHandlers!RegisterCanonicalPayload
<1> QED
  BY <1>1, <1>2 DEF MuxNext

\* The builder's caches are caches.
LEMMA BuilderCaches ==
    ASSUME BuilderInv
    PROVE  /\ payload_builder_cache_size \in Nat \ {0}
           /\ IsLru(payload_info, payload_builder_cache_size, Block, Info)
           /\ IsLru(payloads, payload_builder_cache_size, Nat, Payload)
BY PayloadBuilderAssumption DEF BuilderInv, TypeOK

\* Renewing a block in payload_info leaves the same blocks there.
LEMMA RenewKeepsBlocks ==
    ASSUME NEW b \in DOMAIN payload_info
    PROVE  DOMAIN LruTouch(payload_info, b) = DOMAIN payload_info
BY DEF LruTouch

\* A step that adds no block and no payload keeps ParentsInv.
LEMMA ParentsKept ==
    ASSUME ParentsInv, np_said \subseteq np_said',
           \A b \in DOMAIN payload_info' : b \in DOMAIN payload_info,
           \A id \in DOMAIN payloads' :
              id \in DOMAIN payloads /\ payloads'[id].val = payloads[id].val
    PROVE  ParentsInv'
BY DEF ParentsInv, AnsweredBlock, BuiltOnAnswered

\* A payload that is built extends a tracked block.
LEMMA BuildPayloadParents ==
    ASSUME BuilderInv, ParentsInv, np_said \subseteq np_said',
           NEW key \in Key, BuildPayload(key)
    PROVE  ParentsInv'
<1> USE PayloadBuilderAssumption
<1> DEFINE n == next_payload_id
           payload == Build(key, payload_info[key.parent_hash].val)
           d == LruPut(payloads, payload_builder_cache_size, n, payload)
<1>1. key.parent_hash \in DOMAIN payload_info
  BY DEF BuildPayload, ParentFound, LruContains
<1>2. /\ payload \in Payload
      /\ payload.parent_hash = key.parent_hash
      /\ payload.block_number = BlockInfo[key.parent_hash].block_number + 1
  BY BuildIsPayload DEF BuildPayload
<1>3. n \in Nat /\ payloads' = d
  BY DEF BuildPayload, Store, BuilderInv, TypeOK
<1>4. BuiltOnAnswered(np_said', payload)
  BY <1>1, <1>2 DEF ParentsInv, AnsweredBlock, BuiltOnAnswered
<1> HIDE DEF payload
<1>5. /\ IsLru(d, payload_builder_cache_size, Nat, Payload)
      /\ DOMAIN d \subseteq DOMAIN payloads \cup {n}
      /\ d[n].val = payload
      /\ \A id \in DOMAIN d \ {n} : d[id].val = payloads[id].val
  <2>1. /\ IsLru(payloads, payload_builder_cache_size, Nat, Payload)
        /\ payload_builder_cache_size \in Nat \ {0}
    BY BuilderCaches
  <2>2. n \in Nat /\ payload \in Payload
    BY <1>2, <1>3
  <2> QED
    BY <2>1, <2>2, LruPutIsLru
<1> HIDE DEF d
<1>6. \A id \in DOMAIN payloads : BuiltOnAnswered(np_said', payloads[id].val)
  BY DEF ParentsInv, AnsweredBlock, BuiltOnAnswered
<1>7. \A id \in DOMAIN payloads' : BuiltOnAnswered(np_said', payloads'[id].val)
  BY <1>3, <1>4, <1>5, <1>6
<1>8. DOMAIN payload_info' = DOMAIN payload_info
  BY <1>1, RenewKeepsBlocks DEF BuildPayload, ParentFound
<1> QED
  BY <1>7, <1>8 DEF ParentsInv, AnsweredBlock

\* Of the outcomes of register_attributes only one adds a payload.
LEMMA RegisterAttributesParents ==
    ASSUME BuilderInv, ParentsInv, np_said \subseteq np_said',
           NEW key \in Key, NEW outcome, register_attributes(key, outcome)
    PROVE  ParentsInv'
<1>1. CASE BuildPayload(key)
  BY <1>1, BuildPayloadParents
<1>2. CASE AlreadyKnown(key) \/ InvalidTimestamp(key) \/ UnknownParent(key)
  <2>1. payload_info' = payload_info /\ payloads' = payloads
    BY <1>2 DEF AlreadyKnown, InvalidTimestamp, UnknownParent, vars
  <2> QED
    BY <2>1, ParentsKept
<1>3. CASE CannotBuild(key) \/ BuildPanics(key)
  <2>1. DOMAIN payload_info' = DOMAIN payload_info
    BY <1>3, RenewKeepsBlocks
    DEF CannotBuild, BuildPanics, ParentFound, LruContains
  <2>2. payloads' = payloads
    BY <1>3 DEF CannotBuild, BuildPanics
  <2> QED
    BY <2>1, <2>2, ParentsKept
<1> QED
  BY <1>1, <1>2, <1>3 DEF register_attributes

\* A block is tracked with a status the engine gave for it.
LEMMA RegisterCanonicalParents ==
    ASSUME BuilderInv, ParentsInv, RegisterInv, NEW t \in NpControllerTask,
           RegisterCanonicalPayload(t)
    PROVE  ParentsInv'
<1> USE PayloadBuilderAssumption
<1> DEFINE block == np_task[t].request.payload.hash
           status == np_task[t].found
<1>1. /\ register_canonical_payload(block, status)
      /\ np_task[t].pc = "register" /\ np_said' = np_said
  BY DEF RegisterCanonicalPayload, NpHandlers!RegisterCanonicalPayload
<1>2. /\ block \in Block
      /\ <<np_task[t].request.payload, status>> \in np_said
      /\ np_task[t].request.payload.number = BlockInfo[block].block_number
  BY <1>1, MultiplexerAssumption DEF RegisterInv
<1>3. Trackable(status) => AnsweredBlock(np_said, block)
  BY <1>2 DEF Trackable, AnsweredBlock
<1> HIDE DEF block, status
<1>4. payloads' = payloads
  BY <1>1 DEF register_canonical_payload
<1>5. CASE ~Trackable(status)
  BY <1>1, <1>4, <1>5, ParentsKept DEF register_canonical_payload
<1>6. CASE Trackable(status) /\ block \in DOMAIN payload_info
  <2>1. payload_info' = LruTouch(payload_info, block)
    BY <1>1, <1>6 DEF register_canonical_payload, LruGetOrInsert
  <2>2. DOMAIN payload_info' = DOMAIN payload_info
    BY <1>6, <2>1, RenewKeepsBlocks
  <2> QED
    BY <1>1, <1>4, <2>2, ParentsKept
<1>7. CASE Trackable(status) /\ block \notin DOMAIN payload_info
  <2>1. payload_info' = LruPut(payload_info, payload_builder_cache_size, block,
                               BlockInfo[block])
    BY <1>1, <1>7 DEF register_canonical_payload, LruGetOrInsert
  <2>2. BlockInfo[block] \in Info
    BY <1>2
  <2>3. DOMAIN payload_info' \subseteq DOMAIN payload_info \cup {block}
    BY <1>2, <2>1, <2>2, BuilderCaches, LruPutIsLru
  <2> QED
    BY <1>1, <1>3, <1>4, <1>7, <2>3 DEF ParentsInv
<1> QED
  BY <1>5, <1>6, <1>7

\* Every step of the composition keeps ParentsInv.
LEMMA ParentsStep ==
    ASSUME BuilderInv, ParentsInv, KeyInv, RegisterInv, [MuxNext]_muxVars
    PROVE  ParentsInv'
<1>1. np_said \subseteq np_said'
  BY NpSaidGrows
<1>2. ASSUME NEW t \in FcuControllerTask, RegisterAttributes(t)
      PROVE  ParentsInv'
  <2>1. KeyOf(t) \in Key
    BY <1>2 DEF RegisterAttributes, FcuHandlers!RegisterAttributes, KeyInv,
                FcuTask
  <2> QED
    BY <1>1, <1>2, <2>1, RegisterAttributesParents DEF RegisterAttributes
<1>3. ASSUME NEW t \in FcuClientTask, GetExistingPayloadId(t)
      PROVE  ParentsInv'
  <2>1. payload_info' = payload_info /\ payloads' = payloads
    BY <1>3 DEF GetExistingPayloadId, get_existing_payload_id
  <2> QED
    BY <1>1, <2>1, ParentsKept
<1>4. ASSUME NEW t \in NpControllerTask, RegisterCanonicalPayload(t)
      PROVE  ParentsInv'
  BY <1>4, RegisterCanonicalParents
<1>5. ASSUME GetPayload
      PROVE  ParentsInv'
  <2>1. PICK id : get_payload(id)
    BY <1>5 DEF GetPayload
  <2>2. payload_info' = payload_info /\ payloads' = LruGet(payloads, id)
    BY <2>1 DEF get_payload
  <2>3. /\ DOMAIN payloads' = DOMAIN payloads
        /\ \A i \in DOMAIN payloads : payloads'[i].val = payloads[i].val
    BY <2>2 DEF LruGet, LruTouch
  <2> QED
    BY <1>1, <2>2, <2>3, ParentsKept
<1>6. ASSUME FcuProceeds \/ NpProceeds \/ UNCHANGED muxVars
      PROVE  ParentsInv'
  <2>1. payload_info' = payload_info /\ payloads' = payloads
    BY <1>6 DEF FcuProceeds, NpProceeds, muxVars, vars
  <2> QED
    BY <1>1, <2>1, ParentsKept
<1> QED
  BY <1>2, <1>3, <1>4, <1>5, <1>6 DEF MuxNext

-----------------------------------------------------------------------------
(* The theorems.                                                           *)

(***************************************************************************)
(* Composed, every part still is what its own module says it is: whatever  *)
(* is proved of ForkchoiceUpdated, NewPayload and PayloadBuilder by itself *)
(* holds in Multiplexer, where each call to the builder is a joint step.   *)
(***************************************************************************)
THEOREM PartsImplemented == MuxSpec => Spec /\ FcuHandlers!Spec /\ NpHandlers!Spec
BY MuxImplementsBuilder, MuxImplementsFcu, MuxImplementsNp, PTL

\* Type correctness of Eleel's whole state.
THEOREM MuxTypeCorrect == MuxSpec => []MuxTypeOK
<1>1. FcuHandlers!Spec => []FcuHandlers!TypeOK
  BY FcuAssumptions, FcuProofs!TypeCorrect, FcuSpecs, FcuTypes, PTL
<1>2. NpHandlers!Spec => []NpHandlers!TypeOK
  BY NpAssumptions, ChainSpecAssumption, NpProofs!TypeCorrect, NpSpecs,
     NpTypes, PTL
<1> QED
  BY <1>1, <1>2, PartsImplemented, BuilderTypeCorrect, PTL DEF MuxTypeOK

\* In the whole system too an id that was sent never yields another payload.
THEOREM MuxIdsAreUnique == MuxSpec => []IdsNameOnePayload
BY PartsImplemented, IdsAreUnique, PTL

\* No sequence of fcUs makes handle_get_payload panic.
THEOREM MuxPayloadsAreServable == MuxSpec => []StoredPayloadsCanBeServed
BY PartsImplemented, PayloadsAreServable, PTL

\* Whatever becomes of the handlers that call the builder, an id it still knows
\* has its payload or lost it to a full map.
THEOREM MuxAttributesWereBuilt == MuxSpec => []KnownAttributesWereBuilt
BY PartsImplemented, AttributesWereBuilt, PTL

(***************************************************************************)
(* Every dummy payload extends a block that the controller sent and the    *)
(* engine did not reject at that time.  It takes ParentsInv, which follows *)
(* the answer from the newPayload handler by way of payload_info.          *)
(***************************************************************************)
THEOREM PayloadsExtendBlocks == MuxSpec => []PayloadsExtendAnsweredBlocks
<1>1. MuxInit => ParentsInv
  BY DEF MuxInit, Init, ParentsInv, LruEmpty
<1>2. BuilderInv /\ ParentsInv /\ KeyInv /\ RegisterInv /\ [MuxNext]_muxVars
         => ParentsInv'
  BY ParentsStep
<1>3. Spec => []BuilderInv
  BY BuilderInvInit, BuilderInvStep, PTL DEF Spec
<1>4. ParentsInv => PayloadsExtendAnsweredBlocks
  BY DEF ParentsInv, BuiltOnAnswered, AnsweredBlock,
         PayloadsExtendAnsweredBlocks
<1> QED
  BY <1>1, <1>2, <1>3, <1>4, KeysAreKeys, MuxNpInv, RegisteredIsSaid,
     PartsImplemented, PTL DEF MuxSpec
=============================================================================
