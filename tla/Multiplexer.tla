---------------------------- MODULE Multiplexer ----------------------------
(***************************************************************************)
(* Eleel's state as a whole: the payload builder (this module extends it)  *)
(* with the fcU and newPayload handlers that call it.  A handler's call to *)
(* the builder is one step of both.  The parts share no other state.       *)
(***************************************************************************)
EXTENDS PayloadBuilder

CONSTANTS
    Genesis,
    FcuControllerTask, FcuClientTask,             \* fcU requests
    FcuControllerRequests, FcuClientRequests,
    FcuEngineStatus,                              \* answers to an fcU
    NpControllerTask, NpClientTask,               \* newPayload requests
    NpControllerRequests, NpClientRequests,
    fcu_cache_size, justified_block_cache_size, finalized_block_cache_size,
    fcu_matching,
    new_payload_cache_size, new_payload_wait_cutoff,
    MaxPolls, ConsistentEngine, Unreliable

VARIABLES
    fcu_cache, justified_block_cache, finalized_block_cache,
    fcu_task, orphans, el_forkchoice, fcu_said,
    new_payload_cache, np_task, np_said

FcuHandlers ==
    INSTANCE ForkchoiceUpdated WITH
        ControllerTask <- FcuControllerTask, ClientTask <- FcuClientTask,
        ControllerRequests <- FcuControllerRequests,
        ClientRequests <- FcuClientRequests,
        EngineStatus <- FcuEngineStatus,
        task <- fcu_task, el_said <- fcu_said

NpHandlers ==
    INSTANCE NewPayload WITH
        ControllerTask <- NpControllerTask, ClientTask <- NpClientTask,
        ControllerRequests <- NpControllerRequests,
        ClientRequests <- NpClientRequests,
        task <- np_task, el_said <- np_said

\* Version v of the attributes of r, if r decodes so, is among Attributes.
AttributesCovered(r, v) ==
    AttributesDecodeAs(r.attrs, v) =>
        DecodedAttributes(r.attrs, v) \in Attributes \cup {NoAttributes}

\* The hash of a block covers its number.
ASSUME MultiplexerAssumption ==
    /\ Genesis \in Block
    /\ FcuControllerTask \cap FcuClientTask = {}
    /\ FcuControllerRequests \subseteq FcuHandlers!Request
    /\ FcuClientRequests \subseteq FcuHandlers!Request
    /\ FcuEngineStatus \subseteq Status
    /\ \A r \in FcuControllerRequests :
          AttributesCovered(r, FcuHandlers!ControllerAttributesVersion(r.method))
    /\ \A r \in FcuClientRequests :
          AttributesCovered(r, FcuHandlers!ClientAttributesVersion)
    /\ NpControllerTask \cap NpClientTask = {}
    /\ NpControllerRequests \subseteq NpHandlers!Request
    /\ NpClientRequests \subseteq NpHandlers!Request
    /\ \A r \in NpControllerRequests :
          r.payload.number = BlockInfo[r.payload.hash].block_number
    /\ fcu_cache_size \in Nat \ {0}
    /\ justified_block_cache_size \in Nat \ {0}
    /\ finalized_block_cache_size \in Nat
    /\ fcu_matching \in FcuHandlers!FcuMatching
    /\ new_payload_cache_size \in Nat \ {0}
    /\ new_payload_wait_cutoff \in Nat
    /\ MaxPolls \in Nat
    /\ ConsistentEngine \in BOOLEAN
    /\ Unreliable \in BOOLEAN

FcuTask == FcuControllerTask \cup FcuClientTask

NpTask == NpControllerTask \cup NpClientTask

fcuVars == <<fcu_cache, justified_block_cache, finalized_block_cache,
             fcu_task, orphans, el_forkchoice, fcu_said>>

npVars == <<new_payload_cache, np_task, np_said>>

muxVars == <<vars, fcuVars, npVars>>

MuxInit ==
    /\ Init
    /\ FcuHandlers!Init
    /\ NpHandlers!Init

-----------------------------------------------------------------------------
(* Steps of the fcU handlers.                                              *)

FcuProceeds ==
    /\ \/ \E t \in FcuControllerTask, r \in FcuControllerRequests :
             FcuHandlers!ControllerReceives(t, r)
       \/ \E t \in FcuClientTask, r \in FcuClientRequests :
             FcuHandlers!ClientReceives(t, r)
       \/ \E t \in FcuTask :
             \/ FcuHandlers!HandlerStep(t)
             \/ FcuHandlers!EngineCallEnds(t)
             \/ FcuHandlers!Disconnect(t)
       \/ \E fcu \in orphans, status \in FcuEngineStatus :
             FcuHandlers!EngineProcessesOrphan(fcu, status)
    /\ UNCHANGED <<vars, npVars>>

\* What the builder is asked about on behalf of fcU task t.
KeyOf(t) ==
    [parent_hash |-> fcu_task[t].fcu.head_block_hash,
     attributes |-> fcu_task[t].attrs]

RegisterAttributes(t) ==
    /\ \E outcome \in BuilderOutcome :
          /\ FcuHandlers!RegisterAttributes(t, outcome)
          /\ register_attributes(KeyOf(t), outcome)
    /\ UNCHANGED npVars

GetExistingPayloadId(t) ==
    /\ FcuHandlers!GetExistingPayloadId(t)
    /\ get_existing_payload_id(KeyOf(t))
    /\ UNCHANGED npVars

-----------------------------------------------------------------------------
(* Steps of the newPayload handlers, and getPayload.                       *)

NpProceeds ==
    /\ \/ \E t \in NpControllerTask, r \in NpControllerRequests :
             NpHandlers!ControllerReceives(t, r)
       \/ \E t \in NpClientTask, r \in NpClientRequests :
             NpHandlers!ClientReceives(t, r)
       \/ \E t \in NpTask :
             \/ NpHandlers!HandlerStep(t)
             \/ NpHandlers!EngineCallEnds(t)
             \/ NpHandlers!Disconnect(t)
    /\ UNCHANGED <<vars, fcuVars>>

RegisterCanonicalPayload(t) ==
    /\ NpHandlers!RegisterCanonicalPayload(t)
    /\ register_canonical_payload(np_task[t].request.payload.hash,
                                  np_task[t].found)
    /\ UNCHANGED fcuVars

GetPayload ==
    /\ \E id \in 0 .. MaxPayloadId : get_payload(id)
    /\ UNCHANGED <<fcuVars, npVars>>

MuxNext ==
    \/ FcuProceeds
    \/ \E t \in FcuControllerTask : RegisterAttributes(t)
    \/ \E t \in FcuClientTask : GetExistingPayloadId(t)
    \/ NpProceeds
    \/ \E t \in NpControllerTask : RegisterCanonicalPayload(t)
    \/ GetPayload

MuxSpec == MuxInit /\ [][MuxNext]_muxVars

-----------------------------------------------------------------------------
(* Properties.                                                             *)

\* Type correctness of every part.
MuxTypeOK ==
    /\ TypeOK
    /\ FcuHandlers!TypeOK
    /\ NpHandlers!TypeOK

(***************************************************************************)
(* Dummy payloads extend real blocks.  Whatever heads the fcUs name, every *)
(* payload the builder keeps is built on a block the controller sent with  *)
(* newPayload and the engine did not reject at that time, and its number   *)
(* is one above that block's.                                              *)
(***************************************************************************)
PayloadsExtendAnsweredBlocks ==
    \A id \in DOMAIN payloads :
        LET payload == payloads[id].val IN
        \E said \in np_said :
            /\ said[1].hash = payload.parent_hash
            /\ said[2] \notin {"INVALID", "INVALID_BLOCK_HASH"}
            /\ payload.block_number = said[1].number + 1

(***************************************************************************)
(* register_canonical_payload is to "track a payload from the canonical    *)
(* chain", "used for building descendant payloads".  So a block the        *)
(* controller has just been told is VALID is one its attributes can build  *)
(* on, if the builder has room for every block.  It need not be: when the  *)
(* controller's connection breaks after the put into new_payload_cache and *)
(* before the builder's lock is had, the repeated request is answered from *)
(* the cache and the block is never tracked.                               *)
(***************************************************************************)
AnsweredPayloadsAreTracked ==
    \A t \in NpControllerTask :
        np_task[t].pc = "idle" /\ np_task[t].reply = "VALID" =>
            LruContains(payload_info, np_task[t].request.payload.hash)

\* The key under which handle_controller_fcu files request r.
ControllerKey(r) ==
    [parent_hash |-> r.fcu.head_block_hash,
     attributes |-> DecodedAttributes(r.attrs,
                        FcuHandlers!ControllerAttributesVersion(r.method))]

\* The requests that client task t may have been sent.
RequestsOf(t) ==
    {r \in FcuClientRequests :
        /\ r.fcu = fcu_task[t].fcu
        /\ DecodedAttributes(r.attrs, FcuHandlers!ClientAttributesVersion)
              = fcu_task[t].attrs}

(***************************************************************************)
(* README.md has the controller send payload attributes every slot so that *)
(* the other nodes find dummy payloads.  So when the payload for a request *)
(* of the controller's is there, a client with the very same request finds *)
(* it, however the two were decoded on their way to the builder's key.     *)
(* With a V3 request it never does: handle_fcu decodes the attributes as   *)
(* V2 all the same, handle_controller_fcu as V3, and the key tells the two *)
(* apart.                                                                  *)
(***************************************************************************)
SameRequestFindsThePayload ==
    \A t \in FcuClientTask :
        /\ fcu_task[t].pc = "attributes"
        /\ \A r \in RequestsOf(t) :
              LruContains(payload_attributes, ControllerKey(r))
        => LruContains(payload_attributes, KeyOf(t))
=============================================================================
