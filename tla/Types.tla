------------------------------- MODULE Types -------------------------------
(***************************************************************************)
(* The vocabulary the request handlers share: payload statuses, JSON-RPC   *)
(* error codes, fork choice states and payload attributes.                 *)
(***************************************************************************)
EXTENDS Naturals

\* JsonPayloadStatusV1Status.
Status == {"VALID", "INVALID", "INVALID_BLOCK_HASH", "ACCEPTED", "SYNCING"}

\* The error codes of JSON-RPC and the engine API.
ErrorCode == {"ParseError", "InvalidRequest", "MethodNotFound",
              "InvalidParams", "InternalError", "ServerError",
              "UnknownPayload", "InvalidForkChoiceState",
              "InvalidPayloadAttributes", "TooLargeRequest"}

\* How register_attributes may end: with an id, an error, or a panic.
BuilderOutcome == {"ok", "InvalidPayloadAttributes", "dropped"}

\* A definite status is final; ACCEPTED and SYNCING may still change.
IsDefinite(status) == status \in {"VALID", "INVALID", "INVALID_BLOCK_HASH"}

\* JsonForkchoiceStateV1 over a set of block hashes.
ForkchoiceState(Block) ==
    [head_block_hash : Block, safe_block_hash : Block,
     finalized_block_hash : Block]

(***************************************************************************)
(* Payload attributes carry the fields of version 1, 2 (adds withdrawals)  *)
(* or 3 (adds parent_beacon_block_root).  Decoding as version v needs      *)
(* every field of v and drops the others; the result is a value of version *)
(* v, different from any value of another version even if the remaining    *)
(* fields agree.  Version 0 stands for a request without attributes.       *)
(***************************************************************************)
PayloadAttributes(Timestamp) == [version : 1 .. 3, timestamp : Timestamp]

NoAttributes == [version |-> 0, timestamp |-> 0]

AttributesDecodeAs(wire, v) == wire.version = 0 \/ wire.version >= v

DecodedAttributes(wire, v) ==
    IF wire.version = 0 THEN NoAttributes ELSE [wire EXCEPT !.version = v]
=============================================================================
