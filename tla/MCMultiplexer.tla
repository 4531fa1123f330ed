--------------------------- MODULE MCMultiplexer ---------------------------
(***************************************************************************)
(* Blocks, requests and a fork schedule for the runs of Multiplexer.       *)
(***************************************************************************)
EXTENDS Multiplexer, TLC

CONSTANTS b0, b1, b2

MCForkSlot == <<0, 1, 2, 3, 4, 5, 6>>

InfoOf(number, fee, used, limit) ==
    [block_number |-> number, base_fee_per_gas |-> fee, gas_used |-> used,
     gas_limit |-> limit]

MCBlock == {b0, b1, b2}

\* Genesis, a full block, and one whose gas limit makes the base fee
\* computation divide by 0.
MCBlockInfo ==
    [b \in MCBlock |-> CASE b = b0 -> InfoOf(0, 8, 0, 30)
                         [] b = b1 -> InfoOf(1, 7, 30, 30)
                         [] b = b2 -> InfoOf(2, 7, 1, 1)]

AttributesAt(slot, version) ==
    [version |-> version, timestamp |-> genesis_time + slot * seconds_per_slot]

\* Every value the requests below decode to.
MCAttributes ==
    {AttributesAt(slot, version) : slot \in 2 .. 6, version \in 2 .. 3}

FcuOf(head, method, attrs) ==
    [fcu |-> [head_block_hash |-> head, safe_block_hash |-> b0,
              finalized_block_hash |-> b0],
     method |-> method, wellformed |-> TRUE, attrs |-> attrs]

\* newPayload of block b with the attributes' fork.
NewPayloadOf(b) ==
    [method |-> 4, arity |-> 4, wellformed |-> TRUE, hashes_ok |-> TRUE,
     payload |-> [hash |-> b, number |-> MCBlockInfo[b].block_number,
                  timestamp |-> genesis_time + 5 * seconds_per_slot,
                  version |-> 4, honest |-> TRUE]]

\* Attributes for three payloads on one block, at a fork without a payload
\* form, and on the block that panics.
AttributeRequests ==
    {FcuOf(b1, 2, AttributesAt(2, 2)), FcuOf(b1, 3, AttributesAt(4, 3)),
     FcuOf(b1, 3, AttributesAt(5, 3)), FcuOf(b1, 3, AttributesAt(6, 3)),
     FcuOf(b2, 3, AttributesAt(5, 3))}

ClientAttributeRequests == {FcuOf(b1, 2, AttributesAt(2, 2))}

NewPayloads == {NewPayloadOf(b) : b \in {b1, b2}}

\* For the findings.
OneNewPayload == {NewPayloadOf(b1)}

OneAttributeRequest == {FcuOf(b1, 3, AttributesAt(5, 3))}
=============================================================================
