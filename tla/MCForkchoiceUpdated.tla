------------------------ MODULE MCForkchoiceUpdated ------------------------
(***************************************************************************)
(* Requests for the runs of ForkchoiceUpdated.                             *)
(***************************************************************************)
EXTENDS ForkchoiceUpdated, TLC

CONSTANTS b0, b1, b2

ForkchoiceOf(head, safe, finalized) ==
    [head_block_hash |-> head, safe_block_hash |-> safe,
     finalized_block_hash |-> finalized]

PlainRequest(fcu) ==
    [fcu |-> fcu, method |-> 3, wellformed |-> TRUE, attrs |-> NoAttributes]

\* Two heads on the same checkpoints, and one that justifies a new block.
PlainRequests ==
    {PlainRequest(f) : f \in {ForkchoiceOf(b1, b0, b0),
                              ForkchoiceOf(b2, b0, b0),
                              ForkchoiceOf(b2, b1, b0)}}

\* Requests that differ in how they parse and in the attributes they carry.
ShapedRequests ==
    {[fcu |-> ForkchoiceOf(b1, b0, b0), method |-> m, wellformed |-> w,
      attrs |-> a] :
        m \in 1 .. 3, w \in BOOLEAN,
        a \in {NoAttributes, [version |-> 2, timestamp |-> 12],
               [version |-> 3, timestamp |-> 12]}}

TwoHeads ==
    {PlainRequest(f) : f \in {ForkchoiceOf(b1, b0, b0),
                              ForkchoiceOf(b2, b0, b0)}}

\* Two heads, the second of which justifies and finalizes a new block.
JustifyingRequests ==
    {PlainRequest(f) : f \in {ForkchoiceOf(b1, b0, b0),
                              ForkchoiceOf(b2, b1, b1)}}

\* A fork choice nobody sends to the engine: the head and the finalized block
\* of the first with the safe block of the second.
CombinedRequest == {PlainRequest(ForkchoiceOf(b1, b1, b0))}

MCBlock == {b0, b1, b2}

\* Controller requests are interchangeable.
ControllerSymmetry == Permutations(ControllerTask)
=============================================================================
