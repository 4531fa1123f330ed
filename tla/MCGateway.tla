---------------------------- MODULE MCGateway ----------------------------
(***************************************************************************)
(* Configurations, tokens and bodies for the run of Gateway.               *)
(***************************************************************************)
EXTENDS Gateway, TLC

CONSTANTS k1, k2, kc, node1, node2, node3

MCSecret == {k1, k2, kc}

MCNodeId == {node1, node2, node3}

MCSizes == [option \in SizeOption |-> 1]

\* node3 is never configured.
Usable ==
    [controller |-> kc, readable |-> TRUE,
     client |-> node1 :> k1 @@ node2 :> k2,
     engine_ok |-> TRUE, network_known |-> TRUE, sizes |-> MCSizes]

\* The usable configuration, after a rotation of the keys, with a client that
\* has the controller's secret, without clients, and with one thing wrong.
MCConfigs ==
    {Usable,
     [Usable EXCEPT !.controller = k2, !.client = node1 :> kc @@ node2 :> k1],
     [Usable EXCEPT !.client = node1 :> kc],
     [Usable EXCEPT !.client = << >>],
     [Usable EXCEPT !.controller = Undecodable],
     [Usable EXCEPT !.client[node2] = Undecodable],
     [Usable EXCEPT !.readable = FALSE],
     [Usable EXCEPT !.engine_ok = FALSE],
     [Usable EXCEPT !.network_known = FALSE]} \cup
    {[Usable EXCEPT !.sizes[option] = 0] : option \in SizeOption}

MCTokens ==
    {NoToken} \cup
    [key : MCSecret \cup {Undecodable}, id : {node1, node3, NoId},
     present : {TRUE}]

RequestOf(id, method, params_ok) ==
    [id |-> id, method |-> method, params_ok |-> params_ok]

Single(request) == [kind |-> "single", requests |-> <<request>>]

Batch(requests) == [kind |-> "batch", requests |-> requests]

\* Every method with good and bad parameters, and batches of 0, 2 and 3.
MCBodies ==
    {Single(RequestOf(1, method, ok)) : method \in Method, ok \in BOOLEAN} \cup
    {Batch(<<>>),
     Batch(<<RequestOf(1, "eth_chainId", FALSE),
             RequestOf(2, "engine_newPayload", TRUE)>>),
     Batch(<<RequestOf(2, "engine_forkchoiceUpdated", TRUE),
             RequestOf(1, "unknown", TRUE),
             RequestOf(3, "eth_call", TRUE)>>),
     [kind |-> "garbled", requests |-> <<>>]}
=============================================================================
