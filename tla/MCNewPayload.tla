--------------------------- MODULE MCNewPayload ---------------------------
(***************************************************************************)
(* Requests and a fork schedule for the runs of NewPayload.                *)
(***************************************************************************)
EXTENDS NewPayload, TLC

CONSTANTS b1, b2, b3

MCBlock == {b1, b2, b3}

\* Two slots per fork; Bellatrix starts at slot 2 and Fulu at slot 10.
MCForkSlot == <<0, 1, 2, 4, 6, 8, 10>>

PayloadOf(hash, number, timestamp, version, honest) ==
    [hash |-> hash, number |-> number, timestamp |-> timestamp,
     version |-> version, honest |-> honest]

RequestOf(method, payload, hashes_ok) ==
    [method |-> method, arity |-> ParametersOf(method), wellformed |-> TRUE,
     hashes_ok |-> hashes_ok, payload |-> payload]

\* Electra payloads at block numbers 1, 2 and 4, honest or corrupted.
ElectraPayload(hash, honest) ==
    PayloadOf(hash, CASE hash = b1 -> 1 [] hash = b2 -> 2 [] OTHER -> 4,
              genesis_time + 8 * seconds_per_slot, 4, honest)

HonestRequests ==
    {RequestOf(4, ElectraPayload(h, TRUE), TRUE) : h \in MCBlock}

OneRequest == {RequestOf(4, ElectraPayload(b1, TRUE), TRUE)}

MixedRequests ==
    {RequestOf(4, ElectraPayload(h, honest), hashes_ok) :
        h \in {b1, b2}, honest \in BOOLEAN, hashes_ok \in BOOLEAN}

\* Before genesis, and the first slot of each fork.
Timestamps ==
    {genesis_time - 1} \cup
    {genesis_time + MCForkSlot[i] * seconds_per_slot : i \in 1 .. 7}

\* Every method on every payload version at every fork, and every method with
\* every number of parameters, well-formed or not.
AllShapes ==
    {RequestOf(m, PayloadOf(b1, 1, timestamp, v, TRUE), TRUE) :
        m \in 1 .. 4, v \in 1 .. 4, timestamp \in Timestamps} \cup
    {[RequestOf(m, ElectraPayload(b1, TRUE), TRUE) EXCEPT
         !.arity = a, !.wellformed = w] :
        m \in 1 .. 4, a \in 0 .. 4, w \in BOOLEAN}
=============================================================================
