------------------------------ MODULE Gateway ------------------------------
(***************************************************************************)
(* The process around the handlers: start-up from the command line and the *)
(* secrets files (src/main.rs, config.rs, jwt.rs and Multiplexer::new),    *)
(* the two JSON-RPC routes with their authentication and dispatch, and the *)
(* handlers of src/meta.rs.  The handlers of the other modules appear by   *)
(* name, with the outcomes those modules give them.                        *)
(*                                                                         *)
(* What is read at start is never read again: config stays as it was until *)
(* the next launch, whatever becomes of the files.                         *)
(***************************************************************************)
EXTENDS Types, Sequences

CONSTANTS
    Conn,        \* connections
    Secret,      \* keys that hex::decode and HMAC take
    Undecodable, \* the contents of a secrets file or entry that they do not
    NodeId,      \* key IDs, configured or not
    NoId,        \* no id in the claims
    Configs,     \* what the operator may launch with
    Tokens,      \* bearer tokens that arrive
    Bodies       \* request bodies that arrive

ASSUME SecretAssumption == Undecodable \notin Secret /\ NoId \notin NodeId

VARIABLES
    phase,       \* exited, loading, starting (awaits the genesis state), serving
    config,      \* command line and files, as read by this process
    app,         \* AppState
    conn         \* the state of each connection

vars == <<phase, config, app, conn>>

-----------------------------------------------------------------------------
(* Configuration.                                                          *)

\* The options that size a cache.
SizeOption == {"fcu_cache_size", "new_payload_cache_size",
               "justified_block_cache_size", "finalized_block_cache_size",
               "payload_builder_cache_size"}

\* Secrets from S by key ID.
SecretsById(S) == UNION {[ids -> S] : ids \in SUBSET NodeId}

\* controller and client are the contents of the secrets files; readable says
\* that the clients' is a TOML file of the expected form, engine_ok that the
\* engine's secret and URL are usable, network_known that --network is.
Config ==
    [controller : Secret \cup {Undecodable},
     readable : BOOLEAN,
     client : SecretsById(Secret \cup {Undecodable}),
     engine_ok : BOOLEAN,
     network_known : BOOLEAN,
     sizes : [SizeOption -> Nat]]

\* ClientJwtSecrets::from_file: the secrets by key ID, or an error (nothing).
from_file(c) == IF c.readable THEN {c.client} ELSE {}

\* The bug of leaving out the secrets that do not decode.
LoadWhatDecodes(c) ==
    {[id \in {i \in DOMAIN raw : raw[i] \in Secret} |-> raw[id]] :
        raw \in from_file(c)}

\* KeyCollection::load: all the secrets, or an error.
load(c) ==
    {raw \in from_file(c) : \A id \in DOMAIN raw : raw[id] \in Secret}

\* The bug of taking a secret as it is when it is not hex.
RawContents(contents) == {contents}

jwt_secret_from_path(contents) == {contents} \cap Secret

\* The option Multiplexer::new sizes each cache by; finalized_block_cache_size
\* is never looked at.
SizedBy ==
    [fcu_cache |-> "fcu_cache_size",
     new_payload_cache |-> "new_payload_cache_size",
     justified_block_cache |-> "justified_block_cache_size",
     finalized_block_cache |-> "justified_block_cache_size",
     payload_builder |-> "payload_builder_cache_size"]

Capacities(c) == [cache \in DOMAIN SizedBy |-> c.sizes[SizedBy[cache]]]

\* Multiplexer::new succeeds, up to the genesis state.
Constructible(c) ==
    /\ c.engine_ok
    /\ c.network_known
    /\ \A cache \in DOMAIN SizedBy : Capacities(c)[cache] # 0

AppState ==
    [controller_jwt_secret : Secret,
     client_jwt_collection : SecretsById(Secret),
     capacities : [DOMAIN SizedBy -> Nat \ {0}]]

-----------------------------------------------------------------------------
(* JWT.  A token is signed with a key, or has none if it does not parse.   *)

NoToken == [key |-> Undecodable, id |-> NoId, present |-> FALSE]

Token == [key : Secret \cup {Undecodable}, id : NodeId \cup {NoId},
          present : BOOLEAN]

verify_single_token(token, secret) == token.key = secret

\* The bug of going on to the other keys when the one named does not fit.
VerifyWithAnyKey(token, secrets) ==
    \E id \in DOMAIN secrets : verify_single_token(token, secrets[id])

\* KeyCollection::verify: the key the token names, or any if there is no such.
verify(token, secrets) ==
    IF token.id \in DOMAIN secrets
    THEN verify_single_token(token, secrets[token.id])
    ELSE \E id \in DOMAIN secrets : verify_single_token(token, secrets[id])

Authenticated(route, token) ==
    IF route = "/canonical"
    THEN verify_single_token(token, app.controller_jwt_secret)
    ELSE verify(token, app.client_jwt_collection)

-----------------------------------------------------------------------------
(* Requests and their dispatch.                                            *)

Route == {"/", "/canonical"}

Method == {"engine_forkchoiceUpdated", "engine_newPayload",
           "engine_getPayload", "engine_exchangeCapabilities", "eth_syncing",
           "eth_chainId", "eth_call", "unknown"}

Request == [id : Nat, method : Method, params_ok : BOOLEAN]

\* garbled: not JSON, not a request or a list of them, or too large.
Body == [kind : {"single", "batch", "garbled"}, requests : Seq(Request)]

\* Only clients may send batches.
Parses(route, body) ==
    body.kind = "single" \/ (body.kind = "batch" /\ route = "/")

\* eth_call stands for every method proxy_directly forwards.
CommonHandler(method) ==
    CASE method = "engine_getPayload"           -> "handle_get_payload"
      [] method = "engine_exchangeCapabilities" -> "handle_engine_capabilities"
      [] method = "eth_syncing"                 -> "handle_syncing"
      [] method = "eth_chainId"                 -> "handle_chain_id"
      [] method = "eth_call"                    -> "proxy_directly"
      [] OTHER                                  -> "unsupported_method"

ControllerHandler(method) ==
    CASE method = "engine_forkchoiceUpdated" -> "handle_controller_fcu"
      [] method = "engine_newPayload"        -> "handle_controller_new_payload"
      [] OTHER                               -> CommonHandler(method)

process_client_request(method) ==
    CASE method = "engine_forkchoiceUpdated" -> "handle_fcu"
      [] method = "engine_newPayload"        -> "handle_new_payload"
      [] OTHER                               -> CommonHandler(method)

\* The bug of one dispatch for both routes.
DispatchIgnoringRoute(route, request) == ControllerHandler(request.method)

Handler(route, request) ==
    IF route = "/canonical" THEN ControllerHandler(request.method)
    ELSE process_client_request(request.method)

DrivesEngine == {"handle_controller_fcu", "handle_controller_new_payload"}

\* The handlers that may wait for the engine once the parameters have parsed.
EngineBound ==
    DrivesEngine \cup
    {"handle_chain_id", "handle_engine_capabilities", "proxy_directly"}

\* The constants are of these kinds.
ASSUME InputsAssumption ==
    Configs \subseteq Config /\ Tokens \subseteq Token /\ Bodies \subseteq Body

-----------------------------------------------------------------------------
(* A connection.  calls is the sequence of handlers its body has reached.  *)

Answer == [id : Nat, outcome : {"ok"} \cup ErrorCode]

ReplyOf(kind, answers) == [kind |-> kind, answers |-> answers]

NoReply == ReplyOf("none", <<>>)

\* What a body gets that is not authenticated or does not parse.
Refusal == ReplyOf("single", <<[id |-> 0, outcome |-> "ParseError"]>>)

Idle(reply) ==
    [pc |-> "idle", route |-> "/", token |-> NoToken,
     body |-> [kind |-> "garbled", requests |-> <<>>],
     calls |-> <<>>, answers |-> <<>>, reply |-> reply]

Current(s) == s.body.requests[Len(s.answers) + 1]

CurrentHandler(s) == Handler(s.route, Current(s))

\* Start the next request of the body, or send the answers.
Continue(s) ==
    IF Len(s.answers) = Len(s.body.requests)
    THEN [s EXCEPT !.pc = "idle", !.reply = ReplyOf(s.body.kind, s.answers)]
    ELSE [s EXCEPT !.pc = "handler",
                   !.calls = Append(@, CurrentHandler(s))]

\* The bug of a batch that ends with the first error.
AfterAnswerUnlessError(s, outcome) ==
    LET t == [s EXCEPT !.answers =
                Append(@, [id |-> Current(s).id, outcome |-> outcome])]
    IN  IF outcome = "ok" THEN Continue(t)
        ELSE [t EXCEPT !.pc = "idle", !.reply = ReplyOf(s.body.kind, t.answers)]

\* The current request is answered; a batch goes on, whatever the answer.
AfterAnswer(s, outcome) ==
    Continue([s EXCEPT !.answers =
                Append(@, [id |-> Current(s).id, outcome |-> outcome])])

-----------------------------------------------------------------------------
(* The life of the process.                                                *)

Init ==
    /\ phase = "exited"
    /\ config \in Configs
    /\ app = [controller_jwt_secret |-> Undecodable,
              client_jwt_collection |-> <<>>, capacities |-> <<>>]
    /\ conn = [c \in Conn |-> Idle(NoReply)]

\* The operator starts eleel.
Launch(c) ==
    /\ phase = "exited"
    /\ phase' = "loading"
    /\ config' = c
    /\ UNCHANGED <<app, conn>>

\* main, up to the genesis state: every unwrap that fails ends the process.
Load ==
    /\ phase = "loading"
    /\ Constructible(config)
    /\ \E secret \in jwt_secret_from_path(config.controller),
          secrets \in load(config) :
          /\ phase' = "starting"
          /\ app' = [controller_jwt_secret |-> secret,
                     client_jwt_collection |-> secrets,
                     capacities |-> Capacities(config)]
    /\ UNCHANGED <<config, conn>>

LoadFails ==
    /\ phase = "loading"
    /\ \/ load(config) = {}
       \/ jwt_secret_from_path(config.controller) = {}
       \/ ~Constructible(config)
    /\ phase' = "exited"
    /\ UNCHANGED <<config, app, conn>>

\* The genesis state has come and the port is bound.
Serve ==
    /\ phase = "starting"
    /\ phase' = "serving"
    /\ UNCHANGED <<config, app, conn>>

\* The process ends: no genesis state, the port is taken, or it is stopped.
\* Its connections break, and the next process has new ones.
Exit ==
    /\ phase \in {"starting", "serving"}
    /\ phase' = "exited"
    /\ conn' = [c \in Conn |->
                   Idle(IF conn[c].pc = "idle" THEN NoReply
                        ELSE ReplyOf("dropped", <<>>))]
    /\ UNCHANGED <<config, app>>

-----------------------------------------------------------------------------
(* handle_client_json_rpc and handle_controller_json_rpc.                  *)

\* The header is extracted first and the token verified before the body is
\* looked at, though the body has been read by then.
Receive(c, route, token, body) ==
    /\ phase = "serving"
    /\ conn[c].pc = "idle"
    /\ LET s == [Idle(NoReply) EXCEPT
                    !.route = route, !.token = token, !.body = body]
       IN  conn' = [conn EXCEPT ![c] =
              IF ~token.present
              THEN [s EXCEPT !.reply = ReplyOf("bad_request", <<>>)]
              ELSE IF Authenticated(route, token) /\ Parses(route, body)
                   THEN Continue(s)
                   ELSE [s EXCEPT !.reply = Refusal]]
    /\ UNCHANGED <<phase, config, app>>

\* How a handler may end by itself.  handle_syncing never asks the engine, and
\* proxy_directly leaves the parameters to it.
OwnOutcomes(s) ==
    LET handler == CurrentHandler(s) IN
    IF handler = "unsupported_method" THEN {"MethodNotFound"}
    ELSE IF handler = "proxy_directly" THEN {}
    ELSE IF ~Current(s).params_ok THEN {"ParseError"}
    ELSE CASE handler \in EngineBound       -> {}
           [] handler = "handle_new_payload" -> {"ok", "InvalidRequest"}
           [] handler = "handle_get_payload" -> {"ok", "UnknownPayload"}
           [] OTHER                          -> {"ok"}

\* What becomes of a request at the engine: an answer, an error, or for the
\* controller's attributes the builder's error.
EngineOutcomes(s) ==
    LET handler == CurrentHandler(s) IN
    CASE handler = "handle_controller_fcu" ->
            {"ok", "InvalidRequest", "InvalidPayloadAttributes"}
      [] handler = "handle_controller_new_payload" -> {"ok", "InvalidRequest"}
      [] OTHER -> {"ok", "ParseError"}

TimeoutOutcome(s) ==
    IF CurrentHandler(s) \in DrivesEngine THEN "InvalidRequest"
    ELSE "ParseError"

AtEngine(s) ==
    /\ s.pc = "handler"
    /\ CurrentHandler(s) \in EngineBound
    /\ OwnOutcomes(s) = {}

HandlerAnswers(c) ==
    /\ conn[c].pc = "handler"
    /\ \E outcome \in OwnOutcomes(conn[c]) :
          conn' = [conn EXCEPT ![c] = AfterAnswer(@, outcome)]
    /\ UNCHANGED <<phase, config, app>>

\* The engine answers, or a cache does in its place.
EngineAnswers(c) ==
    /\ AtEngine(conn[c])
    /\ \E outcome \in EngineOutcomes(conn[c]) :
          conn' = [conn EXCEPT ![c] = AfterAnswer(@, outcome)]
    /\ UNCHANGED <<phase, config, app>>

\* The bug of forwarding without a timeout.
TimesOutUnlessProxied(c) ==
    /\ AtEngine(conn[c])
    /\ CurrentHandler(conn[c]) # "proxy_directly"
    /\ conn' = [conn EXCEPT ![c] = AfterAnswer(@, TimeoutOutcome(@))]
    /\ UNCHANGED <<phase, config, app>>

\* Every call to the engine has a timeout: 1 s for the chain id, 12 s for a
\* forwarded request, the client library's own for the others.
TimesOut(c) ==
    /\ AtEngine(conn[c])
    /\ conn' = [conn EXCEPT ![c] = AfterAnswer(@, TimeoutOutcome(@))]
    /\ UNCHANGED <<phase, config, app>>

\* The peer goes away, or register_attributes panics on its behalf: the task
\* of the connection ends, and with it what is left of a batch.
Drop(c) ==
    /\ conn[c].pc = "handler"
    /\ conn' = [conn EXCEPT ![c].pc = "idle",
                            ![c].reply = ReplyOf("dropped", <<>>)]
    /\ UNCHANGED <<phase, config, app>>

Next ==
    \/ \E c \in Configs : Launch(c)
    \/ Load
    \/ LoadFails
    \/ Serve
    \/ Exit
    \/ \E c \in Conn :
          \/ \E route \in Route, token \in Tokens, body \in Bodies :
                Receive(c, route, token, body)
          \/ HandlerAnswers(c)
          \/ EngineAnswers(c)
          \/ TimesOut(c)
          \/ Drop(c)

Spec == Init /\ [][Next]_vars

\* The runtime polls every handler that can go on and fires every timer; that
\* the engine ever answers, or that anyone goes away, is not assumed.
FairSpec ==
    /\ Spec
    /\ \A c \in Conn : WF_vars(HandlerAnswers(c)) /\ WF_vars(TimesOut(c))

-----------------------------------------------------------------------------
(* Properties.                                                             *)

\* Type correctness: what main has loaded is complete and usable, and a handler
\* is only ever waiting in a process that serves.
TypeOK ==
    /\ phase \in {"exited", "loading", "starting", "serving"}
    /\ config \in Configs
    /\ phase \in {"starting", "serving"} => app \in AppState
    /\ \A c \in Conn :
          LET s == conn[c] IN
          /\ s.pc \in {"idle", "handler"}
          /\ s.pc = "handler" => /\ phase = "serving"
                                 /\ Len(s.answers) < Len(s.body.requests)
          /\ s.reply.kind \in {"none", "bad_request", "dropped",
                               "single", "batch"}
          /\ \A i \in DOMAIN s.answers : s.answers[i] \in Answer

(***************************************************************************)
(* A body is taken as a whole or not at all.  Either it is refused and     *)
(* none of its requests has reached a handler, or it is answered in its    *)
(* own form, every request has reached its handler once and in turn, and   *)
(* the answers carry the ids of the requests in their order, whichever of  *)
(* them are errors.  A connection that breaks has reached the handlers of  *)
(* a first part of the body and no others.                                 *)
(***************************************************************************)
AnswersMatchRequests ==
    \A c \in Conn :
        LET s == conn[c]
            requests == s.body.requests
        IN  /\ Len(s.calls) <= Len(requests)
            /\ \A i \in DOMAIN s.calls :
                  s.calls[i] = Handler(s.route, requests[i])
            /\ s.reply.kind \in {"single", "batch"} =>
                  \/ s.reply = Refusal /\ s.calls = <<>>
                  \/ /\ s.reply.kind = s.body.kind
                     /\ Len(s.calls) = Len(requests)
                     /\ [i \in DOMAIN s.reply.answers |-> s.reply.answers[i].id]
                           = [i \in DOMAIN requests |-> requests[i].id]

(***************************************************************************)
(* README.md: the controller drives the engine and is known by the secret  *)
(* it was given; clients are known by "one of the secrets", the one their  *)
(* key ID stands for if it is configured.  Measured against the files the  *)
(* process was launched with: whatever reached a handler came with such a  *)
(* token, and the handlers that drive the engine were reached with the     *)
(* controller's alone.                                                     *)
(***************************************************************************)
OnlyKnownNodesAreServed ==
    \A c \in Conn :
        LET s == conn[c]
            client == config.client
        IN  s.calls # <<>> =>
                /\ s.route = "/canonical" => s.token.key = config.controller
                /\ s.route = "/" =>
                      \E id \in DOMAIN client :
                          /\ client[id] = s.token.key
                          /\ s.token.id \in DOMAIN client => id = s.token.id
                /\ \A i \in DOMAIN s.calls :
                      s.calls[i] \in DrivesEngine =>
                          s.token.key = config.controller

\* A token of the node with this secret.
TokenOf(secret, id) == [key |-> secret, id |-> id, present |-> TRUE]

(***************************************************************************)
(* README.md: nodes "can be authenticated using any of a collection of JWT *)
(* secrets", by the key ID of their tokens or, "if the id is not set", by  *)
(* trying all of the keys.  So a process that serves knows the controller  *)
(* and every node of its file by either kind of token: KeyCollection::load *)
(* does not go on without a secret that it cannot decode.                  *)
(***************************************************************************)
ConfiguredNodesAreAdmitted ==
    phase = "serving" =>
        /\ Authenticated("/canonical", TokenOf(config.controller, NoId))
        /\ \A node \in DOMAIN config.client : \A id \in {node, NoId} :
              Authenticated("/", TokenOf(config.client[node], id))

(***************************************************************************)
(* Every body is answered or its connection broken, also if the engine     *)
(* never answers again: each request of a batch ends at its handler's own  *)
(* pace or at its timeout.                                                 *)
(***************************************************************************)
BodiesAreAnswered ==
    \A c \in Conn : conn[c].pc = "handler" ~> conn[c].pc = "idle"
=============================================================================
