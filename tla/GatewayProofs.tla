--------------------------- MODULE GatewayProofs ---------------------------
(***************************************************************************)
(* The safety properties of Gateway, for any connections, tokens, bodies   *)
(* and configurations, by one inductive invariant.  Its parts say that a   *)
(* process that starts or serves holds exactly what its files said, that   *)
(* the connections of one process are gone before the next one reads other *)
(* files, and how far a body that is being answered has come.              *)
(***************************************************************************)
EXTENDS Gateway, TLAPS

HandlerName ==
    {"handle_controller_fcu", "handle_controller_new_payload", "handle_fcu",
     "handle_new_payload", "handle_get_payload", "handle_engine_capabilities",
     "handle_syncing", "handle_chain_id", "proxy_directly",
     "unsupported_method"}

ReplyKind == {"none", "bad_request", "dropped", "single", "batch"}

ConnState ==
    [pc : {"idle", "handler"}, route : Route, token : Token, body : Body,
     calls : Seq(HandlerName), answers : Seq(Answer),
     reply : [kind : ReplyKind, answers : Seq(Answer)]]

\* The token of s is one the files of this process know on the route of s.
Admitted(s) ==
    /\ s.route = "/canonical" => s.token.key = config.controller
    /\ s.route = "/" =>
          \E id \in DOMAIN config.client :
              /\ config.client[id] = s.token.key
              /\ s.token.id \in DOMAIN config.client => id = s.token.id

\* The handlers s has reached are those of its first requests, in turn.
CallsInTurn(s) ==
    /\ Len(s.calls) <= Len(s.body.requests)
    /\ \A i \in DOMAIN s.calls :
          s.calls[i] = Handler(s.route, s.body.requests[i])

\* s has no reply yet, and its answers are those of its first requests.
Underway(s) ==
    /\ s.body.kind \in {"single", "batch"}
    /\ s.reply = NoReply
    /\ Len(s.answers) <= Len(s.body.requests)
    /\ \A i \in DOMAIN s.answers : s.answers[i].id = s.body.requests[i].id
    /\ Admitted(s)

\* A reply in the form of an answer is a refusal or answers the whole body.
ReplyFits(s) ==
    s.reply.kind \in {"single", "batch"} =>
        \/ s.reply = Refusal /\ s.calls = <<>>
        \/ /\ s.reply.kind = s.body.kind
           /\ Len(s.calls) = Len(s.body.requests)
           /\ Len(s.reply.answers) = Len(s.body.requests)
           /\ \A i \in DOMAIN s.body.requests :
                 s.reply.answers[i].id = s.body.requests[i].id

ConnInv(s) ==
    /\ CallsInTurn(s)
    /\ ReplyFits(s)
    /\ s.calls # <<>> => Admitted(s)
    /\ s.pc = "handler" => /\ Underway(s)
                           /\ Len(s.calls) = Len(s.answers) + 1

\* Nothing is left of a connection of an earlier process.
Fresh(s) == s.pc = "idle" /\ s.calls = <<>>

\* What main has loaded is what the files said, and all of it is usable.
Loaded ==
    /\ Constructible(config)
    /\ config.controller \in Secret
    /\ \A id \in DOMAIN config.client : config.client[id] \in Secret
    /\ app = [controller_jwt_secret |-> config.controller,
              client_jwt_collection |-> config.client,
              capacities |-> Capacities(config)]

ProcessInv ==
    /\ phase \in {"exited", "loading", "starting", "serving"}
    /\ config \in Configs
    /\ phase \in {"starting", "serving"} => Loaded
    /\ phase # "serving" => \A c \in Conn : Fresh(conn[c])

ConnsInv ==
    /\ conn \in [Conn -> ConnState]
    /\ \A c \in Conn : ConnInv(conn[c])

\* The inductive invariant.
Inv == ProcessInv /\ ConnsInv

-----------------------------------------------------------------------------
(* A connection by itself.                                                 *)

\* Every request is dispatched to one of the handlers.
LEMMA HandlerType ==
    ASSUME NEW route, NEW request
    PROVE  Handler(route, request) \in HandlerName
BY DEF Handler, ControllerHandler, process_client_request, CommonHandler,
       HandlerName

\* An idle connection with nothing called and no answer is in order.
LEMMA QuietConn ==
    ASSUME NEW reply \in [kind : {"none", "bad_request", "dropped"},
                          answers : {<<>>}]
    PROVE  /\ Idle(reply) \in ConnState
           /\ ConnInv(Idle(reply))
           /\ Fresh(Idle(reply))
<1>1. Idle(reply) \in ConnState
  <2>1. NoToken \in Token /\ "/" \in Route
    BY DEF NoToken, Token, Route
  <2>2. [kind |-> "garbled", requests |-> <<>>] \in Body
    BY DEF Body
  <2>3. reply \in [kind : ReplyKind, answers : Seq(Answer)]
    <3>1. reply = [kind |-> reply.kind, answers |-> reply.answers]
      OBVIOUS
    <3>2. reply.kind \in ReplyKind /\ reply.answers = <<>>
      BY DEF ReplyKind
    <3>3. reply.answers \in Seq(Answer)
      BY <3>2
    <3> QED  BY <3>1, <3>2, <3>3
  <2>4. <<>> \in Seq(HandlerName) /\ <<>> \in Seq(Answer)
    OBVIOUS
  <2> QED  BY <2>1, <2>2, <2>3, <2>4 DEF Idle, ConnState
<1>2. ConnInv(Idle(reply)) /\ Fresh(Idle(reply))
  BY DEF Idle, ConnInv, CallsInTurn, ReplyFits, Fresh
<1> QED  BY <1>1, <1>2

\* Continue keeps what is known of a body between two of its requests.
LEMMA ContinueInv ==
    ASSUME NEW s \in ConnState, CallsInTurn(s), Underway(s),
           Len(s.calls) = Len(s.answers)
    PROVE  Continue(s) \in ConnState /\ ConnInv(Continue(s))
<1> DEFINE done == [s EXCEPT !.pc = "idle",
                             !.reply = ReplyOf(s.body.kind, s.answers)]
           next == [s EXCEPT !.pc = "handler",
                             !.calls = Append(@, CurrentHandler(s))]
<1>1. /\ s.answers \in Seq(Answer) /\ s.calls \in Seq(HandlerName)
      /\ s.body \in Body /\ s.body.requests \in Seq(Request)
  BY DEF ConnState, Body
<1>2. CASE Len(s.answers) = Len(s.body.requests)
  <2>1. Continue(s) = done
    BY <1>2 DEF Continue
  <2>2. done \in ConnState
    BY <1>1 DEF ConnState, Underway, ReplyOf, ReplyKind
  <2>3. ReplyFits(done)
    BY <1>1, <1>2 DEF ReplyFits, Underway, ReplyOf, ConnState
  <2>4. /\ CallsInTurn(done)
        /\ done.calls # <<>> => Admitted(done)
        /\ done.pc # "handler"
    BY <1>1 DEF CallsInTurn, Underway, Admitted, ConnState
  <2> QED  BY <2>1, <2>2, <2>3, <2>4 DEF ConnInv
<1>3. CASE Len(s.answers) # Len(s.body.requests)
  <2>1. Continue(s) = next
    BY <1>3 DEF Continue
  <2>2. CurrentHandler(s) \in HandlerName
    BY HandlerType DEF CurrentHandler
  <2>3. next \in ConnState
    <3> DEFINE more == Append(s.calls, CurrentHandler(s))
    <3>1. more \in Seq(HandlerName)
      BY <1>1, <2>2
    <3>2. next = [s EXCEPT !.pc = "handler", !.calls = more]
      BY DEF ConnState
    <3> HIDE DEF more, next
    <3> QED  BY <3>1, <3>2 DEF ConnState
  <2>4. /\ next.calls = Append(s.calls, CurrentHandler(s))
        /\ next.pc = "handler" /\ next.route = s.route /\ next.body = s.body
        /\ next.token = s.token /\ next.answers = s.answers
        /\ next.reply = s.reply
    BY DEF ConnState
  <2> HIDE DEF next
  <2>5. CallsInTurn(next)
    BY <1>1, <1>3, <2>2, <2>4 DEF CallsInTurn, CurrentHandler, Current, Underway
  <2>6. ReplyFits(next)
    BY <2>4 DEF ReplyFits, Underway, NoReply, ReplyOf
  <2>7. Admitted(next)
    BY <2>4 DEF Underway, Admitted
  <2>8. Underway(next) /\ Len(next.calls) = Len(next.answers) + 1
    BY <1>1, <2>2, <2>4, <2>7 DEF Underway
  <2> QED  BY <2>1, <2>3, <2>5, <2>6, <2>7, <2>8 DEF ConnInv
<1> QED  BY <1>2, <1>3

\* An answer of the current handler keeps a connection in order.
LEMMA AfterAnswerInv ==
    ASSUME NEW s \in ConnState, ConnInv(s), s.pc = "handler",
           NEW outcome \in {"ok"} \cup ErrorCode
    PROVE  /\ AfterAnswer(s, outcome) \in ConnState
           /\ ConnInv(AfterAnswer(s, outcome))
<1> DEFINE answer == [id |-> Current(s).id, outcome |-> outcome]
           told == [s EXCEPT !.answers = Append(@, answer)]
<1>1. /\ s.answers \in Seq(Answer) /\ s.calls \in Seq(HandlerName)
      /\ s.body \in Body /\ s.body.requests \in Seq(Request)
  BY DEF ConnState, Body
<1>2. Underway(s) /\ CallsInTurn(s) /\ Len(s.calls) = Len(s.answers) + 1
  BY DEF ConnInv
<1>3. Len(s.answers) + 1 \in 1 .. Len(s.body.requests)
  BY <1>1, <1>2 DEF CallsInTurn
<1>4. Current(s) \in Request
  BY <1>1, <1>3 DEF Current
<1>5. answer \in Answer /\ answer.id = Current(s).id
  BY <1>4 DEF Request, Answer
<1> HIDE DEF answer
<1>6. told \in ConnState
  <2> DEFINE more == Append(s.answers, answer)
  <2>1. more \in Seq(Answer)
    BY <1>1, <1>5
  <2>2. told = [s EXCEPT !.answers = more]
    BY DEF ConnState
  <2> HIDE DEF more, told
  <2> QED  BY <2>1, <2>2 DEF ConnState
<1>7. /\ told.answers = Append(s.answers, answer)
      /\ told.calls = s.calls /\ told.route = s.route /\ told.body = s.body
      /\ told.token = s.token /\ told.reply = s.reply
  BY DEF ConnState
<1>8. AfterAnswer(s, outcome) = Continue(told)
  BY DEF AfterAnswer, answer
<1> HIDE DEF told
<1>9. Admitted(told)
  BY <1>2, <1>7 DEF Underway, Admitted
<1>10. Underway(told)
  <2>1. Len(told.answers) = Len(s.answers) + 1
    BY <1>1, <1>5, <1>7
  <2>2. \A i \in DOMAIN told.answers :
           told.answers[i].id = told.body.requests[i].id
    BY <1>1, <1>2, <1>5, <1>7 DEF Underway, Current
  <2> QED  BY <1>2, <1>3, <1>7, <1>9, <2>1, <2>2 DEF Underway
<1>11. CallsInTurn(told)
  BY <1>2, <1>7 DEF CallsInTurn
<1>12. Len(told.calls) = Len(told.answers)
  BY <1>1, <1>2, <1>5, <1>7
<1> QED  BY <1>6, <1>8, <1>10, <1>11, <1>12, ContinueInv

-----------------------------------------------------------------------------
(* The process.                                                            *)

\* A single step of connection c, to a state in order, keeps the invariant.
LEMMA ConnStep ==
    ASSUME Inv, phase = "serving", NEW c \in Conn, NEW s \in ConnState,
           ConnInv(s), conn' = [conn EXCEPT ![c] = s],
           UNCHANGED <<phase, config, app>>
    PROVE  Inv'
<1>1. ConnInv(s)'
  BY DEF ConnInv, CallsInTurn, ReplyFits, Admitted, Underway
<1>2. \A d \in Conn : ConnInv(conn[d]) => ConnInv(conn[d])'
  <2> TAKE d \in Conn
  <2>1. CASE d = c
    BY <1>1, <2>1 DEF Inv, ConnsInv
  <2>2. CASE d # c
    BY <2>2 DEF Inv, ConnsInv, ConnInv, CallsInTurn, ReplyFits, Admitted,
                Underway
  <2> QED  BY <2>1, <2>2
<1>3. ConnsInv'
  BY <1>2 DEF Inv, ConnsInv
<1>4. ProcessInv'
  BY DEF Inv, ProcessInv, Loaded, Constructible, Capacities
<1> QED  BY <1>3, <1>4 DEF Inv

\* The outcomes of the handlers are answers of the protocol.
LEMMA Outcomes ==
    ASSUME NEW s
    PROVE  /\ OwnOutcomes(s) \subseteq {"ok"} \cup ErrorCode
           /\ EngineOutcomes(s) \subseteq {"ok"} \cup ErrorCode
           /\ TimeoutOutcome(s) \in {"ok"} \cup ErrorCode
<1>1. OwnOutcomes(s) \subseteq {"ok"} \cup ErrorCode
  BY DEF OwnOutcomes, ErrorCode
<1>2. EngineOutcomes(s) \subseteq {"ok"} \cup ErrorCode
  BY DEF EngineOutcomes, ErrorCode
<1>3. TimeoutOutcome(s) \in {"ok"} \cup ErrorCode
  BY DEF TimeoutOutcome, ErrorCode
<1> QED  BY <1>1, <1>2, <1>3

\* A handler only waits in a process that serves.
LEMMA HandlersServe ==
    ASSUME Inv, NEW c \in Conn, conn[c].pc = "handler"
    PROVE  phase = "serving"
BY DEF Inv, ProcessInv, Fresh

\* Whatever keeps every connection and its configuration keeps ConnsInv.
LEMMA ConnsKept ==
    ASSUME Inv, UNCHANGED <<config, conn>>
    PROVE  ConnsInv'
BY DEF Inv, ConnsInv, ConnInv, CallsInTurn, ReplyFits, Admitted, Underway

\* What a route takes is a token that the files of this process know.
LEMMA AuthenticatedIsAdmitted ==
    ASSUME Loaded, NEW s, s.route \in Route, Authenticated(s.route, s.token)
    PROVE  Admitted(s)
BY DEF Loaded, Route, Authenticated, Admitted, verify, verify_single_token

\* A body that arrives, refused, answered at once or at its first handler.
LEMMA ReceiveKeeps ==
    ASSUME Inv, NEW c \in Conn, NEW route \in Route, NEW token \in Tokens,
           NEW body \in Bodies, Receive(c, route, token, body)
    PROVE  Inv'
<1> DEFINE none == Idle(NoReply)
           s == [none EXCEPT !.route = route, !.token = token, !.body = body]
<1>1. token \in Token /\ body \in Body /\ phase = "serving" /\ Loaded
  BY InputsAssumption DEF Receive, Inv, ProcessInv
<1>2. none \in ConnState
  BY QuietConn DEF NoReply, ReplyOf
<1>3. s \in ConnState
  BY <1>1, <1>2 DEF ConnState
<1>4. /\ s.pc = "idle" /\ s.route = route /\ s.token = token /\ s.body = body
      /\ s.calls = <<>> /\ s.answers = <<>> /\ s.reply = NoReply
  BY DEF Idle
<1>5. Len(s.body.requests) \in Nat /\ Len(s.calls) = 0 /\ Len(s.answers) = 0
  BY <1>1, <1>4 DEF Body
<1> HIDE DEF s
<1>6. CallsInTurn(s)
  BY <1>4, <1>5 DEF CallsInTurn
<1>7. CASE ~token.present
  <2> DEFINE r == ReplyOf("bad_request", <<>>)
             u == [s EXCEPT !.reply = r]
  <2>1. conn' = [conn EXCEPT ![c] = u]
    BY <1>7 DEF Receive, s
  <2>2. r \in [kind : ReplyKind, answers : Seq(Answer)]
    BY DEF ReplyOf, ReplyKind
  <2>3. r.kind = "bad_request"
    BY DEF ReplyOf
  <2> HIDE DEF r
  <2>4. u \in ConnState
    BY <1>3, <2>2 DEF ConnState
  <2>5. ConnInv(u)
    BY <1>3, <1>4, <1>6, <2>3
    DEF ConnState, ConnInv, CallsInTurn, ReplyFits
  <2> QED  BY <1>1, <2>1, <2>4, <2>5, ConnStep DEF Receive
<1>8. CASE token.present /\ Authenticated(route, token) /\ Parses(route, body)
  <2>1. conn' = [conn EXCEPT ![c] = Continue(s)]
    BY <1>8 DEF Receive, s
  <2>2. Admitted(s)
    BY <1>1, <1>4, <1>8, AuthenticatedIsAdmitted
  <2>3. Underway(s)
    BY <1>4, <1>5, <1>8, <2>2 DEF Underway, Parses
  <2>4. Continue(s) \in ConnState /\ ConnInv(Continue(s))
    BY <1>3, <1>5, <1>6, <2>3, ContinueInv
  <2> QED  BY <1>1, <2>1, <2>4, ConnStep DEF Receive
<1>9. CASE token.present /\ ~(Authenticated(route, token) /\ Parses(route, body))
  <2> DEFINE u == [s EXCEPT !.reply = Refusal]
  <2>1. conn' = [conn EXCEPT ![c] = u]
    BY <1>9 DEF Receive, s
  <2>2. Refusal \in [kind : ReplyKind, answers : Seq(Answer)]
    <3>1. [id |-> 0, outcome |-> "ParseError"] \in Answer
      BY DEF Answer, ErrorCode
    <3>2. <<[id |-> 0, outcome |-> "ParseError"]>> \in Seq(Answer)
      BY <3>1
    <3> QED  BY <3>2 DEF Refusal, ReplyOf, ReplyKind
  <2>3. u \in ConnState
    BY <1>3, <2>2 DEF ConnState
  <2>4. ConnInv(u)
    BY <1>3, <1>4, <1>6 DEF ConnState, ConnInv, CallsInTurn, ReplyFits
  <2> QED  BY <1>1, <2>1, <2>3, <2>4, ConnStep DEF Receive
<1> QED  BY <1>7, <1>8, <1>9

\* An answer to the current request, from whichever side it comes.
LEMMA AnswerKeeps ==
    ASSUME Inv, NEW c \in Conn, conn[c].pc = "handler",
           NEW outcome \in {"ok"} \cup ErrorCode,
           conn' = [conn EXCEPT ![c] = AfterAnswer(@, outcome)],
           UNCHANGED <<phase, config, app>>
    PROVE  Inv'
<1> DEFINE s == AfterAnswer(conn[c], outcome)
<1>1. conn[c] \in ConnState /\ ConnInv(conn[c])
  BY DEF Inv, ConnsInv
<1>2. s \in ConnState /\ ConnInv(s)
  BY <1>1, AfterAnswerInv
<1>3. conn' = [conn EXCEPT ![c] = s]
  OBVIOUS
<1> HIDE DEF s
<1> QED  BY <1>2, <1>3, HandlersServe, ConnStep

\* A connection that breaks keeps its calls and has no answer.
LEMMA DropKeeps ==
    ASSUME Inv, NEW c \in Conn, Drop(c)
    PROVE  Inv'
<1> DEFINE r == ReplyOf("dropped", <<>>)
           s == [conn[c] EXCEPT !.pc = "idle", !.reply = r]
<1>1. conn[c] \in ConnState /\ ConnInv(conn[c])
  BY DEF Inv, ConnsInv
<1>2. r \in [kind : ReplyKind, answers : Seq(Answer)] /\ r.kind = "dropped"
  BY DEF ReplyOf, ReplyKind
<1>3. conn' = [conn EXCEPT ![c] = s]
  BY DEF Drop, Inv, ConnsInv
<1> HIDE DEF r
<1>4. s \in ConnState
  BY <1>1, <1>2 DEF ConnState
<1>5. /\ s.pc = "idle" /\ s.reply = r /\ s.calls = conn[c].calls
      /\ s.route = conn[c].route /\ s.token = conn[c].token
      /\ s.body = conn[c].body
  BY <1>1 DEF ConnState
<1> HIDE DEF s
<1>6. ConnInv(s)
  BY <1>1, <1>2, <1>5 DEF ConnInv, CallsInTurn, ReplyFits, Admitted
<1>7. phase = "serving"
  BY HandlersServe DEF Drop
<1> QED  BY <1>3, <1>4, <1>6, <1>7, ConnStep DEF Drop

\* The end of a process leaves nothing of its connections.
LEMMA ExitKeeps ==
    ASSUME Inv, Exit
    PROVE  Inv'
<1> DEFINE r(c) == IF conn[c].pc = "idle" THEN NoReply
                   ELSE ReplyOf("dropped", <<>>)
<1>1. \A c \in Conn : r(c) \in [kind : {"none", "bad_request", "dropped"},
                                answers : {<<>>}]
  BY DEF NoReply, ReplyOf
<1>2. conn' = [c \in Conn |-> Idle(r(c))]
  BY DEF Exit
<1> HIDE DEF r
<1>3. \A c \in Conn : /\ Idle(r(c)) \in ConnState
                      /\ Idle(r(c)).calls = <<>>
                      /\ Idle(r(c)).pc = "idle"
                      /\ CallsInTurn(Idle(r(c)))
                      /\ ReplyFits(Idle(r(c)))
  BY <1>1, QuietConn DEF Fresh, ConnInv
<1>4. conn' \in [Conn -> ConnState]
  BY <1>2, <1>3
<1>5. \A c \in Conn : ConnInv(conn[c])' /\ Fresh(conn[c])'
  BY <1>2, <1>3 DEF ConnInv, Fresh, CallsInTurn, ReplyFits
<1>6. ConnsInv'
  BY <1>4, <1>5 DEF ConnsInv
<1>7. ProcessInv'
  BY <1>5 DEF Exit, Inv, ProcessInv
<1> QED  BY <1>6, <1>7 DEF Inv

\* main takes over all of the files or does not get here.
LEMMA LoadKeeps ==
    ASSUME Inv, Load
    PROVE  Inv'
<1>1. Loaded'
  BY DEF Load, Loaded, jwt_secret_from_path, load, from_file, Constructible,
         Capacities
<1>2. ProcessInv'
  BY <1>1 DEF Load, Inv, ProcessInv, Fresh
<1>3. ConnsInv'
  BY ConnsKept DEF Load
<1> QED  BY <1>2, <1>3 DEF Inv

\* Other files can only be read once every connection is gone.
LEMMA LaunchKeeps ==
    ASSUME Inv, NEW c \in Configs, Launch(c)
    PROVE  Inv'
<1>1. ProcessInv'
  BY DEF Launch, Inv, ProcessInv, Fresh
<1>2. \A d \in Conn : conn[d].calls = <<>> /\ conn[d].pc = "idle"
  BY DEF Launch, Inv, ProcessInv, Fresh
<1>3. ConnsInv'
  BY <1>2 DEF Launch, Inv, ConnsInv, ConnInv, CallsInTurn, ReplyFits
<1> QED  BY <1>1, <1>3 DEF Inv

\* The invariant holds at first.
LEMMA InitInv ==
    ASSUME Init
    PROVE  Inv
<1>1. NoReply \in [kind : {"none", "bad_request", "dropped"},
                   answers : {<<>>}]
  BY DEF NoReply, ReplyOf
<1>2. /\ Idle(NoReply) \in ConnState /\ ConnInv(Idle(NoReply))
      /\ Fresh(Idle(NoReply))
  BY <1>1, QuietConn
<1>3. ConnsInv
  BY <1>2 DEF Init, ConnsInv
<1>4. ProcessInv
  BY <1>2 DEF Init, ProcessInv
<1> QED  BY <1>3, <1>4 DEF Inv

\* Every step keeps the invariant.
LEMMA NextInv ==
    ASSUME Inv, [Next]_vars
    PROVE  Inv'
<1>1. CASE UNCHANGED vars
  <2>1. ConnsInv'
    BY <1>1, ConnsKept DEF vars
  <2>2. ProcessInv'
    BY <1>1 DEF vars, Inv, ProcessInv, Fresh, Loaded, Constructible,
                Capacities
  <2> QED  BY <2>1, <2>2 DEF Inv
<1>2. ASSUME NEW c \in Configs, Launch(c) PROVE Inv'
  BY <1>2, LaunchKeeps
<1>3. CASE Load
  BY <1>3, LoadKeeps
<1>4. CASE LoadFails
  <2>1. ConnsInv'
    BY <1>4, ConnsKept DEF LoadFails
  <2>2. ProcessInv'
    BY <1>4 DEF LoadFails, Inv, ProcessInv, Fresh
  <2> QED  BY <2>1, <2>2 DEF Inv
<1>5. CASE Serve
  <2>1. ConnsInv'
    BY <1>5, ConnsKept DEF Serve
  <2>2. ProcessInv'
    BY <1>5 DEF Serve, Inv, ProcessInv, Loaded, Constructible,
                Capacities
  <2> QED  BY <2>1, <2>2 DEF Inv
<1>6. CASE Exit
  BY <1>6, ExitKeeps
<1>7. ASSUME NEW c \in Conn, NEW route \in Route, NEW token \in Tokens,
             NEW body \in Bodies, Receive(c, route, token, body)
      PROVE  Inv'
  BY <1>7, ReceiveKeeps
<1>8. ASSUME NEW c \in Conn, HandlerAnswers(c) PROVE Inv'
  <2>1. PICK outcome \in OwnOutcomes(conn[c]) :
           conn' = [conn EXCEPT ![c] = AfterAnswer(@, outcome)]
    BY <1>8 DEF HandlerAnswers
  <2>2. outcome \in {"ok"} \cup ErrorCode
    BY Outcomes
  <2> QED  BY <1>8, <2>1, <2>2, AnswerKeeps DEF HandlerAnswers
<1>9. ASSUME NEW c \in Conn, EngineAnswers(c) PROVE Inv'
  <2>1. PICK outcome \in EngineOutcomes(conn[c]) :
           conn' = [conn EXCEPT ![c] = AfterAnswer(@, outcome)]
    BY <1>9 DEF EngineAnswers
  <2>2. outcome \in {"ok"} \cup ErrorCode
    BY Outcomes
  <2> QED  BY <1>9, <2>1, <2>2, AnswerKeeps DEF EngineAnswers, AtEngine
<1>10. ASSUME NEW c \in Conn, TimesOut(c) PROVE Inv'
  <2>1. TimeoutOutcome(conn[c]) \in {"ok"} \cup ErrorCode
    BY Outcomes
  <2> QED  BY <1>10, <2>1, AnswerKeeps DEF TimesOut, AtEngine
<1>11. ASSUME NEW c \in Conn, Drop(c) PROVE Inv'
  BY <1>11, DropKeeps
<1> QED  BY <1>1, <1>2, <1>3, <1>4, <1>5, <1>6, <1>7, <1>8, <1>9, <1>10, <1>11
         DEF Next

\* What main has loaded holds secrets that decode and capacities other than 0.
LEMMA LoadedIsUsable ==
    ASSUME Loaded, config \in Configs
    PROVE  app \in AppState
<1>1. config \in Config
  BY InputsAssumption
<1>2. config.client \in SecretsById(Secret)
  <2>1. PICK ids \in SUBSET NodeId :
           config.client \in [ids -> Secret \cup {Undecodable}]
    BY <1>1 DEF Config, SecretsById
  <2>2. config.client \in [ids -> Secret]
    BY <2>1 DEF Loaded
  <2> QED  BY <2>2 DEF SecretsById
<1>3. Capacities(config) \in [DOMAIN SizedBy -> Nat \ {0}]
  <2>1. config.sizes \in [SizeOption -> Nat]
    BY <1>1 DEF Config
  <2>2. \A cache \in DOMAIN SizedBy : SizedBy[cache] \in SizeOption
    BY DEF SizedBy, SizeOption
  <2>3. \A cache \in DOMAIN SizedBy : Capacities(config)[cache] # 0
    BY DEF Loaded, Constructible
  <2> QED  BY <2>1, <2>2, <2>3 DEF Capacities
<1> QED  BY <1>2, <1>3 DEF Loaded, AppState

\* The inductive argument.
LEMMA Invariance == Spec => []Inv
<1>1. Init => Inv
  BY InitInv
<1>2. Inv /\ [Next]_vars => Inv'
  BY NextInv
<1> QED  BY <1>1, <1>2, PTL DEF Spec

-----------------------------------------------------------------------------
(* The theorems.                                                           *)

\* Type correctness: what a process starts with is usable as a whole, and no
\* handler waits in one that does not serve.
THEOREM TypeCorrect == Spec => []TypeOK
<1>1. Inv => TypeOK
  <2> SUFFICES ASSUME Inv PROVE TypeOK
    OBVIOUS
  <2>1. \A c \in Conn : /\ conn[c] \in ConnState
                        /\ ConnInv(conn[c])
    BY DEF Inv, ConnsInv
  <2>2. ASSUME NEW c \in Conn
        PROVE  /\ conn[c].pc \in {"idle", "handler"}
               /\ conn[c].reply.kind \in ReplyKind
               /\ conn[c].answers \in Seq(Answer)
               /\ conn[c].calls \in Seq(HandlerName)
               /\ conn[c].body.requests \in Seq(Request)
    BY <2>1 DEF ConnState, Body
  <2>3. ASSUME NEW c \in Conn, conn[c].pc = "handler"
        PROVE  /\ phase = "serving"
               /\ Len(conn[c].answers) < Len(conn[c].body.requests)
    BY <2>1, <2>2, <2>3, HandlersServe DEF ConnInv, CallsInTurn
  <2>4. ASSUME NEW c \in Conn, NEW i \in DOMAIN conn[c].answers
        PROVE  conn[c].answers[i] \in Answer
    BY <2>2
  <2>5. ASSUME phase \in {"starting", "serving"}
        PROVE  app \in AppState
    BY <2>5, LoadedIsUsable DEF Inv, ProcessInv
  <2> QED  BY <2>2, <2>3, <2>4, <2>5 DEF TypeOK, Inv, ProcessInv, ReplyKind
<1> QED  BY <1>1, Invariance, PTL

\* A body is refused as a whole, or each of its requests reaches its handler
\* once, in turn, and the answers carry their ids, however the handlers, the
\* timeouts and the restarts of the process interleave.
THEOREM BodiesWhole == Spec => []AnswersMatchRequests
<1>1. Inv => AnswersMatchRequests
  <2> SUFFICES ASSUME Inv, NEW c \in Conn
               PROVE  LET s == conn[c]
                          requests == s.body.requests
                      IN  /\ Len(s.calls) <= Len(requests)
                          /\ \A i \in DOMAIN s.calls :
                                s.calls[i] = Handler(s.route, requests[i])
                          /\ s.reply.kind \in {"single", "batch"} =>
                                \/ s.reply = Refusal /\ s.calls = <<>>
                                \/ /\ s.reply.kind = s.body.kind
                                   /\ Len(s.calls) = Len(requests)
                                   /\ [i \in DOMAIN s.reply.answers |->
                                          s.reply.answers[i].id]
                                        = [i \in DOMAIN requests |->
                                              requests[i].id]
    BY DEF AnswersMatchRequests
  <2>1. conn[c] \in ConnState /\ ConnInv(conn[c])
    BY DEF Inv, ConnsInv
  <2>2. /\ conn[c].reply.answers \in Seq(Answer)
        /\ conn[c].body.requests \in Seq(Request)
    BY <2>1 DEF ConnState, Body
  <2>3. ASSUME Len(conn[c].reply.answers) = Len(conn[c].body.requests),
               \A i \in DOMAIN conn[c].body.requests :
                  conn[c].reply.answers[i].id = conn[c].body.requests[i].id
        PROVE  [i \in DOMAIN conn[c].reply.answers |->
                   conn[c].reply.answers[i].id]
                 = [i \in DOMAIN conn[c].body.requests |->
                       conn[c].body.requests[i].id]
    <3>1. DOMAIN conn[c].reply.answers = DOMAIN conn[c].body.requests
      BY <2>2, <2>3
    <3> QED  BY <2>3, <3>1
  <2> QED  BY <2>1, <2>3 DEF ConnInv, CallsInTurn, ReplyFits
<1> QED  BY <1>1, Invariance, PTL

\* Whatever reached a handler came with a token the files of the process
\* know, and the engine is driven with the controller's alone.
THEOREM KnownNodesOnly == Spec => []OnlyKnownNodesAreServed
<1>1. Inv => OnlyKnownNodesAreServed
  <2> SUFFICES ASSUME Inv, NEW c \in Conn, conn[c].calls # <<>>
               PROVE  /\ Admitted(conn[c])
                      /\ \A i \in DOMAIN conn[c].calls :
                            conn[c].calls[i] \in DrivesEngine =>
                                conn[c].token.key = config.controller
    BY DEF OnlyKnownNodesAreServed, Admitted
  <2>1. /\ conn[c].route \in Route /\ CallsInTurn(conn[c])
        /\ Admitted(conn[c])
    BY DEF Inv, ConnsInv, ConnInv, ConnState
  <2>2. ASSUME NEW request, NEW route \in Route,
               Handler(route, request) \in DrivesEngine
        PROVE  route = "/canonical"
    BY <2>2 DEF Route, Handler, process_client_request, CommonHandler,
                DrivesEngine
  <2>3. ASSUME NEW i \in DOMAIN conn[c].calls,
               conn[c].calls[i] \in DrivesEngine
        PROVE  conn[c].token.key = config.controller
    BY <2>1, <2>2, <2>3 DEF CallsInTurn, Admitted
  <2> QED  BY <2>1, <2>3
<1> QED  BY <1>1, Invariance, PTL

\* A process that serves admits the controller and every node of its clients
\* file, by a token with its key ID or with none, whatever it was launched with.
THEOREM NodesAdmitted == Spec => []ConfiguredNodesAreAdmitted
<1>1. Inv => ConfiguredNodesAreAdmitted
  <2> SUFFICES ASSUME Inv, phase = "serving"
               PROVE  /\ Authenticated("/canonical",
                                       TokenOf(config.controller, NoId))
                      /\ \A node \in DOMAIN config.client :
                            \A id \in {node, NoId} :
                               Authenticated("/",
                                   TokenOf(config.client[node], id))
    BY DEF ConfiguredNodesAreAdmitted
  <2>1. Loaded /\ config \in Config
    BY InputsAssumption DEF Inv, ProcessInv
  <2>2. /\ app.controller_jwt_secret = config.controller
        /\ app.client_jwt_collection = config.client
    BY <2>1 DEF Loaded
  <2>3. NoId \notin DOMAIN config.client
    BY <2>1, SecretAssumption DEF Config, SecretsById
  <2>4. Authenticated("/canonical", TokenOf(config.controller, NoId))
    BY <2>2 DEF Authenticated, verify_single_token, TokenOf
  <2>5. ASSUME NEW node \in DOMAIN config.client, NEW id \in {node, NoId}
        PROVE  Authenticated("/", TokenOf(config.client[node], id))
    BY <2>2, <2>3 DEF Authenticated, verify, verify_single_token, TokenOf
  <2> QED  BY <2>4, <2>5
<1> QED  BY <1>1, Invariance, PTL
=============================================================================
