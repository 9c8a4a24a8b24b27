------------------------------- MODULE TraciClient ------------------------------
(* TraCIAPI over a tcpip::Socket, one call at a time, against SUMO. The client writes  *)
(* a command, sends it as a packet, waits for a packet and reads the answer in it. The *)
(* stream carries a packet in any number of pieces, cut between two tokens. SUMO is    *)
(* external: it reads a whole packet, carries it out or refuses it, and answers a      *)
(* question with a value of the type some method of the client expects for that        *)
(* variable of that domain.                                                            *)
EXTENDS TraciCommands

CONSTANTS
  Ids,                  \* lengths of the ids of objects
  SubscribedIds,        \* those subscribed to
  Vehicles,             \* those of the vehicles a context may hold
  SubscribedDomains,    \* domains subscribed to
  SubscribedVariables,  \* numbers of the variables a subscription asks for
  SubscribedTypes,      \* types SUMO has for them
  MaxSubscriptions      \* bound on the subscriptions alive at once

ASSUME IdsAssumption == Ids \cup SubscribedIds \cup Vehicles \subseteq Nat /\ IsFiniteSet(Vehicles)
ASSUME SubscribedAssumption ==
  /\ SubscribedDomains \subseteq DOMAIN Domain
  /\ SubscribedVariables \subseteq 0 .. 255
  /\ SubscribedTypes \subseteq SubscriptionTypes

VARIABLES
  mySocket,       \* "null" or "open"
  stage,          \* of the call: "idle", "sending", "waiting"; "ended" with the process
  call,           \* the call under way, with the object it names
  outgoing,       \* what is left to send
  toServer,       \* in the stream to SUMO
  toClient,       \* in the stream from SUMO
  inMsg,          \* received of the packet waited for
  outcome,        \* of the last call
  results,        \* mySubscriptionResults and myContextSubscriptionResults of all scopes
  alive,          \* SUMO runs
  verdict,        \* SUMO's, on the last call
  subscriptions   \* SUMO's, each with the objects it last reported on

clientVars == <<mySocket, stage, call, outgoing, inMsg, outcome, results>>
sumoVars == <<alive, verdict, subscriptions>>
vars == <<clientVars, sumoVars, toServer, toClient>>

----------------------------------------------------------------------------------
(* The calls: the getters and setters, subscriptions, and the commands of the session. *)

Session(kind, command) ==
  [ kind |-> kind, command |-> command, variable |-> 0, value |-> <<>>, expects |-> 0, reads |-> "plain" ]

SessionCalls ==
  {Session("order", CMD_SETORDER), Session("load", CMD_LOAD), Session("version", CMD_GETVERSION),
   Session("close", CMD_CLOSE)}
StepCall == Session("step", CMD_SIMSTEP)

\* A subscription without variables ends one to the object's variables; only for a context
\* does the client expect an answer all the same, so contexts are asked for with some.
SubscribeCalls ==
  {[Session("subscribe", CMD_SUBSCRIBE + Domain[d]) EXCEPT !.value = variables] :
     d \in SubscribedDomains, variables \in {<<>>} \cup {<<UByte(v)>> : v \in SubscribedVariables}}
ContextCalls ==
  {[Session("context", CMD_SUBSCRIBE_CONTEXT + Domain[d]) EXCEPT !.value = <<UByte(v)>>] :
     d \in SubscribedDomains, v \in SubscribedVariables}

\* The id of an id list, a count and the simulation is empty; the session names nothing.
IdsFor(c) ==
  CASE c.kind \in {"subscribe", "context"} -> SubscribedIds
    [] c.kind = "get" /\ (c.command = CMD_GET + Domain.SIM \/ c.variable \in {Var.TRACI_ID_LIST, Var.ID_COUNT}) -> {0}
    [] c.kind \in {"get", "set"} -> Ids
    [] OTHER -> {0}

Request(c) ==
  CASE c.kind \in {"get", "set"} -> CreateCommand(c.command, c.variable, c.object, c.value)
    [] c.kind = "subscribe" -> SubscribeObjectVariable(c.command, c.object, c.value)
    [] c.kind = "context" -> SubscribeObjectContext(c.command, c.object, Domain.VEHICLE, c.value)
    [] c.kind = "step" -> SimulationStepCommand
    [] c.kind = "order" -> SetOrderCommand
    [] c.kind = "load" -> LoadCommand(2, 3)
    [] c.kind = "version" -> GetVersionCommand
    [] c.kind = "close" -> CloseCommand

NoCall == Session("none", 0)

----------------------------------------------------------------------------------
(* The client sends and receives.                                                      *)

\* The call of c's method on the object with this id.
Asking(c, id) ==
  [ kind |-> c.kind, command |-> c.command, variable |-> c.variable, value |-> c.value,
    expects |-> c.expects, reads |-> c.reads, object |-> id ]

\* What cannot be written throws, and so does a subscription without a socket; a getter
\* without one returns an invalid value and a setter does nothing.
Invoke(c, id) ==
  LET asked == Asking(c, id)
      tokens == Request(asked)
      sent == mySocket = "open" /\ Writable(tokens)
  IN
  /\ stage' = IF sent THEN "sending" ELSE "idle"
  /\ call' = IF sent THEN asked ELSE NoCall
  /\ outgoing' = IF sent THEN Packet(tokens) ELSE <<>>
  /\ outcome' = IF sent THEN "none" ELSE "rejected"
  /\ verdict' = "none"
  /\ UNCHANGED <<mySocket, inMsg, results, alive, subscriptions, toServer, toClient>>

\* The bound: getters and setters are called while SUMO holds no subscription and there are
\* no results, and no more than MaxSubscriptions are asked for.
GetOrSet ==
  /\ stage = "idle"
  /\ subscriptions = {}
  /\ results = {}
  /\ \E c \in GetsAndSets : \E id \in IdsFor(c) : Invoke(c, id)
Subscribe ==
  /\ stage = "idle"
  /\ Cardinality(subscriptions) < MaxSubscriptions
  /\ \E c \in SubscribeCalls \cup ContextCalls : \E id \in IdsFor(c) : Invoke(c, id)
\* Without a socket these three kinds would use a null pointer; the program connects first.
RunSession == stage = "idle" /\ mySocket = "open" /\ \E c \in SessionCalls \cup {StepCall} : Invoke(c, 0)

\* Socket::send goes on until all is sent; the kernel takes what it has room for.
Send(n) ==
  /\ stage = "sending"
  /\ alive
  /\ n \in DOMAIN outgoing
  /\ toServer' = toServer \o SubSeq(outgoing, 1, n)
  /\ outgoing' = SubSeq(outgoing, n + 1, Len(outgoing))
  /\ stage' = IF n = Len(outgoing) THEN "waiting" ELSE "sending"
  /\ UNCHANGED <<mySocket, call, inMsg, outcome, results, sumoVars, toClient>>

\* The first bytes sent to a peer that is gone are taken all the same; later ones raise
\* SIGPIPE, which nothing handles.
SendToNobody ==
  /\ stage = "sending"
  /\ ~alive
  /\ outgoing' = <<>>
  /\ \/ stage' = "waiting" /\ UNCHANGED outcome
     \/ stage' = "ended" /\ outcome' = "lost"
  /\ UNCHANGED <<mySocket, call, inMsg, results, sumoVars, toServer, toClient>>

\* receiveExact: four bytes of header, then as many bytes as it says, and not one more.
Received(tokens) == tokens # <<>> /\ tokens[1].v = SizeOf(tokens)
Missing(tokens) == IF tokens = <<>> THEN 4 ELSE tokens[1].v - SizeOf(tokens)

Receive(n) ==
  /\ stage = "waiting"
  /\ ~Received(inMsg)
  /\ n \in DOMAIN toClient
  /\ SizeOf(SubSeq(toClient, 1, n)) <= Missing(inMsg)
  /\ inMsg' = inMsg \o SubSeq(toClient, 1, n)
  /\ toClient' = SubSeq(toClient, n + 1, Len(toClient))
  /\ UNCHANGED <<mySocket, stage, call, outgoing, outcome, results, sumoVars, toServer>>

\* recvAndCheck finds the peer gone.
ReceiveFromNobody ==
  /\ stage = "waiting"
  /\ ~alive
  /\ toClient = <<>>
  /\ ~Received(inMsg)
  /\ stage' = "idle"
  /\ outcome' = "lost"
  /\ inMsg' = <<>>
  /\ call' = NoCall
  /\ UNCHANGED <<mySocket, outgoing, results, sumoVars, toServer, toClient>>

----------------------------------------------------------------------------------
(* The client reads what it received.                                                  *)

\* Faulty variant: the result is not looked at.
UncheckedResult(msg, command) == "ok"
\* check_resultState: of a status it can read, the number must be the command's, the result
\* RTYPE_OK and the length right.
ResultState(msg, command) ==
  LET status == Reading(SubSeq(msg, 1, 4), <<Want("byte"), This(command), Want("byte"), Want("string")>>, 0) IN
  CASE ~Complete(status) -> "broken"
    [] Complete(status) /\ msg[3].v # RTYPE_OK -> "refused"
    [] OTHER -> IF msg[1].v = SizeOf(SubSeq(msg, 1, 4)) THEN "ok" ELSE "broken"

\* What follows the status: check_commandGetResult and then the method that called it.
Answer(c) ==
  CASE c.kind = "get" -> <<Want("length"), This(c.command + RESPONSE), Want("byte"), Want("string"), This(c.expects)>>
                         \o (IF c.reads = "plain" THEN Value(c.expects) ELSE Compound(c.reads))
    [] c.kind = "subscribe" /\ c.value # <<>> ->
         <<Want("length"), This(c.command + RESPONSE)>> \o SubscriptionBody(c.command + RESPONSE)
    [] c.kind = "context" ->
         <<Want("length"), This(c.command + RESPONSE)>> \o SubscriptionBody(c.command + RESPONSE)
    [] c.kind = "step" -> <<Want("responses")>>
    [] c.kind = "version" -> <<Want("length"), This(CMD_GETVERSION), Want("int"), Want("string")>>
    [] OTHER -> <<>>

\* Faulty variant: a step leaves the results of the steps before it.
KeepResults(c, state) == results
\* simulationStep empties the scopes once SUMO has answered.
Kept(c, state) == IF c.kind = "step" /\ state = "ok" THEN {} ELSE results

Finish ==
  LET msg == Tail(inMsg)
      state == ResultState(msg, call.command)
      reader == Reading(SubSeq(msg, 5, Len(msg)), Answer(call), call.command + RESPONSE)
  IN
  /\ stage = "waiting"
  /\ Received(inMsg)
  /\ stage' = "idle"
  /\ outcome' = IF state = "ok" /\ ~Complete(reader) THEN "broken" ELSE state
  /\ results' = Kept(call, state) \cup (IF state = "ok" THEN reader.results ELSE {})
  /\ mySocket' = IF call.kind = "close" /\ outcome' = "ok" THEN "null" ELSE mySocket
  /\ inMsg' = <<>>
  /\ call' = NoCall
  /\ UNCHANGED <<outgoing, sumoVars, toServer, toClient>>

\* TraCIAPI::connect keeps a socket only if it is connected.
Connect ==
  /\ stage = "idle"
  /\ mySocket = "null"
  /\ alive
  /\ mySocket' = "open"
  /\ UNCHANGED <<stage, call, outgoing, inMsg, outcome, results, sumoVars, toServer, toClient>>

----------------------------------------------------------------------------------
(* SUMO reads a packet. Its command must be as long as it says, and parse to the end.  *)

CommandAt(tokens) == IF tokens[1].v = 0 THEN 3 ELSE 2

Wanted(tokens) ==
  LET k == CommandAt(tokens)
      command == tokens[k].v
      asksDistance == command = CMD_GET + Domain.SIM /\ tokens[k + 1].v = Var.DISTANCE_REQUEST
  IN
  CASE command \in NumbersOf(CMD_GET) \cup NumbersOf(CMD_SET) ->
         <<Want("byte"), Want("string")>>
         \o (IF Len(tokens) = k + 2 THEN <<>>
             ELSE IF asksDistance THEN <<This(TYPE_COMPOUND), Want("int"), Want("value"), Want("value"), Want("byte")>>
             ELSE <<Want("value")>>)
    [] command \in NumbersOf(CMD_SUBSCRIBE) ->
         <<Doubles(1), Doubles(1), Want("string"), Want("numbers")>>
    [] command \in NumbersOf(CMD_SUBSCRIBE_CONTEXT) ->
         <<Doubles(1), Doubles(1), Want("string"), Want("byte"), Doubles(1), Want("numbers")>>
    [] command = CMD_SIMSTEP -> <<Doubles(1)>>
    [] command = CMD_SETORDER -> <<Want("int")>>
    [] command = CMD_LOAD -> <<Want("value")>>
    [] command \in {CMD_GETVERSION, CMD_CLOSE} -> <<>>

Understood(tokens) ==
  LET k == CommandAt(tokens)
      reader == Reading(SubSeq(tokens, k + 1, Len(tokens)), Wanted(tokens), 0)
  IN
  /\ tokens[k - 1].v = SizeOf(tokens)
  /\ Complete(reader)
  /\ reader.rest = 0

(* SUMO answers.                                                                       *)

Status(command, result) ==
  LET text == IF result = RTYPE_OK THEN 0 ELSE 1
  IN <<UByte(1 + 1 + 1 + 4 + text), UByte(command), UByte(result), String(text)>>

Response(command, content) ==
  LET length == 1 + 1 + SizeOf(content)
  IN (IF length <= 255 THEN <<UByte(length)>> ELSE <<UByte(0), I32(length + 4)>>) \o <<UByte(command)>> \o content

\* Values of a type, of all sizes that matter.
Samples(type) ==
  CASE type = TYPE_INTEGER -> {<<I32(0)>>}
    [] type = TYPE_DOUBLE -> {<<Doubles(1)>>}
    [] type = TYPE_STRING -> {<<String(1)>>}
    [] type = TYPE_COLOR -> {Tail(AColor)}
    [] type \in {POSITION_2D, POSITION_LON_LAT} -> {Copies(2, <<Doubles(1)>>)}
    [] type \in {POSITION_3D, POSITION_LON_LAT_ALT} -> {Copies(3, <<Doubles(1)>>)}
    [] type = POSITION_ROADMAP -> {<<String(1), Doubles(1), UByte(0)>>}
    [] type = TYPE_POLYGON -> {Tail(APolygon(n)) : n \in PolygonSizes}
    [] type = TYPE_STRINGLIST -> {Tail(AStringList(n)) : n \in ListSizes}

AnIntOf(n) == <<UByte(TYPE_INTEGER), I32(n)>>
Rows(n, row) == <<I32(1 + n)>> \o AnIntOf(n) \o Copies(n, row)
CompoundSample(reads, n) ==
  CASE reads = "vehicleData" -> Rows(n, AString \o Copies(3, ADouble) \o AString)
    [] reads = "links" -> Rows(n, Copies(2, AString) \o Copies(3, AUByte(1)) \o Copies(2, AString) \o ADouble)
    [] reads = "logics" ->
         <<I32(n)>> \o Copies(n, ACompound(5, <<AString, AnInt, AnInt, ACompound(n, Copies(n, <<APhase(n)>>)),
                                                ACompound(n, Copies(n, <<AStringList(2)>>))>>))
    [] reads = "controlledLinks" -> Rows(n, AnIntOf(n) \o Copies(n, AStringList(3)))
    [] reads = "nextTLS" -> Rows(n, AString \o AnInt \o ADouble \o AByte(0))
    [] reads = "bestLanes" -> Rows(n, AString \o ADouble \o ADouble \o AByte(0) \o AUByte(1) \o AStringList(n))
    [] reads = "leader" -> <<I32(2)>> \o AString \o ADouble
    [] reads = "laneChangeState" -> <<I32(2)>> \o AnInt \o AnInt

\* What SUMO may answer to a question about a variable; to a conversion, in the type it
\* asks for.
Questions == {c \in GetsAndSets : c.kind = "get"}
Readings ==
  [ k \in {<<c.command, c.variable>> : c \in Questions} |->
      {c \in Questions : <<c.command, c.variable>> = k} ]
AnswersTo(command, variable, value) ==
  LET asked == {c \in Readings[<<command, variable>>] :
                  variable = Var.POSITION_CONVERSION => c.value = value}
  IN UNION {{<<UByte(c.expects)>> \o sample :
               sample \in IF c.reads = "plain" THEN Samples(c.expects)
                                               ELSE {CompoundSample(c.reads, n) : n \in ListSizes}} : c \in asked}

\* The response to a subscription, with results of one type.
ResultTokens(s, type, sample) ==
  FlattenSeq([i \in DOMAIN s.variables |-> <<s.variables[i], UByte(RTYPE_OK), UByte(type)>> \o sample])
Notice(s, type, sample) ==
  Response(s.command + RESPONSE,
           IF s.command \in NumbersOf(CMD_SUBSCRIBE)
             THEN <<String(s.holder), UByte(Len(s.variables))>> \o ResultTokens(s, type, sample)
             ELSE <<String(s.holder), UByte(Domain.VEHICLE), UByte(Len(s.variables)), I32(Cardinality(s.objects))>>
                  \o FlattenSeq([i \in 1 .. Cardinality(s.objects) |->
                                   <<String(SetToSeq(s.objects)[i])>> \o ResultTokens(s, type, sample)]))

\* Where the client should have stored what a subscription reported.
Reported(s) ==
  {Result(s.command + RESPONSE, s.holder, object, s.variables[i].v) :
     object \in s.objects, i \in DOMAIN s.variables}

Asked(c) ==
  {[command |-> c.command, holder |-> c.object, variables |-> c.value, objects |-> objects] :
     objects \in IF c.kind = "subscribe" THEN {{c.object}} ELSE {{}, Vehicles}}

CarryOut ==
  LET tokens == Tail(toServer)
      k == CommandAt(tokens)
      command == tokens[k].v
      Reply(content) == toClient' = toClient \o Packet(Status(command, RTYPE_OK) \o content)
  IN
  /\ alive
  /\ Received(toServer)
  /\ Understood(tokens)
  /\ toServer' = <<>>
  /\ verdict' = "ok"
  /\ alive' = (command # CMD_CLOSE)
  /\ \/ /\ command \in NumbersOf(CMD_GET)
        /\ \E answer \in AnswersTo(command, tokens[k + 1].v, SubSeq(tokens, k + 3, Len(tokens))) :
             Reply(Response(command + RESPONSE, <<tokens[k + 1], tokens[k + 2]>> \o answer))
        /\ UNCHANGED subscriptions
     \/ /\ command \in NumbersOf(CMD_SET) \cup {CMD_SETORDER, CMD_LOAD, CMD_CLOSE}
        /\ Reply(<<>>)
        /\ UNCHANGED subscriptions
     \/ /\ command = CMD_GETVERSION
        /\ Reply(Response(CMD_GETVERSION, <<I32(0), String(1)>>))
        /\ UNCHANGED subscriptions
     \/ /\ command \in NumbersOf(CMD_SUBSCRIBE) \cup NumbersOf(CMD_SUBSCRIBE_CONTEXT)
        /\ LET others == {s \in subscriptions : s.command # command \/ s.holder # call.object} IN
           IF call.value = <<>>
             THEN subscriptions' = others /\ Reply(<<>>)
             ELSE \E s \in Asked(call), type \in SubscribedTypes : \E sample \in Samples(type) :
                    /\ subscriptions' = others \cup {s}
                    /\ Reply(Notice(s, type, sample))
     \/ /\ command = CMD_SIMSTEP
        /\ \E left \in SUBSET subscriptions, type \in SubscribedTypes : \E sample \in Samples(type) :
             \E near \in [left -> {{}, Vehicles}] :
               /\ subscriptions' = {IF s.command \in NumbersOf(CMD_SUBSCRIBE) THEN s
                                     ELSE [s EXCEPT !.objects = near[s]] : s \in left}
               /\ LET order == SetToSeq(subscriptions') IN
                  Reply(<<I32(Len(order))>> \o FlattenSeq([i \in DOMAIN order |-> Notice(order[i], type, sample)]))
  /\ UNCHANGED clientVars

\* SUMO refuses what it cannot read, and may refuse anything.
Refuse ==
  LET tokens == Tail(toServer) IN
  /\ alive
  /\ Received(toServer)
  /\ toServer' = <<>>
  /\ verdict' = "refused"
  /\ toClient' = toClient \o Packet(Status(tokens[CommandAt(tokens)].v, RTYPE_ERR))
  /\ UNCHANGED <<clientVars, alive, subscriptions>>

\* SUMO ends, and what is in the stream may be lost.
Die ==
  /\ alive
  /\ alive' = FALSE
  /\ toServer' = <<>>
  /\ toClient' \in {toClient, <<>>}
  /\ UNCHANGED <<clientVars, verdict, subscriptions>>

----------------------------------------------------------------------------------

Init ==
  /\ mySocket = "null"
  /\ stage = "idle"
  /\ call = NoCall
  /\ outgoing = <<>>
  /\ toServer = <<>>
  /\ toClient = <<>>
  /\ inMsg = <<>>
  /\ outcome = "none"
  /\ results = {}
  /\ alive = TRUE
  /\ verdict = "none"
  /\ subscriptions = {}

Next ==
  \/ Connect
  \/ GetOrSet
  \/ Subscribe
  \/ RunSession
  \/ \E n \in DOMAIN outgoing : Send(n)
  \/ SendToNobody
  \/ \E n \in DOMAIN toClient : Receive(n)
  \/ ReceiveFromNobody
  \/ Finish
  \/ CarryOut
  \/ Refuse
  \/ Die

\* The thread of the client is never kept from running, and SUMO answers.
Fairness ==
  /\ WF_vars(\E n \in DOMAIN outgoing : Send(n))
  /\ WF_vars(SendToNobody)
  /\ WF_vars(\E n \in DOMAIN toClient : Receive(n))
  /\ WF_vars(ReceiveFromNobody)
  /\ WF_vars(Finish)
  /\ WF_vars(Refuse \/ CarryOut)

Spec == Init /\ [][Next]_vars /\ Fairness

----------------------------------------------------------------------------------

\* Every packet SUMO receives holds one command it can read to the end, with the length the
\* command announces: whatever the method, the length of the id, the size of a list. Only
\* EdgeScope::setMaxSpeed, which forgets a type, asks for what no server can read.
RequestsParse ==
  Received(toServer) =>
    (Understood(Tail(toServer)) <=> <<call.command, call.variable>> # <<UntypedSetMaxSpeed.command, UntypedSetMaxSpeed.variable>>)

\* A call of a method throws only what SUMO refused: no answer is misread, mistaken for
\* another or found to be of another type than the method expects.
OnlyRefusalsThrow == outcome # "broken"

\* After a step the scopes hold what SUMO reported in it, every result and no older one.
StepBringsResults ==
  [][stage = "waiting" /\ call.kind = "step" /\ stage' = "idle" /\ outcome' = "ok"
       => results' = UNION {Reported(s) : s \in subscriptions}]_vars

\* A call is carried out once, before it returns, and returns the verdict on itself.
Remote ==
  INSTANCE RemoteCall WITH
    phase <- IF stage \in {"idle", "ended"} THEN "idle" ELSE IF verdict = "none" THEN "called" ELSE "carriedOut"
IsRemoteCall == Remote!RCSpec

\* No call waits for ever, even if SUMO goes.
CallsEnd == stage \in {"sending", "waiting"} ~> stage \in {"idle", "ended"}

=================================================================================
