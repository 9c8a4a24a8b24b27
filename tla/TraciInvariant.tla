---------------------------- MODULE TraciInvariant ---------------------------
(***************************************************************************)
(* The inductive invariant of TraciClient, StreamInvariant, and what it is *)
(* stated with: what a reader takes for what it wants (Takes, Advances),   *)
(* the values that are written (Values), what every domain answers (Asks), *)
(* the calls the client makes (Legal, Sent) and the replies SUMO gives     *)
(* (Answered, ReplyTo). Module TraciProofs has the theorems.               *)
(***************************************************************************)
EXTENDS TraciClient

-----------------------------------------------------------------------------
(* Flattened sequences.                                                    *)

\* f is the recursive function of FlattenSeq.
Flattens(f, seqs) ==
    f = [i \in 1..Len(seqs) |-> IF i = 1 THEN seqs[i] ELSE f[i - 1] \o seqs[i]]

-----------------------------------------------------------------------------
(* The size of a sequence of tokens.                                       *)

\* Tokens of at least one byte.
Tokens == { t \in [as : {"byte", "int", "double", "string"}, v : Int] : Size(t) \in Nat \ {0} }

\* f is the recursive function of SizeOf.
Sums(f, tokens) ==
    f = [i \in 0..Len(tokens) |-> IF i = 0 THEN 0 ELSE f[i - 1] + Size(tokens[i])]

-----------------------------------------------------------------------------
(* Reading one token after the other.                                      *)

\* A reader that has not failed, with what it wants, the subscription it reads and
\* its results.
Reader(want, command, holder, object, variables, found) ==
    [want |-> want, ok |-> TRUE, rest |-> 0, command |-> command, holder |-> holder,
     object |-> object, variables |-> variables, results |-> found]

\* The tokens take the first reader to the second.
Reads(before, tokens, after) ==
    \E f : /\ f[0] = before
           /\ \A i \in 1..Len(tokens) : f[i] = ReadToken(f[i - 1], tokens[i])
           /\ f[Len(tokens)] = after

\* f is the recursive function of Reading.
Follows(f, tokens, want, command) ==
    f = [i \in 0..Len(tokens) |->
          IF i = 0
            THEN [want |-> want, ok |-> TRUE, rest |-> 0, command |-> command, holder |-> 0, object |-> 0,
                  variables |-> 0, results |-> {}]
            ELSE CHOOSE after \in {ReadToken(before, tokens[i]) : before \in {f[i - 1]}} : TRUE]

-----------------------------------------------------------------------------
(* What tokens satisfy which wants.                                        *)

Kinds == {"byte", "int", "double", "string", "this", "value", "points", "manyPoints", "numbers", "nothing",
          "length", "longLength", "responses", "command", "holder", "domain", "variables", "objects",
          "object", "variable", "status", "result"} \cup DOMAIN RowOf

Items == [as : Kinds, v : Int]

\* A reader that wants these items first has them when it has read these tokens, and
\* nothing else has changed.
Takes(want, tokens) ==
    /\ want \in Seq(Items)
    /\ tokens \in Seq(Tokens)
    /\ \A rest \in Seq(Items) : \A command, holder, object, variables, found :
         Reads(Reader(want \o rest, command, holder, object, variables, found), tokens,
               Reader(rest, command, holder, object, variables, found))

\* The kinds of items that say something of a subscription.
Marks == {"command", "holder", "object", "variables", "variable"}

\* An item that one token satisfies.
Plain == {"byte", "int", "string", "double", "this", "longLength", "domain", "status"}

-----------------------------------------------------------------------------
(* Values, as a setter writes them and as SUMO reads them.                 *)

\* What a reader that wants a value takes for one.
Values == { t \in Seq(Tokens) : Takes(<<Want("value")>>, t) }

-----------------------------------------------------------------------------
(* The type and the reading of the answer, for the numbers that are asked for. *)

EdgeAsks(n) ==
    IF n \in {27, 126} THEN <<TYPE_STRING, "plain">>
    ELSE IF n \in {0, 18} THEN <<TYPE_STRINGLIST, "plain">>
    ELSE IF n \in {1, 16, 20, 82} THEN <<TYPE_INTEGER, "plain">>
    ELSE <<TYPE_DOUBLE, "plain">>

GUIAsks(n) ==
    IF n \in {126, 162} THEN <<TYPE_STRING, "plain">>
    ELSE IF n \in {0} THEN <<TYPE_STRINGLIST, "plain">>
    ELSE IF n \in {161} THEN <<POSITION_2D, "plain">>
    ELSE IF n \in {163} THEN <<TYPE_POLYGON, "plain">>
    ELSE <<TYPE_DOUBLE, "plain">>

InductionLoopAsks(n) ==
    IF n \in {81, 126} THEN <<TYPE_STRING, "plain">>
    ELSE IF n \in {0, 18} THEN <<TYPE_STRINGLIST, "plain">>
    ELSE IF n \in {16} THEN <<TYPE_INTEGER, "plain">>
    ELSE IF n \in {23} THEN <<TYPE_COMPOUND, "vehicleData">>
    ELSE <<TYPE_DOUBLE, "plain">>

JunctionAsks(n) ==
    IF n \in {0} THEN <<TYPE_STRINGLIST, "plain">>
    ELSE IF n \in {66} THEN <<POSITION_2D, "plain">>
    ELSE <<TYPE_STRING, "plain">>

LaneAsks(n) ==
    IF n \in {49, 126} THEN <<TYPE_STRING, "plain">>
    ELSE IF n \in {0, 18, 52, 53, 55} THEN <<TYPE_STRINGLIST, "plain">>
    ELSE IF n \in {1, 16, 20, 48} THEN <<TYPE_INTEGER, "plain">>
    ELSE IF n \in {51} THEN <<TYPE_COMPOUND, "links">>
    ELSE IF n \in {78} THEN <<TYPE_POLYGON, "plain">>
    ELSE <<TYPE_DOUBLE, "plain">>

LaneAreaAsks(n) ==
    IF n \in {0} THEN <<TYPE_STRINGLIST, "plain">>
    ELSE <<TYPE_STRING, "plain">>

MeMeAsks(n) ==
    IF n \in {0, 18} THEN <<TYPE_STRINGLIST, "plain">>
    ELSE IF n \in {16, 17, 20} THEN <<TYPE_INTEGER, "plain">>
    ELSE <<TYPE_STRING, "plain">>

POIAsks(n) ==
    IF n \in {79, 126, 147} THEN <<TYPE_STRING, "plain">>
    ELSE IF n \in {0} THEN <<TYPE_STRINGLIST, "plain">>
    ELSE IF n \in {1} THEN <<TYPE_INTEGER, "plain">>
    ELSE IF n \in {66} THEN <<POSITION_2D, "plain">>
    ELSE IF n \in {69} THEN <<TYPE_COLOR, "plain">>
    ELSE <<TYPE_DOUBLE, "plain">>

PolygonAsks(n) ==
    IF n \in {79, 126} THEN <<TYPE_STRING, "plain">>
    ELSE IF n \in {0} THEN <<TYPE_STRINGLIST, "plain">>
    ELSE IF n \in {1} THEN <<TYPE_INTEGER, "plain">>
    ELSE IF n \in {78} THEN <<TYPE_POLYGON, "plain">>
    ELSE IF n \in {69} THEN <<TYPE_COLOR, "plain">>
    ELSE <<TYPE_DOUBLE, "plain">>

RouteAsks(n) ==
    IF n \in {0, 84} THEN <<TYPE_STRINGLIST, "plain">>
    ELSE <<TYPE_STRING, "plain">>

SimulationAsks(n) ==
    IF n \in {126} THEN <<TYPE_STRING, "plain">>
    ELSE IF n \in {112, 113, 115, 117, 119, 121, 125} THEN <<TYPE_INTEGER, "plain">>
    ELSE IF n \in {114, 116, 118, 120, 122} THEN <<TYPE_STRINGLIST, "plain">>
    ELSE IF n \in {124} THEN <<TYPE_POLYGON, "plain">>
    ELSE <<TYPE_DOUBLE, "plain">>

TrafficLightAsks(n) ==
    IF n \in {27, 32, 41, 126} THEN <<TYPE_STRING, "plain">>
    ELSE IF n \in {0, 38} THEN <<TYPE_STRINGLIST, "plain">>
    ELSE IF n \in {1, 40} THEN <<TYPE_INTEGER, "plain">>
    ELSE IF n \in {43} THEN <<TYPE_COMPOUND, "logics">>
    ELSE IF n \in {39} THEN <<TYPE_COMPOUND, "controlledLinks">>
    ELSE <<TYPE_DOUBLE, "plain">>

VehicleTypeAsks(n) ==
    IF n \in {73, 74, 75, 126, 185} THEN <<TYPE_STRING, "plain">>
    ELSE IF n \in {0} THEN <<TYPE_STRINGLIST, "plain">>
    ELSE IF n \in {69} THEN <<TYPE_COLOR, "plain">>
    ELSE <<TYPE_DOUBLE, "plain">>

VehicleAsks(n) ==
    IF n \in {73, 74, 75, 79, 80, 81, 83, 126, 185, 189} THEN <<TYPE_STRING, "plain">>
    ELSE IF n \in {0, 26, 84, 190} THEN <<TYPE_STRINGLIST, "plain">>
    ELSE IF n \in {1, 82, 91, 103, 105, 137, 146, 179, 181} THEN <<TYPE_INTEGER, "plain">>
    ELSE IF n \in {66} THEN <<POSITION_2D, "plain">>
    ELSE IF n \in {57} THEN <<POSITION_3D, "plain">>
    ELSE IF n \in {69} THEN <<TYPE_COLOR, "plain">>
    ELSE IF n \in {112} THEN <<TYPE_COMPOUND, "nextTLS">>
    ELSE IF n \in {178} THEN <<TYPE_COMPOUND, "bestLanes">>
    ELSE IF n \in {104} THEN <<TYPE_COMPOUND, "leader">>
    ELSE IF n \in {19} THEN <<TYPE_COMPOUND, "laneChangeState">>
    ELSE <<TYPE_DOUBLE, "plain">>

PersonAsks(n) ==
    IF n \in {79, 80, 126, 193, 195} THEN <<TYPE_STRING, "plain">>
    ELSE IF n \in {0, 84} THEN <<TYPE_STRINGLIST, "plain">>
    ELSE IF n \in {1, 192, 194} THEN <<TYPE_INTEGER, "plain">>
    ELSE IF n \in {66} THEN <<POSITION_2D, "plain">>
    ELSE IF n \in {57} THEN <<POSITION_3D, "plain">>
    ELSE IF n \in {69} THEN <<TYPE_COLOR, "plain">>
    ELSE <<TYPE_DOUBLE, "plain">>

Asks(d, n) ==
    CASE d = "EDGE" -> EdgeAsks(n)
      [] d = "GUI" -> GUIAsks(n)
      [] d = "INDUCTIONLOOP" -> InductionLoopAsks(n)
      [] d = "JUNCTION" -> JunctionAsks(n)
      [] d = "LANE" -> LaneAsks(n)
      [] d = "LANEAREA" -> LaneAreaAsks(n)
      [] d = "MULTIENTRYEXIT" -> MeMeAsks(n)
      [] d = "POI" -> POIAsks(n)
      [] d = "POLYGON" -> PolygonAsks(n)
      [] d = "ROUTE" -> RouteAsks(n)
      [] d = "SIM" -> SimulationAsks(n)
      [] d = "TL" -> TrafficLightAsks(n)
      [] d = "VEHICLETYPE" -> VehicleTypeAsks(n)
      [] d = "VEHICLE" -> VehicleAsks(n)
      [] d = "PERSON" -> PersonAsks(n)

\* A question about a variable of a domain that is always answered in the same type.
IsQuestion(c, d) ==
    /\ c.kind = "get"
    /\ c.command = CMD_GET + Domain[d]
    /\ c.variable \in 0..255
    /\ d = "SIM" => c.variable \notin {130, 131}
    /\ c.value = <<>> \/ c.value \in Values
    /\ <<c.expects, c.reads>> = Asks(d, c.variable)

-----------------------------------------------------------------------------
(* What the setters write.                                                 *)

\* A call that sets a variable of a domain to a value the server can read, if it can be
\* written.
IsSetting(c, d) ==
    /\ c.kind = "set"
    /\ c.command = CMD_SET + Domain[d]
    /\ c.variable \in 0..255
    /\ d = "EDGE" => c.variable # 65
    /\ c.value \in Seq(Tokens)
    /\ Writable(c.value) => c.value \in Values

\* A setter of a scope without a command for setting.
IsUnset(c) == c.kind = "set" /\ c.command = -1 /\ c.variable \in 0..255 /\ c.value \in Values

-----------------------------------------------------------------------------
(* The questions about positions and distances.                            *)

\* The type a conversion asks for, as it is in its value.
Target(value) == IF value[4].as = "string" THEN value[8].v ELSE value[7].v

\* A conversion of a position. The type of the answer is in the value that is sent.
PositionTypes == {POSITION_LON_LAT, POSITION_2D, POSITION_LON_LAT_ALT, POSITION_3D, POSITION_ROADMAP}

IsConversion(c) ==
    /\ c.kind = "get"
    /\ c.command = CMD_GET + Domain["SIM"]
    /\ c.variable = 130
    /\ c.value \in Values
    /\ c.expects \in PositionTypes
    /\ c.expects = Target(c.value)
    /\ c.reads = "plain"

\* A question about a distance. The last of its three items has no type.
DistanceWants == <<This(TYPE_COMPOUND), Want("int"), Want("value"), Want("value"), Want("byte")>>

IsDistance(c) ==
    /\ c.kind = "get"
    /\ c.command = CMD_GET + Domain["SIM"]
    /\ c.variable = 131
    /\ Takes(DistanceWants, c.value)
    /\ c.expects = TYPE_DOUBLE
    /\ c.reads = "plain"

-----------------------------------------------------------------------------
(* Every call.                                                             *)

\* EdgeScope::setMaxSpeed.
IsUntyped(c) ==
    c.kind = "set" /\ c.command = CMD_SET + Domain["EDGE"] /\ c.variable = 65 /\ c.value = <<Doubles(1)>>

\* The other questions and settings, of some domain.
IsUsual(c) == \E d \in DOMAIN Domain : IsQuestion(c, d) \/ IsSetting(c, d)

-----------------------------------------------------------------------------
(* Commands and responses: a length, a number and what follows.            *)

\* The length is right, wherever it is, and what follows the number is rest.
Framed(tokens, command, rest) ==
    /\ tokens \in Seq(Tokens)
    /\ rest \in Seq(Tokens)
    /\ CommandAt(tokens) \in {2, 3}
    /\ Len(tokens) = CommandAt(tokens) + Len(rest)
    /\ tokens[CommandAt(tokens)].v = command
    /\ tokens[CommandAt(tokens) - 1].v = SizeOf(tokens)
    /\ \A i \in 1..Len(rest) : tokens[CommandAt(tokens) + i] = rest[i]
    /\ SubSeq(tokens, CommandAt(tokens) + 1, Len(tokens)) = rest

-----------------------------------------------------------------------------
(* The requests.                                                           *)

\* One sequence and then another, whatever is read first.
Then(s, t) == s \o t

-----------------------------------------------------------------------------
(* What each command has after its number. *)

ObjectWants == <<Want("byte"), Want("string")>>

ValueWants == <<Want("value")>>

SubscribeWants == <<Doubles(1), Doubles(1), Want("string"), Want("numbers")>>

ContextWants == <<Doubles(1), Doubles(1), Want("string"), Want("byte"), Doubles(1), Want("numbers")>>

StepWants == <<Doubles(1)>>

OrderWants == <<Want("int")>>

\* What a get or a set wants.
VariableWants(command, rest) ==
    IF Len(rest) = 2 THEN <<>>
    ELSE IF command = 171 /\ rest[1].v = 131 THEN DistanceWants
    ELSE ValueWants

-----------------------------------------------------------------------------
(* Every request.                                                          *)

\* A subscription, and one to a context.
IsSubscription(c) ==
    /\ c.kind = "subscribe"
    /\ \E d \in SubscribedDomains : c.command = CMD_SUBSCRIBE + Domain[d]
    /\ c.variable = 0
    /\ c.value = <<>> \/ \E v \in SubscribedVariables : c.value = <<UByte(v)>>

IsContext(c) ==
    /\ c.kind = "context"
    /\ \E d \in SubscribedDomains : c.command = CMD_SUBSCRIBE_CONTEXT + Domain[d]
    /\ c.variable = 0
    /\ \E v \in SubscribedVariables : c.value = <<UByte(v)>>

\* A command of the session.
IsSession(c) ==
    /\ \/ c.kind = "order" /\ c.command = CMD_SETORDER
       \/ c.kind = "load" /\ c.command = CMD_LOAD
       \/ c.kind = "version" /\ c.command = CMD_GETVERSION
       \/ c.kind = "close" /\ c.command = CMD_CLOSE
       \/ c.kind = "step" /\ c.command = CMD_SIMSTEP
    /\ c.variable = 0
    /\ c.value = <<>>

\* A call with its object. (Setters of scopes without a command for setting are no such
\* calls: they are never sent.)
Legal(c) ==
    /\ c.object \in Nat
    /\ \/ IsUntyped(c) \/ IsConversion(c) \/ IsDistance(c) \/ IsUsual(c)
       \/ IsSubscription(c) \/ IsContext(c) \/ IsSession(c)

\* What follows the number of the command of a request.
Body(c) ==
    CASE c.kind \in {"get", "set"} -> <<UByte(c.variable), String(c.object)>> \o c.value
      [] c.kind = "subscribe" ->
           <<Doubles(1), Doubles(1), String(c.object), UByte(Len(c.value))>> \o c.value
      [] c.kind = "context" ->
           <<Doubles(1), Doubles(1), String(c.object), UByte(Domain.VEHICLE), Doubles(1), UByte(Len(c.value))>>
           \o c.value
      [] c.kind = "step" -> <<Doubles(1)>>
      [] c.kind = "order" -> <<I32(0)>>
      [] c.kind = "load" -> <<UByte(TYPE_STRINGLIST), I32(2)>> \o Copies(2, <<String(3)>>)
      [] c.kind \in {"version", "close"} -> <<>>

-----------------------------------------------------------------------------
(* Answers that are rows of typed values.                                  *)

\* One typed value of a row.
TypedItem(kind) == <<Want("byte"), IF kind = "double" THEN Doubles(1) ELSE Want(kind)>>

\* The first n values of a row are these tokens.
UpTo(kinds, n, tokens) ==
    \E front \in Seq(Kinds) : /\ Len(front) = n
                              /\ \A i \in 1..n : front[i] = kinds[i]
                              /\ Takes(Typed(front), tokens)

\* A program with its phases and parameters.
ALogic(n) ==
    ACompound(5, <<AString, AnInt, AnInt, ACompound(n, Copies(n, <<APhase(n)>>)),
                   ACompound(n, Copies(n, <<AStringList(2)>>))>>)

\* Whatever compound a method asks for, it can read.
CompoundKinds == {"vehicleData", "links", "logics", "controlledLinks", "nextTLS", "bestLanes", "leader", "laneChangeState"}

-----------------------------------------------------------------------------
(* The answer to every question.                                           *)

\* Types of answers that are read as plain values.
AnswerTypes ==
    {TYPE_INTEGER, TYPE_DOUBLE, TYPE_STRING, TYPE_COLOR, POSITION_2D, POSITION_LON_LAT, POSITION_3D,
     POSITION_LON_LAT_ALT, POSITION_ROADMAP, TYPE_POLYGON, TYPE_STRINGLIST}

\* How a question's answer is read: as a plain value of one of these types, or as a compound.
IsReading(type, reads) ==
    \/ reads = "plain" /\ type \in AnswerTypes
    \/ reads \in CompoundKinds /\ type = TYPE_COMPOUND

-----------------------------------------------------------------------------
(* Replies: a status, and what follows it.                                 *)

\* What a status has.
StatusWants(command) == <<Want("byte"), This(command), Want("byte"), Want("string")>>

\* What follows the status in a reply.
AfterStatus(msg) == SubSeq(msg, 5, Len(msg))

-----------------------------------------------------------------------------
(* Reading what subscriptions brought.                                     *)

\* What a reader knows of the subscription it reads.
Place(command, holder, object, variables) ==
    [command |-> command, holder |-> holder, object |-> object, variables |-> variables]

\* A reader that has not failed, there.
At(want, place, found) == Reader(want, place.command, place.holder, place.object, place.variables, found)

\* A reader that wants these items first, at the first place, has them when it has read
\* these tokens, is at the other place then, and has found these results.
Advances(want, before, tokens, after, new) ==
    /\ want \in Seq(Items)
    /\ tokens \in Seq(Tokens)
    /\ \A rest \in Seq(Items) : \A found :
         Reads(At(want \o rest, before, found), tokens, At(rest, after, found \cup new))

\* The place a token leads to, and what it brings.
Leads(item, token, command, holder, object, variables, place, one) ==
    \/ /\ item.as \notin Marks
       /\ place = Place(command, holder, object, variables) /\ one = {}
    \/ /\ item.as = "command"
       /\ place = Place(token.v, holder, object, variables) /\ one = {}
    \/ /\ item.as = "holder"
       /\ place = Place(command, token.v, token.v, variables) /\ one = {}
    \/ /\ item.as = "object"
       /\ place = Place(command, holder, token.v, variables) /\ one = {}
    \/ /\ item.as = "variables"
       /\ place = Place(command, holder, object, token.v) /\ one = {}
    \/ /\ item.as = "variable"
       /\ place = Place(command, holder, object, variables) /\ one = {Result(command, holder, object, token.v)}

\* One result: the variable, that it is all right, its type and its value.
OneResult(variable, type, sample) == <<UByte(variable), UByte(RTYPE_OK), UByte(type)>> \o sample

\* The objects near another, each with one result.
Nearby(n, ids, row) == FlattenSeq([i \in 1..n |-> <<String(ids[i])>> \o row])

\* (Each with a name of some length.)
Named(n, ids) == \A i \in 1..n : ids[i] \in Nat

Found(n, ids, command, holder, variable) == {Result(command, holder, ids[i], variable) : i \in 1..n}

-----------------------------------------------------------------------------
(* What SUMO reports of a subscription.                                    *)

\* A subscription SUMO has accepted: one variable, of an object or of what is near one.
IsSubscribed(s) ==
    /\ s.holder \in Nat
    /\ \E v \in SubscribedVariables : s.variables = <<UByte(v)>>
    /\ \E d \in SubscribedDomains :
         \/ s.command = CMD_SUBSCRIBE + Domain[d] /\ s.objects = {s.holder}
         \/ s.command = CMD_SUBSCRIBE_CONTEXT + Domain[d] /\ s.objects \in {{}, Vehicles}

\* Responses in a row: each is read from wherever the one before has led.
EachRead(w, parts, n, news) == \A i \in 1..n : \A p : \E q : Advances(w, p, parts[i], q, news[i])

AllOf(n, news) == UNION {news[i] : i \in 1..n}

\* How many responses follow, and the responses.
Notices(order, type, sample) ==
    <<I32(Len(order))>> \o FlattenSeq([i \in DOMAIN order |-> Notice(order[i], type, sample)])

\* What subscriptions bring.
Brought(subs) == UNION {Reported(s) : s \in subs}

-----------------------------------------------------------------------------
(* The answer SUMO gives is the one the method reads.                      *)

\* A question of any sort.
IsAsked(c) == IsConversion(c) \/ IsDistance(c) \/ \E d \in DOMAIN Domain : IsQuestion(c, d)

\* A call that has been sent. SUMO has an answer for every question.
Sent(c) ==
    /\ Legal(c)
    /\ Writable(Request(c))
    /\ c.kind = "get" => \E q \in Questions : q.command = c.command /\ q.variable = c.variable

\* A subscription has these parts and no others.
IsRecord(s) == s = [command |-> s.command, holder |-> s.holder, variables |-> s.variables, objects |-> s.objects]

-----------------------------------------------------------------------------
(* The stream between the two, from the call to its return.                *)

\* SUMO's subscriptions are ones that were asked for.
SubscriptionsKnown == IsFiniteSet(subscriptions) /\ \A s \in subscriptions : IsSubscribed(s) /\ IsRecord(s)

\* What the client reads of the answer after the status. (The scope of induction loops is
\* not among those in which it looks for the results of a step.)
Answered(c, content, subs) ==
    /\ content \in Seq(Tokens)
    /\ "INDUCTIONLOOP" \notin SubscribedDomains =>
         /\ Complete(Reading(content, Answer(c), c.command + RESPONSE))
         /\ c.kind = "step" =>
              Reading(content, Answer(c), c.command + RESPONSE).results = Brought(subs)

\* What SUMO sends back.
ReplyTo(c, result, reply, subs) ==
    \/ result = "refused" /\ reply = Status(c.command, RTYPE_ERR)
    \/ result = "ok" /\ \E content : Answered(c, content, subs) /\ reply = Status(c.command, RTYPE_OK) \o content

\* Between two calls nothing is under way.
Quiet == outgoing = <<>> /\ toServer = <<>> /\ toClient = <<>> /\ inMsg = <<>>

\* While a call is sent, the stream and what is left to send are its packet.
BeingSent ==
    /\ Sent(call) /\ verdict = "none" /\ toClient = <<>> /\ inMsg = <<>>
    /\ outgoing \in Seq(Tokens) /\ outgoing # <<>>
    /\ toServer \in Seq(Tokens)
    /\ IF alive THEN toServer \o outgoing = Packet(Request(call)) ELSE toServer = <<>>

\* Then the packet is in the stream.
Delivered ==
    /\ Sent(call) /\ verdict = "none" /\ toClient = <<>> /\ inMsg = <<>> /\ outgoing = <<>>
    /\ toServer = IF alive THEN Packet(Request(call)) ELSE <<>>

\* Once SUMO has decided, what was received and what is in the stream are the packet with
\* its reply, unless the rest was lost with SUMO.
BeingAnswered ==
    /\ Sent(call) /\ verdict \in {"ok", "refused"} /\ outgoing = <<>> /\ toServer = <<>>
    /\ inMsg \in Seq(Tokens)
    /\ \E reply \in Seq(Tokens), rest \in Seq(Tokens) :
         /\ ReplyTo(call, verdict, reply, subscriptions)
         /\ inMsg \o rest = Packet(reply)
         /\ toClient = rest \/ (~alive /\ toClient = <<>>)

\* The invariant.
StreamInvariant ==
    /\ SubscriptionsKnown
    /\ \/ stage \in {"idle", "ended"} /\ Quiet
       \/ stage = "sending" /\ BeingSent
       \/ stage = "waiting" /\ Delivered
       \/ stage = "waiting" /\ BeingAnswered

\* What a subscription holds after a step.
Stepped(s, objects) == IF s.command \in NumbersOf(CMD_SUBSCRIBE) THEN s ELSE [s EXCEPT !.objects = objects]

\* What SUMO does with a command.
DoneWith(tokens, k, command) ==
    \/ /\ command \in NumbersOf(CMD_GET)
       /\ \E answer \in AnswersTo(command, tokens[k + 1].v, SubSeq(tokens, k + 3, Len(tokens))) :
            toClient' = toClient \o Packet(Status(command, RTYPE_OK)
                          \o Response(command + RESPONSE, <<tokens[k + 1], tokens[k + 2]>> \o answer))
       /\ subscriptions' = subscriptions
    \/ /\ command \in NumbersOf(CMD_SET) \cup {CMD_SETORDER, CMD_LOAD, CMD_CLOSE}
       /\ toClient' = toClient \o Packet(Status(command, RTYPE_OK) \o <<>>)
       /\ subscriptions' = subscriptions
    \/ /\ command = CMD_GETVERSION
       /\ toClient' = toClient \o Packet(Status(command, RTYPE_OK) \o Response(CMD_GETVERSION, <<I32(0), String(1)>>))
       /\ subscriptions' = subscriptions
    \/ /\ command \in NumbersOf(CMD_SUBSCRIBE) \cup NumbersOf(CMD_SUBSCRIBE_CONTEXT)
       /\ call.value = <<>>
       /\ subscriptions' = {s \in subscriptions : s.command # command \/ s.holder # call.object}
       /\ toClient' = toClient \o Packet(Status(command, RTYPE_OK) \o <<>>)
    \/ /\ command \in NumbersOf(CMD_SUBSCRIBE) \cup NumbersOf(CMD_SUBSCRIBE_CONTEXT)
       /\ call.value # <<>>
       /\ \E s \in Asked(call), type \in SubscribedTypes : \E sample \in Samples(type) :
            /\ subscriptions' = {t \in subscriptions : t.command # command \/ t.holder # call.object} \cup {s}
            /\ toClient' = toClient \o Packet(Status(command, RTYPE_OK) \o Notice(s, type, sample))
    \/ /\ command = CMD_SIMSTEP
       /\ \E left \in SUBSET subscriptions, type \in SubscribedTypes : \E sample \in Samples(type) :
            \E near \in [left -> {{}, Vehicles}] :
              /\ subscriptions' = {Stepped(s, near[s]) : s \in left}
              /\ toClient' = toClient \o Packet(Status(command, RTYPE_OK)
                               \o Notices(SetToSeq(subscriptions'), type, sample))

\* SUMO carries out the call of which it has the packet.
Answering ==
    /\ stage = "waiting" /\ Delivered /\ SubscriptionsKnown
    /\ stage' = stage /\ call' = call /\ outgoing' = outgoing /\ inMsg' = inMsg /\ toServer' = <<>> /\ verdict' = "ok"
=============================================================================
