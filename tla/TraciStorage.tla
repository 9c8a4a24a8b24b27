------------------------------ MODULE TraciStorage ------------------------------
(* tcpip::Storage and the commands TraCIAPI writes into one. A storage is a sequence   *)
(* of tokens, each the bytes of one write: [as |-> "byte" | "int" | "double" |         *)
(* "string", v |-> value]. A string, an object's id included, is its length: that is   *)
(* what frames depend on. A double token is a run of v doubles, whose values matter    *)
(* to nobody here.                                                                     *)
EXTENDS SequencesExt, TraciConstants

\* A write that throws std::invalid_argument leaves this instead of a value.
Throws == -1

UByte(n) == [as |-> "byte", v |-> IF n \in 0 .. 255 THEN n ELSE Throws]
Byte(n) == [as |-> "byte", v |-> IF n \in -128 .. 127 THEN (n + 256) % 256 ELSE Throws]
I32(n) == [as |-> "int", v |-> n]
Doubles(n) == [as |-> "double", v |-> n]
String(n) == [as |-> "string", v |-> n]

Writable(tokens) == \A i \in DOMAIN tokens : tokens[i].v # Throws

Size(token) ==
  CASE token.as = "byte" -> 1
    [] token.as = "int" -> 4
    [] token.as = "double" -> 8 * token.v
    [] token.as = "string" -> 4 + token.v

SizeOf(tokens) ==
  LET sum[i \in 0 .. Len(tokens)] == IF i = 0 THEN 0 ELSE sum[i - 1] + Size(tokens[i])
  IN sum[Len(tokens)]

Copies(n, tokens) == FlattenSeq([i \in 1 .. n |-> tokens])

----------------------------------------------------------------------------------
(* What the methods of the scopes write as the value of a request: a type and then the *)
(* value. Strings in it have one character; numbers in it are zero unless they matter. *)

ADouble == <<UByte(TYPE_DOUBLE), Doubles(1)>>
AnInt == <<UByte(TYPE_INTEGER), I32(0)>>
AByte(n) == <<UByte(TYPE_BYTE), Byte(n)>>
AUByte(n) == <<UByte(TYPE_UBYTE), UByte(n)>>
AString == <<UByte(TYPE_STRING), String(1)>>
AColor == <<UByte(TYPE_COLOR)>> \o Copies(4, <<UByte(0)>>)
APosition2D == <<UByte(POSITION_2D), Doubles(1), Doubles(1)>>
AStringList(n) == <<UByte(TYPE_STRINGLIST), I32(n)>> \o Copies(n, <<String(1)>>)

\* The announced number of items is the literal of the source, not a length.
ACompound(announced, items) == <<UByte(TYPE_COMPOUND), I32(announced)>> \o FlattenSeq(items)

\* PolygonScope::setShape: a count of 256 or more is an int after a zero byte.
APolygon(n) ==
  <<UByte(TYPE_POLYGON)>> \o (IF n < 256 THEN <<UByte(n)>> ELSE <<UByte(0), I32(n)>>) \o <<Doubles(2 * n)>>

----------------------------------------------------------------------------------
(* The commands.                                                                       *)

\* Faulty variant: the four bytes of an extended length are not counted.
CreateCommandShort(cmdID, varID, objID, add) ==
  LET length == 1 + 1 + 1 + 4 + objID + SizeOf(add)
  IN (IF length <= 255 THEN <<UByte(length)>> ELSE <<UByte(0), I32(length)>>)
     \o <<UByte(cmdID), UByte(varID), String(objID)>> \o add

CreateCommand(cmdID, varID, objID, add) ==
  LET length == 1 + 1 + 1 + 4 + objID + SizeOf(add)
  IN (IF length <= 255 THEN <<UByte(length)>> ELSE <<UByte(0), I32(length + 4)>>)
     \o <<UByte(cmdID), UByte(varID), String(objID)>> \o add

\* vars are the numbers of the variables, written one by one.
SubscribeObjectVariable(cmdID, objID, vars) ==
  <<UByte(0), I32(5 + 1 + 8 + 8 + 4 + objID + 1 + Len(vars)), UByte(cmdID), Doubles(1), Doubles(1),
    String(objID), UByte(Len(vars))>> \o vars

SubscribeObjectContext(cmdID, objID, domain, vars) ==
  <<UByte(0), I32(5 + 1 + 8 + 8 + 4 + objID + 1 + 8 + 1 + Len(vars)), UByte(cmdID), Doubles(1), Doubles(1),
    String(objID), UByte(domain), Doubles(1), UByte(Len(vars))>> \o vars

SimulationStepCommand == <<UByte(1 + 1 + 8), UByte(CMD_SIMSTEP), Doubles(1)>>
SetOrderCommand == <<UByte(1 + 1 + 4), UByte(CMD_SETORDER), I32(0)>>
CloseCommand == <<UByte(1 + 1), UByte(CMD_CLOSE)>>
GetVersionCommand == <<UByte(1 + 1), UByte(CMD_GETVERSION)>>

\* n arguments of c characters each.
LoadCommand(n, c) ==
  <<UByte(0), I32(1 + 4 + 1 + 1 + 4 + n * c + 4 * n), UByte(CMD_LOAD), UByte(TYPE_STRINGLIST), I32(n)>>
  \o Copies(n, <<String(c)>>)

\* Faulty variant: the length does not count itself.
UncountedPacket(tokens) == <<I32(SizeOf(tokens))>> \o tokens

\* Socket::sendExact: the length of the packet, itself included, goes ahead of it.
Packet(tokens) == <<I32(4 + SizeOf(tokens))>> \o tokens

----------------------------------------------------------------------------------
(* Reading. A reader holds what it still wants, item by item; an item is [as |-> kind, *)
(* v |-> number]. Each token must be of the kind the first item is carried by, and may *)
(* put new items in front of the others: a type puts the parts of its value there, a   *)
(* count its items. Around the results of a subscription the reader keeps whose they   *)
(* are, and collects the variables it read.                                            *)

Want(kind) == [as |-> kind, v |-> 0]
This(n) == [as |-> "this", v |-> n]

\* The value of each type, as getInt, getPosition, getPolygon, ... read it. (A compound in
\* a request is a count and that many values; one in an answer is read as Compound says.)
Value(type) ==
  CASE type = TYPE_INTEGER -> <<Want("int")>>
    [] type = TYPE_DOUBLE -> <<Doubles(1)>>
    [] type = TYPE_STRING -> <<Want("string")>>
    [] type \in {TYPE_BYTE, TYPE_UBYTE} -> <<Want("byte")>>
    [] type = TYPE_COLOR -> Copies(4, <<Want("byte")>>)
    [] type \in {POSITION_2D, POSITION_LON_LAT} -> Copies(2, <<Doubles(1)>>)
    [] type \in {POSITION_3D, POSITION_LON_LAT_ALT} -> Copies(3, <<Doubles(1)>>)
    [] type = POSITION_ROADMAP -> <<Want("string"), Doubles(1), Want("byte")>>
    [] type = TYPE_POLYGON -> <<Want("points")>>
    [] type = TYPE_STRINGLIST -> <<Want("strings")>>
    [] type = TYPE_COMPOUND -> <<Want("items")>>
    [] OTHER -> <<Want("nothing")>>

\* A compound in an answer, as the method that asks for it reads it: typed values, the
\* types skipped, and after some of the numbers that many rows. getLinks and
\* getControlledLinks skip the first five bytes as a byte and an int, the other way round.
Typed(kinds) == FlattenSeq([i \in DOMAIN kinds |->
                              <<Want("byte"), IF kinds[i] = "double" THEN Doubles(1) ELSE Want(kinds[i])>>])
Compound(reads) ==
  CASE reads = "vehicleData" -> <<Want("int")>> \o Typed(<<"vehicleRows">>)
    [] reads = "links" -> <<Want("int")>> \o Typed(<<"linkRows">>)
    [] reads = "logics" -> <<Want("logicRows")>>
    [] reads = "controlledLinks" -> <<Want("int")>> \o Typed(<<"signalRows">>)
    [] reads = "nextTLS" -> <<Want("int")>> \o Typed(<<"tlsRows">>)
    [] reads = "bestLanes" -> <<Want("int")>> \o Typed(<<"laneRows">>)
    [] reads = "leader" -> <<Want("int")>> \o Typed(<<"string", "double">>)
    [] reads = "laneChangeState" -> <<Want("int")>> \o Typed(<<"int", "int">>)

VehicleRow == Typed(<<"string", "double", "double", "double", "string">>)
LinkRow == Typed(<<"string", "string", "byte", "byte", "byte", "string", "string", "double">>)
LogicRow == Typed(<<"int", "string", "int", "int", "phaseRows", "parameterRows">>)
PhaseRow == Typed(<<"int", "double", "string", "double", "double", "nextRows", "string">>)
SignalRow == Typed(<<"controlledRows">>)
ControlledRow == Typed(<<"int">>) \o Copies(3, <<Want("string")>>)
TlsRow == Typed(<<"string", "int", "double", "byte">>)
LaneRow == Typed(<<"string", "double", "double", "byte", "byte", "strings">>)

RowOf == [ vehicleRows |-> VehicleRow, linkRows |-> LinkRow, logicRows |-> LogicRow,
           phaseRows |-> PhaseRow, nextRows |-> Typed(<<"int">>), parameterRows |-> Typed(<<"strings">>),
           signalRows |-> SignalRow, controlledRows |-> ControlledRow, tlsRows |-> TlsRow,
           laneRows |-> LaneRow, strings |-> <<Want("string")>>, items |-> <<Want("value")>> ]

CarrierOf(want) ==
  CASE want.as \in {"this", "value", "points", "numbers", "length", "command", "domain", "variable", "status",
                    "result", "variables"} -> "byte"
    [] want.as \in DOMAIN RowOf \cup {"manyPoints", "longLength", "responses", "objects"} -> "int"
    [] want.as \in {"holder", "object"} -> "string"
    [] OTHER -> want.as

\* The types readVariables knows how to read; it throws on any other.
SubscriptionTypes ==
  {TYPE_DOUBLE, TYPE_STRING, POSITION_2D, POSITION_3D, TYPE_COLOR, TYPE_INTEGER, TYPE_STRINGLIST}

ResultsOf(n) == Copies(n, <<Want("variable"), Want("status"), Want("result")>>)

\* simulationStep takes a response for one to a variable subscription if its number is in
\* 0xe0 .. 0xee, and else for one to a context subscription, 0x50 lower. Either way it is
\* stored in the scope found in myDomains, which the scope of induction loops is not in.
RESPONSE_SUBSCRIBE == CMD_SUBSCRIBE + RESPONSE
\* (Faulty variant: the last domain is missed.)
IsVariableBelow(cmdId) ==
  cmdId \in RESPONSE_SUBSCRIBE + Domain.INDUCTIONLOOP .. RESPONSE_SUBSCRIBE + Domain.PERSON - 1
IsVariable(cmdId) ==
  cmdId \in RESPONSE_SUBSCRIBE + Domain.INDUCTIONLOOP .. RESPONSE_SUBSCRIBE + Domain.PERSON
ScopeOf(cmdId) == IF IsVariable(cmdId) THEN cmdId ELSE cmdId + 80
MyDomains == {RESPONSE_SUBSCRIBE + Domain[d] : d \in DOMAIN Domain \ {"INDUCTIONLOOP"}}
SubscriptionBody(cmdId) ==
  IF IsVariable(cmdId)
    THEN <<Want("holder"), Want("variables")>>
    ELSE <<Want("holder"), Want("domain"), Want("variables"), Want("objects")>>

\* What follows at once in the place of the item read.
After(reader, token) ==
  LET n == token.v
      kind == Head(reader.want).as
  IN
  CASE kind = "value" -> Value(n)
    [] kind \in DOMAIN RowOf -> Copies(n, RowOf[kind])
    [] kind = "points" -> IF n = 0 THEN <<Want("manyPoints")>> ELSE <<Doubles(2 * n)>>
    [] kind = "numbers" -> Copies(n, <<Want("byte")>>)
    [] kind = "manyPoints" -> <<Doubles(2 * n)>>
    [] kind = "responses" -> Copies(n, <<Want("length"), Want("command")>>)
    [] kind = "length" -> IF n = 0 THEN <<Want("longLength")>> ELSE <<>>
    [] kind = "command" -> SubscriptionBody(n)
    [] kind = "variables" ->
         IF IsVariable(reader.command) THEN ResultsOf(n) ELSE <<>>
    [] kind = "objects" -> Copies(n, <<Want("object")>> \o ResultsOf(reader.variables))
    [] kind = "result" -> Value(n)
    [] OTHER -> <<>>

Accepts(want, token) ==
  /\ token.as = CarrierOf(want)
  /\ want.as \in {"double", "this"} => token.v = want.v
  /\ want.as = "command" => ScopeOf(token.v) \in MyDomains
  /\ want.as = "status" => token.v = RTYPE_OK
  /\ want.as = "result" => token.v \in SubscriptionTypes

\* Where a result is stored: in which map of which scope, and in it under the subscription,
\* the object and the variable.
Result(cmdId, holder, object, variable) ==
  [ map |-> IF IsVariable(cmdId) THEN "variables" ELSE "contexts", scope |-> ScopeOf(cmdId),
    holder |-> holder, object |-> object, variable |-> variable ]

ReadToken(reader, token) ==
  IF reader.want = <<>> \/ ~reader.ok
    THEN [reader EXCEPT !.rest = @ + 1]
  ELSE IF ~Accepts(Head(reader.want), token)
    THEN [reader EXCEPT !.ok = FALSE]
  ELSE LET kind == Head(reader.want).as IN
       [reader EXCEPT
          !.want = After(reader, token) \o Tail(@),
          !.command = IF kind = "command" THEN token.v ELSE @,
          !.holder = IF kind = "holder" THEN token.v ELSE @,
          !.object = IF kind \in {"holder", "object"} THEN token.v ELSE @,
          !.variables = IF kind = "variables" THEN token.v ELSE @,
          !.results = IF kind = "variable"
                        THEN @ \cup {Result(reader.command, reader.holder, reader.object, token.v)}
                        ELSE @]

\* (The reader before a token is bound so that TLC evaluates it once, in ENABLED too.)
Reading(tokens, want, command) ==
  LET reader[i \in 0 .. Len(tokens)] ==
        IF i = 0
          THEN [want |-> want, ok |-> TRUE, rest |-> 0, command |-> command, holder |-> 0, object |-> 0,
                variables |-> 0, results |-> {}]
          ELSE CHOOSE after \in {ReadToken(before, tokens[i]) : before \in {reader[i - 1]}} : TRUE
  IN reader[Len(tokens)]

\* All that is wanted is there; what is more is never looked at.
Complete(reader) == reader.ok /\ reader.want = <<>>

=================================================================================
