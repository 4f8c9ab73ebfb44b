--------------------------- MODULE SensorCommands ---------------------------
(***************************************************************************)
(* One BLE sensor of the board (sensors/): commands of the cloud, handled  *)
(* in its worker thread (Resource::handleSubscription), become reads and   *)
(* writes of characteristics; the gateway's thread delivers events, among  *)
(* them WRITE_OK, which acknowledges "the" command.  The two threads share *)
(* retCode and commandId and no lock.                                      *)
(***************************************************************************)
EXTENDS SensorTables, Naturals, Sequences, FiniteSets

CONSTANTS
  Kinds,        \* the sensor classes considered
  MaxCommands   \* bound: commands the cloud sends

ASSUME SensorAssumption == Kinds \subseteq Sensors /\ MaxCommands \in Nat

\* Commands are numbered; commandId is empty before the first.
NoId == 0
Ids  == 1 .. MaxCommands

Codes == {200, 400, 403, 404, 405}

VARIABLES
  sensor, registrationOk, defaultRateApplied,
  step,      \* where handleCommand is; "halted" once the board has stopped
  command, id,  \* what it handles, or handled last
  retCode, commandId,
  pending,   \* number of writes the gateway accepted and has not confirmed
  ackCode,   \* the code event() passes to acknowledge(), which has not read commandId yet; 0 if none
  acks,      \* calls of acknowledge(), by id
  done,      \* history: ids whose requests the gateway accepted
  refused,   \* history: ids the class's own handler gave up without an answer
  overtaken, \* history: ids overwritten in commandId while a confirmation was due
  lost,      \* history: ids in commandId when due confirmations were lost with the connection
  crossed    \* history: a confirmation met a command it did not belong to, or one not handled yet

constants == <<sensor, registrationOk>>
worker    == <<step, command, id, retCode, commandId, done, refused, overtaken>>
gateway   == <<defaultRateApplied, ackCode, lost>>
vars      == <<constants, worker, gateway, pending, acks, crossed>>

-----------------------------------------------------------------------------
(* Commands as the cloud may send them.                                    *)

UuidCommands == {"readUUID", "writeUUID"}

Message(name, fields, valid, uuidType, char) ==
  [name |-> name, fields |-> fields, valid |-> valid, uuidType |-> uuidType, char |-> char]

\* As advertised or with a bare value; a value in an argument is allowed or not.
Directly(name, spec) ==
  {Message(name, fields, valid, "none", "none") :
     fields \in {spec[name], {}}, valid \in {v \in BOOLEAN : spec[name] = {} => v}}

\* By UUID, any characteristic, or one that does not exist.
Uuids(s) ==
  ({"number"} \X (DOMAIN AllCharacteristics[s] \cup {"UNKNOWN"}))
    \cup ({"name"} \X (DOMAIN NamedCharacteristics \cup {"UNKNOWN"}))
    \cup ({"other"} \X {"ID"})

ByUuid(name, spec, uuids) ==
  {Message(name, spec[name], valid, uuid[1], uuid[2]) : valid \in BOOLEAN, uuid \in uuids}

\* A command that does not exist, text of blanks only, or text that is no JSON.
Unknown == {Message(name, {}, TRUE, "none", "none") : name \in {"unknown", "blank", "broken"}}

\* What the cloud may send to a sensor of each class.
Messages ==
  [s \in Sensors |->
     (UNION {Directly(name, ActuateSpec(s)) : name \in DOMAIN ActuateSpec(s) \ UuidCommands})
       \cup (UNION {ByUuid(name, ActuateSpec(s), Uuids(s)) : name \in UuidCommands})
       \cup Unknown]

\* parseSubscription gives the parser 16 tokens: the object, commandID, data, the
\* command with its argument, and two for a field.
Tokens(m) == 7 + 2 * Cardinality(m.fields)

\* Text the parser gives up passes for JSON, its error being negative in size_t:
\* the object "data" of a message with too many tokens has no end that could be
\* assigned, and of a broken one the fields are looked for behind the tokens
\* until memory ends.  (If by chance a command is found there, it is as if that
\* command had been sent.)
Unreadable(m) == Tokens(m) > 16 \/ m.name = "broken"

NoMessage == Message("none", {}, TRUE, "none", "none")

Own == IF sensor = "IR" THEN [reads |-> None, writes |-> None] ELSE Commands[sensor]

\* setState with an object for its value is not taken for setState.
IsOwn ==
  /\ command.name \in DOMAIN Own.reads \cup DOMAIN Own.writes
  /\ command.name \in WantsScalar => command.fields = {}

IsBase ==
  command.name \in DOMAIN BaseCommands.reads \cup DOMAIN BaseCommands.writes

Reads ==
  \/ command.name \in DOMAIN Own.reads \cup DOMAIN BaseCommands.reads
  \/ command.name = "readUUID"

FieldsPresent ==
  command.name \in DOMAIN Fields[sensor] => Fields[sensor][command.name] \subseteq command.fields

\* A class takes its argument from within the text of the command, where a brace
\* is left over, or from the value written to one of its own characteristics,
\* which has no end: that passes for JSON in the same way, and a field it lacks
\* is looked for behind the tokens.  The bridge takes bare values.
SearchesMemory ==
  /\ sensor \in {"HTU", "GYRO", "LIGHT", "SOUND"}
  /\ \/ IsOwn /\ ~FieldsPresent
     \/ command.name = "writeUUID" /\ command.char \in DOMAIN Characteristics[sensor]

Target ==
  IF command.name \in UuidCommands THEN command.char ELSE Targets[sensor][command.name]

\* handleWriteUuidRequest of every class but the infrared one writes twice.
WritesTwice == command.name = "writeUUID" /\ sensor # "IR"

\* Mutant: a wrong access is left to a case that sets no code.
AccessCodeUnset(state) == IF state = "NOT_FOUND" THEN 400 ELSE 0

AccessCode(state) ==
  CASE state = "NOT_FOUND" -> 400 [] state = "FOUND_WRONG_ACCESS" -> 405

-----------------------------------------------------------------------------

TypeOK ==
  /\ sensor \in Kinds
  /\ registrationOk \in BOOLEAN /\ defaultRateApplied \in BOOLEAN
  /\ step \in {"idle", "copyId", "base", "copyBase", "decode", "send", "second",
               "succeeded", "failed", "ack", "halted"}
  /\ command = NoMessage \/ command.name \in DOMAIN ActuateSpec(sensor) \cup {"unknown", "blank", "broken"}
  /\ id \in Ids \cup {NoId} /\ commandId \in Ids \cup {NoId}
  /\ retCode \in Codes /\ ackCode \in Codes \cup {0}
  /\ pending \in Nat
  /\ acks \in [Ids \cup {NoId} -> Seq(Codes)]
  /\ done \subseteq Ids /\ refused \subseteq Ids
  /\ overtaken \subseteq Ids \cup {NoId} /\ lost \subseteq Ids \cup {NoId}
  /\ crossed \in BOOLEAN

Init ==
  /\ sensor \in Kinds /\ registrationOk \in BOOLEAN
  /\ defaultRateApplied = FALSE
  /\ step = "idle" /\ command = NoMessage /\ id = NoId
  /\ retCode = 400 /\ commandId = NoId
  /\ pending = 0 /\ ackCode = 0
  /\ acks = [c \in Ids \cup {NoId} |-> <<>>]
  /\ done = {} /\ refused = {} /\ overtaken = {} /\ lost = {} /\ crossed = FALSE

-----------------------------------------------------------------------------
(* handleCommand, in the worker thread.                                    *)

Acknowledge(c, code) == acks' = [acks EXCEPT ![c] = Append(@, code)]

Goto(next) == step' = next /\ UNCHANGED <<constants, command, id, gateway, crossed>>

Receive(m) ==
  /\ step = "idle" /\ id < MaxCommands
  /\ command' = m /\ id' = id + 1
  /\ IF Unreadable(m) THEN step' = "halted" /\ UNCHANGED retCode
     ELSE step' = (IF sensor = "IR" THEN "base" ELSE "copyId") /\ retCode' = 400
  /\ crossed' = (crossed \/ pending > 0 \/ ackCode # 0)
  /\ UNCHANGED <<constants, commandId, done, refused, overtaken, gateway, pending, acks>>

\* commandId is overwritten, also while a confirmation is due to the one before.
OverwriteId ==
  /\ commandId' = id
  /\ overtaken' = IF commandId # id /\ (pending > 0 \/ ackCode # 0)
                  THEN overtaken \cup {commandId} ELSE overtaken

CopyId ==
  /\ step = "copyId"
  /\ OverwriteId
  /\ IF command.name = "blank" THEN Acknowledge(id, 400) /\ Goto("idle")
     ELSE Goto(IF IsOwn THEN "send" ELSE "base") /\ UNCHANGED acks
  /\ UNCHANGED <<retCode, done, refused, pending>>

Base ==
  /\ step = "base"
  /\ retCode' = 404
  /\ Goto("copyBase")
  /\ UNCHANGED <<commandId, done, refused, overtaken, pending, acks>>

CopyBase ==
  /\ step = "copyBase"
  /\ OverwriteId
  /\ Goto("decode")
  /\ UNCHANGED <<retCode, done, refused, pending, acks>>

\* Mutant: success is noted before the gateway is asked.
DecodeBaseOptimist ==
  /\ step = "decode" /\ IsBase
  /\ retCode' = 200
  /\ Goto("send")
  /\ UNCHANGED <<commandId, done, refused, overtaken, pending, acks>>

DecodeBase ==
  /\ step = "decode" /\ IsBase
  /\ retCode' = 400
  /\ Goto("send")
  /\ UNCHANGED <<commandId, done, refused, overtaken, pending, acks>>

DecodeUuid ==
  /\ step = "decode" /\ command.name \in UuidCommands
  /\ LET mode  == IF Reads THEN "READ" ELSE "WRITE"
         state == findUuid(sensor, command.char, command.uuidType, mode)
     IN  IF state = "FOUND_ACCESS_OK" THEN UNCHANGED retCode /\ Goto("send")
         ELSE retCode' = AccessCode(state) /\ Goto("ack")
  /\ UNCHANGED <<commandId, done, refused, overtaken, pending, acks>>

\* Not a command of any sensor, or an argument longer than its buffer.
DecodeOther ==
  /\ step = "decode" /\ ~IsBase
  /\ command.name \in UuidCommands => ~command.valid
  /\ Goto("ack")
  /\ UNCHANGED <<retCode, commandId, done, refused, overtaken, pending, acks>>

\* The gateway is asked, unless the argument is refused; it may refuse as well.
\* What is found in memory may be taken for the argument, or end the search.
Send ==
  /\ step = "send"
  /\ \/ Goto("failed") /\ UNCHANGED pending
     \/ Reads /\ Goto("succeeded") /\ UNCHANGED pending
     \/ /\ ~Reads /\ (SearchesMemory \/ (FieldsPresent /\ command.valid))
        /\ pending' = pending + 1
        /\ Goto(IF WritesTwice THEN "second" ELSE "succeeded")
     \/ SearchesMemory /\ Goto("halted") /\ UNCHANGED pending
  /\ UNCHANGED <<retCode, commandId, done, refused, overtaken, acks>>

\* The second write of a writeUUID.
SendAgain ==
  /\ step = "second"
  /\ \/ Goto("failed") /\ UNCHANGED pending
     \/ Goto("succeeded") /\ pending' = pending + 1
  /\ UNCHANGED <<retCode, commandId, done, refused, overtaken, acks>>

\* Mutant: a class answers its own reads like its writes, on confirmation.
SucceededReadSilent ==
  /\ step = "succeeded"
  /\ retCode' = 200 /\ done' = done \cup {id}
  /\ Goto(IF Reads /\ ~IsOwn THEN "ack" ELSE "idle")
  /\ UNCHANGED <<commandId, refused, overtaken, pending, acks>>

\* Mutant: sendAckImmediately is not reset for a write.
SucceededAcksWrites ==
  /\ step = "succeeded"
  /\ retCode' = 200 /\ done' = done \cup {id}
  /\ IF Reads /\ IsOwn THEN Acknowledge(id, 200) ELSE UNCHANGED acks
  /\ Goto(IF ~IsOwn THEN "ack" ELSE "idle")
  /\ UNCHANGED <<commandId, refused, overtaken, pending>>

Succeeded ==
  /\ step = "succeeded"
  /\ retCode' = 200 /\ done' = done \cup {id}
  /\ IF Reads /\ IsOwn THEN Acknowledge(id, 200) ELSE UNCHANGED acks
  /\ Goto(IF Reads /\ ~IsOwn THEN "ack" ELSE "idle")
  /\ UNCHANGED <<commandId, refused, overtaken, pending>>

\* Of a class's own commands only the bridge's setConfig answers a refusal.
AnswersRefusal == sensor = "BRIDGE" /\ command.name = "setConfig" /\ FieldsPresent

Failed ==
  /\ step = "failed"
  /\ IF IsOwn /\ AnswersRefusal THEN Acknowledge(id, 403) ELSE UNCHANGED acks
  /\ refused' = IF IsOwn /\ ~AnswersRefusal THEN refused \cup {id} ELSE refused
  /\ Goto(IF IsOwn THEN "idle" ELSE "ack")
  /\ UNCHANGED <<retCode, commandId, done, overtaken, pending>>

\* The common part's answer; after a 400 the infrared sensor tries its own command.
Ack ==
  /\ step = "ack"
  /\ Acknowledge(commandId, retCode)
  /\ Goto(IF sensor = "IR" /\ retCode = 400 /\ command.name \in DOMAIN IrCommands.writes
          THEN "send" ELSE "idle")
  /\ UNCHANGED <<retCode, commandId, done, refused, overtaken, pending>>

-----------------------------------------------------------------------------
(* event, in the gateway's thread; event() returns before the next event.  *)

Event == step # "halted" /\ ackCode = 0 /\ UNCHANGED <<constants, worker>>

\* Mutant: the flag is not set.
NewDataAgain ==
  /\ Event
  /\ sensor \in {"HTU", "GYRO", "LIGHT", "SOUND"} /\ ~defaultRateApplied
  /\ \/ UNCHANGED <<pending, crossed>>
     \/ pending' = pending + 1 /\ crossed' = (crossed \/ id # NoId)
  /\ UNCHANGED <<defaultRateApplied, ackCode, lost, acks>>

\* The first reading: the class sets its default rate.
NewData ==
  /\ Event
  /\ sensor \in {"HTU", "GYRO", "LIGHT", "SOUND"} /\ ~defaultRateApplied
  /\ defaultRateApplied' = TRUE
  /\ \/ UNCHANGED <<pending, crossed>>
     \/ pending' = pending + 1 /\ crossed' = (crossed \/ id # NoId)
  /\ UNCHANGED <<ackCode, lost, acks>>

\* acknowledge(commandId, retCode): the code is read here, the id in AckWrite.
WriteOk ==
  /\ Event /\ pending > 0
  /\ pending' = pending - 1
  /\ ackCode' = IF registrationOk THEN retCode ELSE 0
  /\ crossed' = (crossed \/ step # "idle")
  /\ UNCHANGED <<defaultRateApplied, lost, acks>>

AckWrite ==
  /\ step # "halted" /\ ackCode # 0
  /\ Acknowledge(commandId, ackCode)
  /\ ackCode' = 0
  /\ UNCHANGED <<constants, worker, defaultRateApplied, lost, pending, crossed>>

\* The gateway forgets what it sent to a sensor that is gone.
LinkLost ==
  /\ Event /\ pending > 0
  /\ pending' = 0 /\ lost' = lost \cup {commandId}
  /\ UNCHANGED <<defaultRateApplied, ackCode, acks, crossed>>

Next ==
  \/ \E m \in Messages[sensor] : Receive(m)
  \/ CopyId \/ Base \/ CopyBase \/ DecodeBase \/ DecodeUuid \/ DecodeOther
  \/ Send \/ SendAgain \/ Succeeded \/ Failed \/ Ack
  \/ NewData \/ WriteOk \/ AckWrite \/ LinkLost

Spec == Init /\ [][Next]_vars

-----------------------------------------------------------------------------
(* Properties.                                                             *)

AckCodes(c) == {acks[c][k] : k \in DOMAIN acks[c]}

\* Of all commands handled so far, each has been acknowledged or will be by a
\* confirmation that is due while commandId still names it, but for those the
\* code leaves without an answer: the next command overwrote commandId before
\* the confirmation (wunderbarsensor.cpp:79), the confirmation was lost with the
\* connection, or the class's own handler gave up (wbhtu.cpp:65-71).
NoSilentCommand ==
  registrationOk => \A c \in 1 .. id :
    acks[c] = <<>> /\ (c < id \/ step = "idle")
      => \/ c = commandId /\ (pending > 0 \/ ackCode # 0)
         \/ c \in overtaken \cup lost \cup refused

\* Unless confirmations crossed, a command is reported as done (200) exactly
\* when the gateway accepted everything it asked for.
TruthfulResult ==
  ~crossed => \A c \in Ids : \A code \in AckCodes(c) : code = 200 <=> c \in done

\* Unless confirmations crossed, a command is acknowledged once, and one that
\* writes twice at most twice.
AckCount ==
  ~crossed /\ id # NoId => Len(acks[id]) <= IF WritesTwice THEN 2 ELSE 1

\* What a class advertises (getActuateSpec) gets through its handler: sent as
\* advertised it does not bring the board to a halt and is not answered "unknown
\* command" (404).  The code's exceptions: a command with more fields than the
\* parser has tokens for halts the board (setThreshold with six fields,
\* resource.cpp:194), and two take a bare value where an object is advertised.
AdvertisedUnderstood ==
  command.name \in DOMAIN ActuateSpec(sensor) \ (UuidCommands \cup WantsScalar)
    => /\ step = "halted" /\ command.fields = ActuateSpec(sensor)[command.name]
            => Cardinality(command.fields) > 4
       /\ ~crossed => 404 \notin AckCodes(id)

\* Whatever name or number it was asked for by, no characteristic is accessed in
\* a way the sensor's lists do not allow.  The code's exception: the LED's state,
\* which is to be written only, can be read by its name.
AccessRespected ==
  step \in {"second", "succeeded"}
    => \/ Reads /\ command.uuidType = "name" /\ command.char = "LED_STATE"
       \/ LET mode == IF Reads THEN "READ" ELSE "WRITE"
          IN  sensorHasCharacteristic(sensor, Target, mode) = "FOUND_ACCESS_OK"

\* The sensor's own write of its default rate may acknowledge a command nobody
\* sent, once.
StrayAcksBounded == Len(acks[NoId]) <= 1

\* What the comments say: 404 is for a command that does not exist, and the
\* infrared sensor tries its own command when the common part found none.
AdvertisedCommandKnown ==
  command.name \in DOMAIN ActuateSpec(sensor) \ UuidCommands => 404 \notin AckCodes(id)
=============================================================================
