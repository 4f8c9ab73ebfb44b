------------------------ MODULE SensorCommandsProofs ------------------------
(***************************************************************************)
(* Theorems about SensorCommands for any number of commands and any choice *)
(* of sensor classes.                                                      *)
(***************************************************************************)
EXTENDS SensorCommands, FiniteSetTheorems, TLAPS

-----------------------------------------------------------------------------
(* The inductive invariant.                                                *)

One(condition) == IF condition THEN 1 ELSE 0

\* Writes the current command asks for.
Writes == IF WritesTwice THEN 2 ELSE 1

\* The retained commandId is the current command's, but for the steps before the
\* copy, which a board that halted may never have reached.
IdInv ==
  /\ step # "idle" => id # NoId
  /\ step \notin {"copyId", "base", "copyBase", "halted"} => commandId = id
  /\ commandId <= id
  /\ command.name \in UuidCommands => command.uuidType \in {"number", "name", "other"}

\* The retained code says 200 for a command that was done, as long as the board runs.
ResultInv ==
  /\ \A c \in done : c <= id
  /\ step # "halted" => (retCode = 200 <=> id \in done)
  /\ step \notin {"idle", "ack"} => id \notin done
  /\ ~crossed /\ id # NoId /\ ackCode # 0 => (ackCode = 200 <=> id \in done)
  /\ TruthfulResult

\* Before the first command only the default rate is written.
StrayInv ==
  /\ StrayAcksBounded
  /\ commandId = NoId => pending + One(ackCode # 0) + Len(acks[NoId]) <= One(defaultRateApplied)

\* Confirmations and acknowledgements of the current command, by step.
CountInv ==
  /\ \A c \in Ids : c > id => acks[c] = <<>>
  /\ step = "second" => WritesTwice /\ ~Reads
  /\ ~crossed /\ step # "idle" =>
       /\ ackCode = 0 /\ acks[id] = <<>>
       /\ step \in {"copyId", "base", "copyBase", "decode", "send"} => pending = 0
       /\ step = "second" => pending <= 1
       /\ step = "succeeded" => pending <= IF Reads THEN 0 ELSE Writes
       /\ step \in {"failed", "ack"} => pending <= Writes - 1
  /\ ~crossed /\ step = "idle" /\ id # NoId
       => pending + One(ackCode # 0) + Len(acks[id]) <= Writes

Due == pending > 0 \/ ackCode # 0

\* Why a command may be without an answer for now, or for good.
Excused(c) == (c = commandId /\ Due) \/ c \in overtaken \cup lost \cup refused

Answering == Due \/ id \in lost \/ acks[id] # <<>>

\* A write that was accepted is answered from then on.
AnswerInv ==
  /\ registrationOk /\ (step = "second" \/ (step = "succeeded" /\ ~Reads)) => Answering
  /\ NoSilentCommand

Advertised == command.name \in DOMAIN ActuateSpec(sensor) \ (UuidCommands \cup WantsScalar)

\* The class's own commands do not reach the common part; the infrared sensor's
\* does, and is unknown there.
RouteInv ==
  /\ IsOwn => step \notin {"base", "copyBase", "decode", "ack"}
  /\ sensor = "IR" => step # "copyId"
  /\ sensor = "IR" /\ command.name \in DOMAIN IrCommands.writes
       => /\ step \in {"idle", "base", "copyBase", "decode", "ack", "halted"}
          /\ step \in {"copyBase", "decode", "ack"} => retCode = 404

\* 404 is the common part's first guess and never its answer to an advertised command.
KnownInv ==
  Advertised =>
    /\ step \notin {"copyBase", "decode", "halted"} => retCode # 404
    /\ ~crossed => ackCode # 404 /\ 404 \notin AckCodes(id)

Accessible ==
  \/ Reads /\ command.uuidType = "name" /\ command.char = "LED_STATE"
  \/ LET mode == IF Reads THEN "READ" ELSE "WRITE"
     IN  sensorHasCharacteristic(sensor, Target, mode) = "FOUND_ACCESS_OK"

\* Nothing is sent before its characteristic has been looked up.
AccessInv == step \in {"send", "second", "succeeded"} => Accessible

\* Sent as advertised, only a command with too many fields halts the board.
HaltInv ==
  step = "halted" /\ Advertised /\ command.fields = ActuateSpec(sensor)[command.name]
    => Cardinality(command.fields) > 4

Inv ==
  /\ TypeOK /\ IdInv /\ ResultInv /\ StrayInv /\ CountInv /\ AnswerInv
  /\ RouteInv /\ KnownInv /\ AccessInv /\ HaltInv

-----------------------------------------------------------------------------
(* The tables.                                                             *)

LEMMA SpecNames ==
  ASSUME NEW s \in Sensors
  PROVE  DOMAIN ActuateSpec(s) = DOMAIN OwnActuateSpec[s] \cup DOMAIN BaseActuateSpec
BY DEF ActuateSpec, ActuateSpecs, Merged

LEMMA BaseSpecNames ==
  DOMAIN BaseActuateSpec = {"getBatteryLevel", "getFirmware", "getHardware", "getManufacturer",
                            "getSensorId", "getBeaconFreq", "blinkLed", "readUUID", "writeUUID"}
BY DEF BaseActuateSpec, Merged, Plain

LEMMA OwnSpecNames ==
  /\ DOMAIN OwnActuateSpec["HTU"] = {"getConfig", "getFrequency", "getThreshold",
                                     "setConfig", "setFrequency", "setThreshold"}
  /\ DOMAIN OwnActuateSpec["GYRO"] = DOMAIN OwnActuateSpec["HTU"]
  /\ DOMAIN OwnActuateSpec["LIGHT"] = DOMAIN OwnActuateSpec["HTU"]
  /\ DOMAIN OwnActuateSpec["SOUND"] = {"getFrequency", "getThreshold", "setFrequency", "setThreshold"}
  /\ DOMAIN OwnActuateSpec["BRIDGE"] = {"getConfig", "toggleState", "setState", "setConfig"}
  /\ DOMAIN OwnActuateSpec["IR"] = {"TX"}
BY DEF OwnActuateSpec, HtuActuateSpec, GyroActuateSpec, LightActuateSpec, SoundActuateSpec,
       BridgeActuateSpec, IrActuateSpec, Merged, Plain

LEMMA BaseCommandNames ==
  /\ DOMAIN BaseCommands.reads = {"getBatteryLevel", "getManufacturer", "getFirmware", "getHardware",
                                  "getBeaconFreq", "getSensorId"}
  /\ DOMAIN BaseCommands.writes = {"blinkLed"}
BY DEF BaseCommands

LEMMA CommandNames ==
  /\ \A s \in {"HTU", "GYRO", "LIGHT"} :
       /\ DOMAIN Commands[s].reads = {"getConfig", "getFrequency", "getThreshold"}
       /\ DOMAIN Commands[s].writes = {"setConfig", "setFrequency", "setThreshold"}
  /\ DOMAIN Commands["SOUND"].reads = {"getFrequency", "getThreshold"}
  /\ DOMAIN Commands["SOUND"].writes = {"setFrequency", "setThreshold"}
  /\ DOMAIN Commands["BRIDGE"].reads = {"getConfig"}
  /\ DOMAIN Commands["BRIDGE"].writes = {"setConfig", "setState", "toggleState"}
  /\ DOMAIN IrCommands.writes = {"TX"}
BY DEF Commands, HtuCommands, GyroCommands, LightCommands, SoundCommands, BridgeCommands, IrCommands,
       WithConfig, RateAndThreshold, Merged, None

\* What is advertised is handled, by the class or by the common part.
LEMMA AdvertisedHandled ==
  ASSUME NEW s \in Sensors, NEW name \in DOMAIN ActuateSpec(s) \ (UuidCommands \cup WantsScalar)
  PROVE  \/ s # "IR" /\ name \in DOMAIN Commands[s].reads \cup DOMAIN Commands[s].writes
         \/ name \in DOMAIN BaseCommands.reads \cup DOMAIN BaseCommands.writes
BY SpecNames, BaseSpecNames, OwnSpecNames, BaseCommandNames, CommandNames
   DEF Sensors, UuidCommands, WantsScalar

LEMMA FieldsAdvertised ==
  ASSUME NEW s \in Sensors, NEW name \in DOMAIN ActuateSpec(s) \ (UuidCommands \cup WantsScalar),
         name \in DOMAIN Fields[s]
  PROVE  Fields[s][name] \subseteq ActuateSpec(s)[name]
<1>1. name \in DOMAIN OwnActuateSpec[s] /\ Fields[s][name] \subseteq OwnActuateSpec[s][name]
  <2>1. CASE s = "HTU"
    BY <2>1 DEF Fields, OwnActuateSpec, HtuFields, HtuActuateSpec, Ticks, Merged, Plain
  <2>2. CASE s = "GYRO"
    BY <2>2 DEF Fields, OwnActuateSpec, GyroFields, GyroActuateSpec, Ticks, Merged, Plain
  <2>3. CASE s = "LIGHT"
    BY <2>3 DEF Fields, OwnActuateSpec, LightFields, LightActuateSpec, Ticks, Merged, Plain
  <2>4. CASE s = "SOUND"
    BY <2>4 DEF Fields, OwnActuateSpec, SoundFields, SoundActuateSpec, Ticks, Merged, Plain
  <2>5. CASE s = "BRIDGE"
    BY <2>5 DEF Fields, OwnActuateSpec, BridgeFields, BridgeActuateSpec, Merged, Plain
  <2>6. CASE s = "IR"
    BY <2>6 DEF Fields, None
  <2> QED
    BY <2>1, <2>2, <2>3, <2>4, <2>5, <2>6 DEF Sensors
<1> QED
  BY <1>1 DEF ActuateSpec, ActuateSpecs, Merged

LEMMA SixAreFinite ==
  ASSUME NEW a, NEW b, NEW c, NEW d, NEW e, NEW f
  PROVE  IsFiniteSet({a, b, c, d, e, f})
<1>1. IsFiniteSet({})
  BY FS_EmptySet
<1>2. IsFiniteSet({} \cup {a})
  BY <1>1, FS_AddElement
<1>3. IsFiniteSet(({} \cup {a}) \cup {b})
  BY <1>2, FS_AddElement
<1>4. IsFiniteSet((({} \cup {a}) \cup {b}) \cup {c})
  BY <1>3, FS_AddElement
<1>5. IsFiniteSet(((({} \cup {a}) \cup {b}) \cup {c}) \cup {d})
  BY <1>4, FS_AddElement
<1>6. IsFiniteSet((((({} \cup {a}) \cup {b}) \cup {c}) \cup {d}) \cup {e})
  BY <1>5, FS_AddElement
<1>7. IsFiniteSet(((((({} \cup {a}) \cup {b}) \cup {c}) \cup {d}) \cup {e}) \cup {f})
  BY <1>6, FS_AddElement
<1>8. {a, b, c, d, e, f} = ((((({} \cup {a}) \cup {b}) \cup {c}) \cup {d}) \cup {e}) \cup {f}
  OBVIOUS
<1> QED
  BY <1>7, <1>8

\* Every argument advertised has at most six fields.
LEMMA FieldsFinite ==
  ASSUME NEW s \in Sensors, NEW name \in DOMAIN ActuateSpec(s)
  PROVE  Cardinality(ActuateSpec(s)[name]) \in Nat
<1>1. ASSUME NEW n \in DOMAIN BaseActuateSpec
      PROVE  IsFiniteSet(BaseActuateSpec[n])
  <2> DEFINE all == {"uuid", "uuidType", "value", "value", "value", "value"}
  <2>1. BaseActuateSpec[n] \subseteq all
    BY <1>1 DEF BaseActuateSpec, Merged, Plain
  <2>2. IsFiniteSet(all)
    BY SixAreFinite, Zenon
  <2> QED
    BY <2>1, <2>2, FS_Subset
<1>2. ASSUME NEW n \in DOMAIN OwnActuateSpec[s]
      PROVE  IsFiniteSet(OwnActuateSpec[s][n])
  <2>1. CASE s = "HTU"
    <3> DEFINE some == {"htuTemp", "ticks", "ticks", "ticks", "ticks", "ticks"}
           more == {"tempSbl", "tempLow", "tempHigh", "humSbl", "humLow", "humHigh"}
    <3>1. OwnActuateSpec[s][n] \subseteq some \/ OwnActuateSpec[s][n] \subseteq more
      BY <1>2, <2>1 DEF OwnActuateSpec, HtuActuateSpec, Merged, Plain
    <3>2. IsFiniteSet(some) /\ IsFiniteSet(more)
      BY SixAreFinite, Zenon
    <3> HIDE DEF some, more
    <3> QED
      BY <3>1, <3>2, FS_Subset
  <2>2. CASE s = "GYRO"
    <3> DEFINE some == {"gyroScale", "accScale", "ticks", "ticks", "ticks", "ticks"}
           more == {"gyroSbl", "gyroLow", "gyroHigh", "accSbl", "accLow", "accHigh"}
    <3>1. OwnActuateSpec[s][n] \subseteq some \/ OwnActuateSpec[s][n] \subseteq more
      BY <1>2, <2>2 DEF OwnActuateSpec, GyroActuateSpec, Merged, Plain
    <3>2. IsFiniteSet(some) /\ IsFiniteSet(more)
      BY SixAreFinite, Zenon
    <3> HIDE DEF some, more
    <3> QED
      BY <3>1, <3>2, FS_Subset
  <2>3. CASE s = "LIGHT"
    <3> DEFINE some == {"rgbcGain", "proxDrive", "ticks", "ticks", "ticks", "ticks"}
           more == {"whiteSbl", "whiteLow", "whiteHigh", "proxSbl", "proxLow", "proxHigh"}
    <3>1. OwnActuateSpec[s][n] \subseteq some \/ OwnActuateSpec[s][n] \subseteq more
      BY <1>2, <2>3 DEF OwnActuateSpec, LightActuateSpec, Merged, Plain
    <3>2. IsFiniteSet(some) /\ IsFiniteSet(more)
      BY SixAreFinite, Zenon
    <3> HIDE DEF some, more
    <3> QED
      BY <3>1, <3>2, FS_Subset
  <2>4. CASE s = "SOUND"
    <3> DEFINE some == {"ticks", "sbl", "low", "high", "high", "high"}
    <3>1. OwnActuateSpec[s][n] \subseteq some
      BY <1>2, <2>4 DEF OwnActuateSpec, SoundActuateSpec, Merged, Plain
    <3>2. IsFiniteSet(some)
      BY SixAreFinite, Zenon
    <3> HIDE DEF some
    <3> QED
      BY <3>1, <3>2, FS_Subset
  <2>5. CASE s = "BRIDGE"
    <3> DEFINE some == {"state", "baudRate", "baudRate", "baudRate", "baudRate", "baudRate"}
    <3>1. OwnActuateSpec[s][n] \subseteq some
      BY <1>2, <2>5 DEF OwnActuateSpec, BridgeActuateSpec, Merged, Plain
    <3>2. IsFiniteSet(some)
      BY SixAreFinite, Zenon
    <3> HIDE DEF some
    <3> QED
      BY <3>1, <3>2, FS_Subset
  <2>6. CASE s = "IR"
    <3> DEFINE some == {"TX", "TX", "TX", "TX", "TX", "TX"}
    <3>1. OwnActuateSpec[s][n] \subseteq some
      BY <1>2, <2>6 DEF OwnActuateSpec, IrActuateSpec
    <3>2. IsFiniteSet(some)
      BY SixAreFinite, Zenon
    <3> HIDE DEF some
    <3> QED
      BY <3>1, <3>2, FS_Subset
  <2> QED
    BY <2>1, <2>2, <2>3, <2>4, <2>5, <2>6 DEF Sensors
<1>3. IsFiniteSet(ActuateSpec(s)[name])
  <2>1. \/ name \in DOMAIN OwnActuateSpec[s] /\ ActuateSpec(s)[name] = OwnActuateSpec[s][name]
        \/ name \in DOMAIN BaseActuateSpec /\ ActuateSpec(s)[name] = BaseActuateSpec[name]
    BY DEF ActuateSpec, ActuateSpecs, Merged
  <2> QED
    BY <1>1, <1>2, <2>1
<1> QED
  BY <1>3, FS_CardinalityType

LEMMA UuidCommandsAdvertised ==
  ASSUME NEW s \in Sensors
  PROVE  UuidCommands \subseteq DOMAIN ActuateSpec(s)
BY SpecNames, BaseSpecNames DEF UuidCommands

\* Where the target of a command is found in the merged tables.
LEMMA TargetFacts ==
  ASSUME NEW s \in Sensors
  PROVE  /\ \A name \in DOMAIN Commands[s].reads : Targets[s][name] = Commands[s].reads[name]
         /\ \A name \in DOMAIN Commands[s].writes \ DOMAIN Commands[s].reads :
              Targets[s][name] = Commands[s].writes[name]
         /\ \A name \in DOMAIN BaseCommands.reads \ (DOMAIN Commands[s].writes \cup DOMAIN Commands[s].reads) :
              Targets[s][name] = BaseCommands.reads[name]
         /\ \A name \in DOMAIN BaseCommands.writes \ (DOMAIN Commands[s].writes \cup DOMAIN Commands[s].reads
                                                     \cup DOMAIN BaseCommands.reads) :
              Targets[s][name] = BaseCommands.writes[name]
<1> DEFINE R == Commands[s].reads
           W == Commands[s].writes
           BR == BaseCommands.reads
           BW == BaseCommands.writes
<1>1. Targets[s] = Merged(Merged(R, W), Merged(BR, BW))
  BY DEF Targets
<1> HIDE DEF R, W, BR, BW
<1>2. /\ \A name \in DOMAIN R : Targets[s][name] = R[name]
      /\ \A name \in DOMAIN W \ DOMAIN R : Targets[s][name] = W[name]
      /\ \A name \in DOMAIN BR \ (DOMAIN W \cup DOMAIN R) : Targets[s][name] = BR[name]
      /\ \A name \in DOMAIN BW \ (DOMAIN W \cup DOMAIN R \cup DOMAIN BR) : Targets[s][name] = BW[name]
  BY <1>1 DEF Merged
<1> QED
  BY <1>2 DEF R, W, BR, BW

LEMMA CharacteristicFacts ==
  ASSUME NEW s \in Sensors
  PROVE  /\ \A char \in DOMAIN Characteristics[s] :
              char \in DOMAIN AllCharacteristics[s] /\ AllCharacteristics[s][char] = Characteristics[s][char]
         /\ \A char \in DOMAIN BaseCharacteristics :
              /\ char \in DOMAIN AllCharacteristics[s]
              /\ char \notin DOMAIN Characteristics[s]
              /\ AllCharacteristics[s][char] = BaseCharacteristics[char]
<1>1. DOMAIN BaseCharacteristics = {"ID", "BEACON_FREQ", "LED_STATE", "BATTERY_LEVEL", "MANUFACTURER_NAME",
                                    "HARDWARE_REVISION", "FIRMWARE_REVISION"}
  BY DEF BaseCharacteristics
<1>2. DOMAIN Characteristics[s] \subseteq {"CONFIG", "FREQUENCY", "THRESHOLD", "DATA_W"}
  BY DEF Characteristics, HtuCharacteristics, GyroCharacteristics, LightCharacteristics, SoundCharacteristics,
         BridgeCharacteristics, None, Sensors
<1>3. AllCharacteristics[s] = Merged(Characteristics[s], BaseCharacteristics)
  BY DEF AllCharacteristics
<1>4. DOMAIN Characteristics[s] \cap DOMAIN BaseCharacteristics = {}
  BY <1>1, <1>2
<1> QED
  BY <1>3, <1>4 DEF Merged

LEMMA SearchFacts ==
  ASSUME NEW char, NEW mode, NEW list
  PROVE  searchCharacteristics(char, mode, list) = "FOUND_ACCESS_OK"
           <=> char \in DOMAIN list /\ mode \in list[char]
BY DEF searchCharacteristics

LEMMA Accessed ==
  ASSUME NEW s, NEW char, NEW mode,
         char \in DOMAIN AllCharacteristics[s], mode \in AllCharacteristics[s][char]
  PROVE  sensorHasCharacteristic(s, char, mode) = "FOUND_ACCESS_OK"
BY DEF sensorHasCharacteristic, searchCharacteristics

\* What a class reads or writes may be read or written.
LEMMA OwnAccess ==
  ASSUME NEW s \in Sensors, s # "IR"
  PROVE  /\ \A name \in DOMAIN Commands[s].reads :
              sensorHasCharacteristic(s, Targets[s][name], "READ") = "FOUND_ACCESS_OK"
         /\ \A name \in DOMAIN Commands[s].writes :
              /\ name \notin DOMAIN Commands[s].reads
              /\ sensorHasCharacteristic(s, Targets[s][name], "WRITE") = "FOUND_ACCESS_OK"
<1>1. \A name \in DOMAIN Commands[s].reads :
        /\ Commands[s].reads[name] \in DOMAIN Characteristics[s]
        /\ "READ" \in Characteristics[s][Commands[s].reads[name]]
  <2>1. CASE s \in {"HTU", "GYRO", "LIGHT"}
    BY <2>1 DEF Commands, HtuCommands, GyroCommands, LightCommands, WithConfig, RateAndThreshold, Merged,
                Characteristics, HtuCharacteristics, GyroCharacteristics, LightCharacteristics, RW
  <2>2. CASE s = "SOUND"
    BY <2>2 DEF Commands, SoundCommands, RateAndThreshold, Characteristics, SoundCharacteristics, RW
  <2>3. CASE s = "BRIDGE"
    BY <2>3 DEF Commands, BridgeCommands, WithConfig, Merged, None, Characteristics, BridgeCharacteristics, RW
  <2> QED
    BY <2>1, <2>2, <2>3 DEF Sensors
<1>2. \A name \in DOMAIN Commands[s].writes :
        /\ Commands[s].writes[name] \in DOMAIN Characteristics[s]
        /\ "WRITE" \in Characteristics[s][Commands[s].writes[name]]
  <2>1. CASE s \in {"HTU", "GYRO", "LIGHT"}
    BY <2>1 DEF Commands, HtuCommands, GyroCommands, LightCommands, WithConfig, RateAndThreshold, Merged,
                Characteristics, HtuCharacteristics, GyroCharacteristics, LightCharacteristics, RW
  <2>2. CASE s = "SOUND"
    BY <2>2 DEF Commands, SoundCommands, RateAndThreshold, Characteristics, SoundCharacteristics, RW
  <2>3. CASE s = "BRIDGE"
    BY <2>3 DEF Commands, BridgeCommands, WithConfig, Merged, None, Characteristics, BridgeCharacteristics, RW
  <2> QED
    BY <2>1, <2>2, <2>3 DEF Sensors
<1>3. DOMAIN Commands[s].writes \cap DOMAIN Commands[s].reads = {}
  BY CommandNames DEF Sensors
<1>4. \A name \in DOMAIN Commands[s].reads :
        sensorHasCharacteristic(s, Targets[s][name], "READ") = "FOUND_ACCESS_OK"
  BY <1>1, TargetFacts, CharacteristicFacts, Accessed
<1>5. \A name \in DOMAIN Commands[s].writes :
        sensorHasCharacteristic(s, Targets[s][name], "WRITE") = "FOUND_ACCESS_OK"
  BY <1>2, <1>3, TargetFacts, CharacteristicFacts, Accessed
<1> QED
  BY <1>3, <1>4, <1>5

LEMMA BaseAccess ==
  ASSUME NEW s \in Sensors
  PROVE  /\ \A name \in DOMAIN BaseCommands.reads :
              sensorHasCharacteristic(s, Targets[s][name], "READ") = "FOUND_ACCESS_OK"
         /\ \A name \in DOMAIN BaseCommands.writes :
              sensorHasCharacteristic(s, Targets[s][name], "WRITE") = "FOUND_ACCESS_OK"
<1>1. \A name \in DOMAIN BaseCommands.reads :
        /\ BaseCommands.reads[name] \in DOMAIN BaseCharacteristics
        /\ "READ" \in BaseCharacteristics[BaseCommands.reads[name]]
  BY DEF BaseCommands, BaseCharacteristics, RW
<1>2. \A name \in DOMAIN BaseCommands.writes :
        /\ BaseCommands.writes[name] \in DOMAIN BaseCharacteristics
        /\ "WRITE" \in BaseCharacteristics[BaseCommands.writes[name]]
  BY DEF BaseCommands, BaseCharacteristics, RW
<1>3. \A name \in DOMAIN BaseCommands.reads \cup DOMAIN BaseCommands.writes :
        name \notin DOMAIN Commands[s].reads \cup DOMAIN Commands[s].writes
  <2>1. CASE s = "IR"
    BY <2>1, BaseCommandNames DEF Commands, IrCommands, None
  <2>2. CASE s # "IR"
    BY <2>2, BaseCommandNames, CommandNames DEF Sensors
  <2> QED
    BY <2>1, <2>2
<1>4. DOMAIN BaseCommands.reads \cap DOMAIN BaseCommands.writes = {}
  BY BaseCommandNames
<1>5. \A name \in DOMAIN BaseCommands.reads :
        sensorHasCharacteristic(s, Targets[s][name], "READ") = "FOUND_ACCESS_OK"
  BY <1>1, <1>3, TargetFacts, CharacteristicFacts, Accessed
<1>6. \A name \in DOMAIN BaseCommands.writes :
        sensorHasCharacteristic(s, Targets[s][name], "WRITE") = "FOUND_ACCESS_OK"
  BY <1>2, <1>3, <1>4, TargetFacts, CharacteristicFacts, Accessed
<1> QED
  BY <1>5, <1>6

\* By whatever name or number a characteristic was found, its list allows the access.
LEMMA FoundAccess ==
  ASSUME NEW s \in Sensors, NEW char, NEW mode \in {"READ", "WRITE"},
         NEW uuidType \in {"number", "name", "other"},
         findUuid(s, char, uuidType, mode) = "FOUND_ACCESS_OK"
  PROVE  \/ sensorHasCharacteristic(s, char, mode) = "FOUND_ACCESS_OK"
         \/ mode = "READ" /\ uuidType = "name" /\ char = "LED_STATE"
<1>1. CASE uuidType = "number"
  BY <1>1 DEF findUuid
<1>2. CASE uuidType = "name"
  <2>1. char \in DOMAIN NamedCharacteristics /\ mode \in NamedCharacteristics[char]
    <3>1. searchCharacteristics(char, mode, NamedCharacteristics) = "FOUND_ACCESS_OK"
      BY <1>2 DEF findUuid
    <3> QED
      BY <3>1, SearchFacts
  <2>2. char # "LED_STATE" \/ mode # "READ"
          => char \in DOMAIN BaseCharacteristics /\ mode \in BaseCharacteristics[char]
    BY <2>1 DEF NamedCharacteristics, BaseCharacteristics, RW
  <2> QED
    BY <1>2, <2>2, CharacteristicFacts, Accessed
<1>3. CASE uuidType = "other"
  BY <1>3 DEF findUuid
<1> QED
  BY <1>1, <1>2, <1>3

LEMMA FindUuidRange ==
  ASSUME NEW s, NEW char, NEW mode, NEW uuidType \in {"number", "name", "other"}
  PROVE  findUuid(s, char, uuidType, mode) \in {"FOUND_ACCESS_OK", "FOUND_WRONG_ACCESS", "NOT_FOUND"}
BY DEF findUuid, sensorHasCharacteristic, searchCharacteristics

-----------------------------------------------------------------------------
(* Commands, and what steps leave alone.                                   *)

LEMMA SensorKnown == sensor \in Kinds => sensor \in Sensors
BY SensorAssumption

LEMMA MessageFacts ==
  ASSUME NEW s \in Sensors, NEW m \in Messages[s]
  PROVE  /\ m.name \in DOMAIN ActuateSpec(s) \cup {"unknown", "blank", "broken"}
         /\ m.name \in UuidCommands => m.uuidType \in {"number", "name", "other"}
<1>1. UuidCommands \subseteq DOMAIN ActuateSpec(s) /\ {"unknown", "blank", "broken"} \cap UuidCommands = {}
  BY UuidCommandsAdvertised DEF UuidCommands
<1>2. ASSUME NEW name \in DOMAIN ActuateSpec(s) \ UuidCommands, m \in Directly(name, ActuateSpec(s))
      PROVE  m.name \in DOMAIN ActuateSpec(s) /\ m.name \notin UuidCommands
  <2>1. PICK fields \in {ActuateSpec(s)[name], {}},
                valid \in {v \in BOOLEAN : ActuateSpec(s)[name] = {} => v} :
                m = Message(name, fields, valid, "none", "none")
    BY <1>2 DEF Directly
  <2> QED
    BY <2>1 DEF Message
<1>3. ASSUME NEW name \in UuidCommands, m \in ByUuid(name, ActuateSpec(s), Uuids(s))
      PROVE  m.name \in DOMAIN ActuateSpec(s) /\ m.uuidType \in {"number", "name", "other"}
  <2>1. \A uuid \in Uuids(s) : uuid[1] \in {"number", "name", "other"}
    BY DEF Uuids
  <2>2. PICK valid \in BOOLEAN, uuid \in Uuids(s) :
           m = Message(name, ActuateSpec(s)[name], valid, uuid[1], uuid[2])
    BY <1>3 DEF ByUuid
  <2> QED
    BY <1>1, <2>1, <2>2 DEF Message
<1>4. ASSUME m \in Unknown
      PROVE  m.name \in {"unknown", "blank", "broken"} /\ m.name \notin UuidCommands
  <2>1. PICK name \in {"unknown", "blank", "broken"} : m = Message(name, {}, TRUE, "none", "none")
    BY <1>4 DEF Unknown
  <2> QED
    BY <1>1, <2>1 DEF Message
<1> QED
  BY <1>2, <1>3, <1>4 DEF Messages

\* While a command is handled, what is said of it does not change.
LEMMA Frame ==
  ASSUME UNCHANGED <<sensor, command>>
  PROVE  /\ IsOwn' = IsOwn /\ IsBase' = IsBase /\ Reads' = Reads
         /\ FieldsPresent' = FieldsPresent /\ Target' = Target
         /\ WritesTwice' = WritesTwice /\ Writes' = Writes
         /\ AnswersRefusal' = AnswersRefusal /\ Advertised' = Advertised
         /\ Accessible' = Accessible /\ SearchesMemory' = SearchesMemory
         /\ ActuateSpec(sensor)' = ActuateSpec(sensor)
<1>1. Own' = Own
  BY DEF Own
<1>2. IsOwn' = IsOwn /\ IsBase' = IsBase
  BY <1>1 DEF IsOwn, IsBase
<1>3. Reads' = Reads
  BY <1>1 DEF Reads
<1>4. FieldsPresent' = FieldsPresent /\ Target' = Target
  BY DEF FieldsPresent, Target
<1>5. WritesTwice' = WritesTwice /\ Writes' = Writes
  BY DEF WritesTwice, Writes
<1>6. AnswersRefusal' = AnswersRefusal /\ Advertised' = Advertised
  BY <1>4 DEF AnswersRefusal, Advertised
<1>7. Accessible' = Accessible
  BY <1>3, <1>4 DEF Accessible
<1>9. SearchesMemory' = SearchesMemory
  BY <1>2, <1>4 DEF SearchesMemory
<1>8. ActuateSpec(sensor)' = ActuateSpec(sensor)
  OBVIOUS
<1> QED
  BY <1>2, <1>3, <1>4, <1>5, <1>6, <1>7, <1>8, <1>9

\* What one acknowledgement changes.
LEMMA AckEffect ==
  ASSUME acks \in [Ids \cup {NoId} -> Seq(Codes)],
         NEW c \in Ids \cup {NoId}, NEW code \in Codes, Acknowledge(c, code)
  PROVE  /\ acks' \in [Ids \cup {NoId} -> Seq(Codes)]
         /\ \A d \in Ids \cup {NoId} : d # c => acks'[d] = acks[d]
         /\ Len(acks'[c]) = Len(acks[c]) + 1
         /\ acks'[c] # <<>>
         /\ {acks'[c][k] : k \in DOMAIN acks'[c]} = AckCodes(c) \cup {code}
<1> DEFINE old == acks[c]
           new == Append(old, code)
<1>1. old \in Seq(Codes)
  OBVIOUS
<1>2. acks'[c] = new /\ \A d \in Ids \cup {NoId} : d # c => acks'[d] = acks[d]
  BY DEF Acknowledge
<1>3. AckCodes(c) = {old[k] : k \in DOMAIN old}
  BY DEF AckCodes
<1> HIDE DEF old
<1>4. /\ new \in Seq(Codes) /\ Len(new) = Len(old) + 1 /\ Len(old) \in Nat
      /\ DOMAIN old = 1 .. Len(old) /\ DOMAIN new = 1 .. Len(old) + 1
      /\ \A k \in 1 .. Len(old) : new[k] = old[k]
      /\ new[Len(old) + 1] = code
  BY <1>1
<1>5. new # <<>>
  BY <1>4
<1> HIDE DEF new
<1>6. acks' \in [Ids \cup {NoId} -> Seq(Codes)]
  BY <1>2, <1>4 DEF Acknowledge, old, new
<1>7. {new[k] : k \in DOMAIN new} = {old[k] : k \in DOMAIN old} \cup {code}
  BY <1>4
<1> QED
  BY <1>2, <1>3, <1>4, <1>5, <1>6, <1>7 DEF old

-----------------------------------------------------------------------------
(* Types, and whose id is retained.                                        *)

LEMMA TypeInit == Init => TypeOK /\ IdInv
<1> SUFFICES ASSUME Init PROVE TypeOK /\ IdInv
  OBVIOUS
<1>1. acks \in [Ids \cup {NoId} -> Seq(Codes)]
  BY DEF Init
<1>2. command.name = "none" /\ "none" \notin UuidCommands
  BY DEF Init, NoMessage, Message, UuidCommands
<1>3. 400 \in Codes
  BY DEF Codes
<1>4. TypeOK
  BY <1>1, <1>3 DEF Init, TypeOK
<1>5. IdInv
  BY <1>2 DEF Init, IdInv, NoId
<1> QED
  BY <1>4, <1>5

LEMMA TypeNext ==
  ASSUME TypeOK, IdInv, [Next]_vars
  PROVE  TypeOK' /\ IdInv'
<1> USE DEF TypeOK
<1>0. /\ sensor \in Sensors /\ MaxCommands \in Nat
      /\ id \in Nat /\ commandId \in Nat
      /\ \A code \in Codes : code \in Nat /\ code # 0
      /\ {200, 400, 403, 404, 405} \subseteq Codes
  BY SensorKnown, SensorAssumption DEF Ids, NoId, Codes
<1>1. ASSUME NEW m \in Messages[sensor], Receive(m)
      PROVE  TypeOK' /\ IdInv'
  <2>1. /\ id' \in Ids /\ id' # NoId
    BY <1>0, <1>1 DEF Receive, Ids, NoId
  <2>2. /\ command'.name \in DOMAIN ActuateSpec(sensor) \cup {"unknown", "blank", "broken"}
        /\ command'.name \in UuidCommands => command'.uuidType \in {"number", "name", "other"}
    BY <1>0, <1>1, MessageFacts DEF Receive
  <2>3. /\ step' \in {"base", "copyId", "halted"} /\ commandId' = commandId /\ commandId' <= id'
        /\ retCode' \in {400, retCode}
    BY <1>0, <1>1 DEF Receive, IdInv
  <2>4. ActuateSpec(sensor)' = ActuateSpec(sensor)
    BY <1>1 DEF Receive, constants
  <2>5. TypeOK'
    BY <1>0, <1>1, <2>1, <2>2, <2>3, <2>4 DEF Receive, constants, gateway
  <2> QED
    BY <2>1, <2>2, <2>3, <2>5 DEF IdInv
<1>2. ASSUME CopyId \/ Base \/ CopyBase \/ DecodeBase \/ DecodeUuid \/ DecodeOther \/ Send \/ SendAgain
             \/ Succeeded \/ Failed \/ Ack
      PROVE  TypeOK' /\ IdInv'
  <2>1. step \notin {"idle", "halted"} /\ id \in Ids /\ id # NoId
        /\ UNCHANGED <<constants, command, id, gateway, crossed>>
    BY <1>2 DEF CopyId, Base, CopyBase, DecodeBase, DecodeUuid, DecodeOther, Send, SendAgain, Succeeded,
                Failed, Ack, Goto, IdInv
  <2>2. step' \in {"idle", "base", "copyBase", "decode", "send", "second", "succeeded", "failed", "ack", "halted"}
    BY <1>2 DEF CopyId, Base, CopyBase, DecodeBase, DecodeUuid, DecodeOther, Send, SendAgain, Succeeded,
                Failed, Ack, Goto
  <2>3. retCode' \in Codes
    <3>1. CASE DecodeUuid
      <4>1. PICK mode : retCode' = retCode
                        \/ /\ findUuid(sensor, command.char, command.uuidType, mode) # "FOUND_ACCESS_OK"
                           /\ retCode' = AccessCode(findUuid(sensor, command.char, command.uuidType, mode))
        BY <3>1 DEF DecodeUuid
      <4>2. command.uuidType \in {"number", "name", "other"}
        BY <3>1 DEF DecodeUuid, IdInv
      <4> QED
        BY <1>0, <4>1, <4>2, FindUuidRange DEF AccessCode
    <3> QED
      BY <1>0, <1>2, <3>1 DEF CopyId, Base, CopyBase, DecodeBase, DecodeOther, Send, SendAgain, Succeeded,
                              Failed, Ack
  <2>4. commandId' \in {commandId, id} /\ (commandId = id => commandId' = id)
        /\ (step' \notin {"base", "copyBase"} => commandId' = id)
    BY <1>2 DEF CopyId, OverwriteId, Base, CopyBase, DecodeBase, DecodeUuid, DecodeOther, Send, SendAgain, Succeeded,
                Failed, Ack, Goto, IdInv
  <2>5. /\ pending' \in {pending, pending + 1} /\ done' \in {done, done \cup {id}}
        /\ refused' \in {refused, refused \cup {id}} /\ overtaken' \in {overtaken, overtaken \cup {commandId}}
    BY <1>2 DEF CopyId, OverwriteId, Base, CopyBase, DecodeBase, DecodeUuid, DecodeOther, Send, SendAgain,
                Succeeded, Failed, Ack
  <2>6. acks' \in [Ids \cup {NoId} -> Seq(Codes)]
    <3>1. acks' = acks \/ \E code \in Codes : Acknowledge(id, code) \/ Acknowledge(commandId, code)
      BY <1>0, <1>2 DEF CopyId, Base, CopyBase, DecodeBase, DecodeUuid, DecodeOther, Send, SendAgain,
                        Succeeded, Failed, Ack
    <3> QED
      BY <2>1, <3>1, AckEffect
  <2>7. ActuateSpec(sensor)' = ActuateSpec(sensor)
    BY <2>1 DEF constants
  <2>8. TypeOK'
    BY <1>0, <2>1, <2>2, <2>3, <2>4, <2>5, <2>6, <2>7 DEF constants, gateway
  <2>9. IdInv'
    BY <1>0, <2>1, <2>2, <2>4 DEF IdInv
  <2> QED
    BY <2>8, <2>9
<1>3. ASSUME NewData \/ WriteOk \/ AckWrite \/ LinkLost
      PROVE  TypeOK' /\ IdInv'
  <2>1. UNCHANGED <<constants, worker>>
    BY <1>3 DEF NewData, WriteOk, AckWrite, LinkLost, Event
  <2>2. pending' \in Nat /\ crossed' \in BOOLEAN /\ lost' \in SUBSET (Ids \cup {NoId})
        /\ defaultRateApplied' \in BOOLEAN
    <3>1. pending' \in Nat
      BY <1>3 DEF NewData, WriteOk, AckWrite, LinkLost
    <3>2. crossed' \in BOOLEAN
      BY <1>3, Zenon DEF NewData, WriteOk, AckWrite, LinkLost
    <3>3. lost' \in SUBSET (Ids \cup {NoId}) /\ defaultRateApplied' \in BOOLEAN
      BY <1>3 DEF NewData, WriteOk, AckWrite, LinkLost
    <3> QED
      BY <3>1, <3>2, <3>3
  <2>3. ackCode' \in Codes \cup {0}
    BY <1>3 DEF NewData, WriteOk, AckWrite, LinkLost
  <2>4. acks' \in [Ids \cup {NoId} -> Seq(Codes)]
    <3>1. acks' = acks \/ \E code \in Codes : Acknowledge(commandId, code)
      BY <1>3 DEF NewData, WriteOk, AckWrite, LinkLost
    <3> QED
      BY <3>1, AckEffect
  <2>5. ActuateSpec(sensor)' = ActuateSpec(sensor)
    BY <2>1 DEF constants
  <2>6. TypeOK'
    BY <2>1, <2>2, <2>3, <2>4, <2>5 DEF constants, worker
  <2>7. IdInv'
    BY <2>1 DEF IdInv, worker
  <2> QED
    BY <2>6, <2>7
<1>4. CASE UNCHANGED vars
  <2>1. ActuateSpec(sensor)' = ActuateSpec(sensor)
    BY <1>4 DEF vars, constants
  <2> QED
    BY <1>4, <2>1 DEF vars, constants, worker, gateway, IdInv
<1> QED
  BY <1>1, <1>2, <1>3, <1>4 DEF Next

LEMMA TypeFacts ==
  ASSUME TypeOK
  PROVE  /\ sensor \in Sensors /\ MaxCommands \in Nat
         /\ id \in Nat /\ commandId \in Nat /\ id \in Ids \cup {NoId} /\ commandId \in Ids \cup {NoId}
         /\ pending \in Nat
         /\ retCode \in Codes /\ ackCode \in Codes \cup {0} /\ 0 \notin Codes
         /\ {200, 400, 403, 404, 405} \subseteq Codes
         /\ acks \in [Ids \cup {NoId} -> Seq(Codes)]
         /\ \A c \in Ids \cup {NoId} : Len(acks[c]) \in Nat /\ (acks[c] = <<>> <=> Len(acks[c]) = 0)
         /\ \A c \in Ids : c \in Nat /\ c # NoId
<1>1. /\ sensor \in Sensors /\ MaxCommands \in Nat
  BY SensorKnown, SensorAssumption DEF TypeOK
<1>2. \A c \in Ids \cup {NoId} : Len(acks[c]) \in Nat /\ (acks[c] = <<>> <=> Len(acks[c]) = 0)
  <2>1. ASSUME NEW c \in Ids \cup {NoId}
        PROVE  Len(acks[c]) \in Nat /\ (acks[c] = <<>> <=> Len(acks[c]) = 0)
    <3>1. acks[c] \in Seq(Codes)
      BY <2>1 DEF TypeOK
    <3> QED
      BY <3>1
  <2> QED
    BY <2>1
<1> QED
  BY <1>1, <1>2 DEF TypeOK, Ids, NoId, Codes

\* A step of the worker before its answer.
Deciding == Base \/ CopyBase \/ DecodeBase \/ DecodeUuid \/ DecodeOther \/ Send \/ SendAgain

LEMMA DecidingFacts ==
  ASSUME TypeOK, IdInv, Deciding
  PROVE  /\ step \notin {"idle", "halted", "ack", "copyId", "succeeded", "failed"}
         /\ step' \in {"copyBase", "decode", "send", "second", "succeeded", "failed", "ack", "halted"}
         /\ UNCHANGED <<constants, command, id, gateway, crossed, done, refused, acks>>
         /\ retCode' \in {retCode, 400, 404, 405}
         /\ retCode' = 404 => retCode = 404 \/ Base
<1>1. CASE DecodeUuid
  <2>1. PICK mode : retCode' = retCode
                    \/ /\ findUuid(sensor, command.char, command.uuidType, mode) # "FOUND_ACCESS_OK"
                       /\ retCode' = AccessCode(findUuid(sensor, command.char, command.uuidType, mode))
    BY <1>1 DEF DecodeUuid
  <2>2. command.uuidType \in {"number", "name", "other"}
    BY <1>1 DEF DecodeUuid, IdInv
  <2>3. retCode' \in {retCode, 400, 405}
    BY <2>1, <2>2, FindUuidRange DEF AccessCode
  <2> QED
    BY <1>1, <2>3 DEF DecodeUuid, Goto
<1>2. CASE ~DecodeUuid
  BY <1>2 DEF Deciding, Base, CopyBase, DecodeBase, DecodeOther, Send, SendAgain, Goto
<1> QED
  BY <1>1, <1>2

LEMMA AckCodesKept ==
  ASSUME UNCHANGED acks, NEW c
  PROVE  AckCodes(c)' = AckCodes(c)
BY DEF AckCodes

\* Acknowledged codes after an acknowledgement.
LEMMA AckCodesEffect ==
  ASSUME TypeOK, NEW c \in Ids \cup {NoId}, NEW code \in Codes, Acknowledge(c, code)
  PROVE  \A d \in Ids \cup {NoId} :
            AckCodes(d)' = IF d = c THEN AckCodes(c) \cup {code} ELSE AckCodes(d)
<1>1. /\ \A d \in Ids \cup {NoId} : d # c => acks'[d] = acks[d]
      /\ {acks'[c][k] : k \in DOMAIN acks'[c]} = AckCodes(c) \cup {code}
  BY AckEffect DEF TypeOK
<1>2. AckCodes(c)' = AckCodes(c) \cup {code}
  BY <1>1 DEF AckCodes
<1>3. ASSUME NEW d \in Ids \cup {NoId}, d # c
      PROVE  AckCodes(d)' = AckCodes(d)
  BY <1>1, <1>3 DEF AckCodes
<1> QED
  BY <1>2, <1>3

LEMMA NothingAcknowledged ==
  ASSUME NEW c, acks[c] = <<>>
  PROVE  AckCodes(c) = {}
BY DEF AckCodes

-----------------------------------------------------------------------------
(* What is reported is true.                                               *)

LEMMA TruthKept ==
  ASSUME TypeOK, TruthfulResult, UNCHANGED <<done, crossed>>,
         NEW c \in Ids \cup {NoId}, NEW code \in Codes, Acknowledge(c, code),
         ~crossed /\ c \in Ids => (code = 200 <=> c \in done)
  PROVE  TruthfulResult'
BY AckCodesEffect DEF TruthfulResult

LEMMA TruthStays ==
  ASSUME TruthfulResult, UNCHANGED <<done, acks>>, crossed => crossed'
  PROVE  TruthfulResult'
<1>1. \A c \in Ids : AckCodes(c)' = AckCodes(c)
  BY AckCodesKept
<1> QED
  BY <1>1 DEF TruthfulResult

LEMMA ResultNext ==
  ASSUME TypeOK, IdInv, ResultInv, CountInv, [Next]_vars
  PROVE  ResultInv'
<1>0. /\ id \in Nat /\ NoId = 0 /\ \A c \in Ids : c \in Nat /\ c # NoId
      /\ {200, 400, 403, 404, 405} \subseteq Codes /\ done \subseteq Ids
      /\ retCode \in Codes /\ 0 \notin Codes /\ ackCode \in Codes \cup {0}
      /\ id \in Ids \cup {NoId} /\ commandId \in Ids \cup {NoId}
  BY TypeFacts DEF TypeOK, NoId
<1>1. ASSUME NEW m \in Messages[sensor], Receive(m)
      PROVE  ResultInv'
  <2>1. UNCHANGED <<done, acks, ackCode>> /\ id' = id + 1 /\ (step' # "halted" => retCode' = 400)
        /\ step' \notin {"idle", "ack"}
    BY <1>1 DEF Receive, gateway
  <2>2. \A c \in done : c <= id' /\ c # id'
    BY <1>0, <2>1 DEF ResultInv
  <2>3. (crossed => crossed') /\ (~crossed' => ackCode = 0)
    BY <1>1, Zenon DEF Receive
  <2>4. TruthfulResult'
    BY <2>1, <2>3, TruthStays DEF ResultInv
  <2>5. (\A c \in done : c <= id)' /\ id' \notin done'
    BY <2>1, <2>2
  <2>6. (step' # "halted" => retCode' # 200) /\ (~crossed' => ackCode' = 0)
    BY <2>1, <2>3
  <2> QED
    BY <2>1, <2>4, <2>5, <2>6 DEF ResultInv
<1>2. CASE Deciding
  <2>1. id \notin done /\ UNCHANGED <<id, ackCode, crossed, done, acks>> /\ retCode' # 200
    BY <1>2, DecidingFacts DEF ResultInv, gateway
  <2>2. TruthfulResult'
    BY <2>1, AckCodesKept DEF ResultInv, TruthfulResult
  <2> QED
    BY <2>1, <2>2 DEF ResultInv
<1>3. CASE CopyId
  <2>1. step = "copyId" /\ id \notin done /\ UNCHANGED <<id, ackCode, crossed, done, retCode>> /\ id \in Ids
    BY <1>0, <1>3 DEF ResultInv, gateway, CopyId, Goto, IdInv
  <2>2. TruthfulResult'
    <3>1. CASE Acknowledge(id, 400)
      BY <1>0, <2>1, <3>1, TruthKept DEF ResultInv
    <3>2. CASE UNCHANGED acks
      BY <2>1, <3>2, AckCodesKept DEF ResultInv, TruthfulResult
    <3> QED
      BY <1>3, <3>1, <3>2 DEF CopyId
  <2> QED
    BY <2>1, <2>2 DEF ResultInv
<1>4. CASE Succeeded
  <2>1. /\ UNCHANGED <<id, ackCode, crossed>> /\ id \in Ids /\ id # NoId /\ retCode' = 200
        /\ done' = done \cup {id} /\ step' \in {"ack", "idle"} /\ step = "succeeded"
        /\ acks' = acks \/ Acknowledge(id, 200)
    BY <1>0, <1>4 DEF gateway, Succeeded, Goto, IdInv
  <2>2. ~crossed => ackCode = 0 /\ AckCodes(id) = {}
    BY <2>1, NothingAcknowledged DEF CountInv
  <2>3. \A c \in Ids : c # id => (c \in done' <=> c \in done)
    BY <2>1
  <2>4. ASSUME ~crossed, NEW c \in Ids, NEW code \in AckCodes(c)'
        PROVE  code = 200 <=> c \in done'
    <3>1. CASE c # id
      <4>1. AckCodes(c)' = AckCodes(c)
        BY <1>0, <2>1, <3>1, AckCodesKept, AckCodesEffect
      <4> QED
        BY <2>3, <2>4, <3>1, <4>1 DEF ResultInv, TruthfulResult
    <3>2. CASE c = id
      <4>1. AckCodes(c)' \subseteq {200}
        BY <1>0, <2>1, <2>2, <2>4, <3>2, AckCodesKept, AckCodesEffect
      <4> QED
        BY <2>1, <2>4, <3>2, <4>1
    <3> QED
      BY <3>1, <3>2
  <2>5. TruthfulResult'
    BY <2>1, <2>4 DEF TruthfulResult
  <2>6. \A c \in done' : c <= id
    BY <1>0, <2>1 DEF ResultInv
  <2> QED
    BY <2>1, <2>2, <2>5, <2>6 DEF ResultInv
<1>5. CASE Failed \/ Ack
  <2>1. /\ UNCHANGED <<id, ackCode, crossed, done, retCode>> /\ id \in Ids
        /\ step' # "idle" /\ step' # "ack" => Ack /\ step' = "send" /\ retCode = 400
        /\ step # "halted"
    BY <1>0, <1>5 DEF gateway, Failed, Ack, Goto, IdInv
  <2>2. acks' = acks \/ \E code \in Codes : Acknowledge(id, code) /\ (code = 200 <=> id \in done)
    <3>1. CASE Failed
      BY <1>0, <3>1 DEF Failed, ResultInv
    <3>2. CASE Ack
      BY <1>0, <3>2 DEF Ack, ResultInv, IdInv
    <3> QED
      BY <1>5, <3>1, <3>2
  <2>3. TruthfulResult'
    BY <1>0, <2>1, <2>2, AckCodesKept, TruthKept DEF ResultInv, TruthfulResult
  <2> QED
    BY <2>1, <2>3 DEF ResultInv
<1>6. CASE NewData \/ LinkLost
  <2>1. UNCHANGED <<id, step, ackCode, done, retCode, acks>>
    BY <1>6 DEF NewData, LinkLost, Event, worker
  <2>2. crossed => crossed'
    BY <1>6, Zenon DEF NewData, LinkLost
  <2>3. TruthfulResult'
    BY <2>1, <2>2, TruthStays DEF ResultInv
  <2> QED
    BY <2>1, <2>2, <2>3 DEF ResultInv
<1>7. CASE WriteOk
  <2>1. UNCHANGED <<id, step, done, retCode, acks>> /\ ackCode' \in {retCode, 0} /\ step # "halted"
    BY <1>7 DEF WriteOk, Event, worker
  <2>2. crossed => crossed'
    BY <1>7, Zenon DEF WriteOk
  <2>3. TruthfulResult'
    BY <2>1, <2>2, TruthStays DEF ResultInv
  <2> QED
    BY <2>1, <2>2, <2>3 DEF ResultInv
<1>8. CASE AckWrite
  <2>1. /\ UNCHANGED <<id, step, done, retCode, crossed>> /\ ackCode' = 0
        /\ ackCode \in Codes /\ Acknowledge(commandId, ackCode)
    BY <1>0, <1>8 DEF AckWrite, worker
  <2>2. ~crossed /\ commandId \in Ids => (ackCode = 200 <=> commandId \in done)
    <3>1. ASSUME ~crossed, commandId \in Ids PROVE step = "idle"
      BY <1>0, <2>1, <3>1 DEF CountInv
    <3> QED
      BY <1>0, <2>1, <3>1 DEF ResultInv, IdInv
  <2>3. TruthfulResult'
    BY <1>0, <2>1, <2>2, TruthKept DEF ResultInv
  <2> QED
    BY <2>1, <2>3 DEF ResultInv
<1>9. CASE UNCHANGED vars
  BY <1>9, AckCodesKept DEF ResultInv, TruthfulResult, vars, worker, gateway
<1> QED
  BY <1>1, <1>2, <1>3, <1>4, <1>5, <1>6, <1>7, <1>8, <1>9 DEF Next, Deciding

\* A step of handleCommand.
Handling == CopyId \/ Deciding \/ Succeeded \/ Failed \/ Ack

LEMMA HandlingFacts ==
  ASSUME TypeOK, IdInv, Handling
  PROVE  /\ step \notin {"idle", "halted"} /\ id \in Ids /\ id # NoId
         /\ UNCHANGED <<constants, command, id, gateway, crossed>>
         /\ acks' = acks \/ \E code \in Codes : Acknowledge(id, code)
         /\ commandId' \in {commandId, id}
         /\ pending' = pending \/ (pending' = pending + 1 /\ commandId = id /\ commandId' = id)
<1>1. CASE Deciding
  <2>1. pending' = pending \/ (pending' = pending + 1 /\ commandId = id /\ commandId' = id)
    BY <1>1 DEF Deciding, Base, CopyBase, DecodeBase, DecodeUuid, DecodeOther, Send, SendAgain, IdInv
  <2>2. commandId' \in {commandId, id}
    BY <1>1 DEF Deciding, OverwriteId, Base, CopyBase, DecodeBase, DecodeUuid, DecodeOther, Send, SendAgain
  <2> QED
    BY <1>1, <2>1, <2>2, DecidingFacts, TypeFacts DEF IdInv
<1>2. CASE CopyId
  BY <1>2, TypeFacts DEF CopyId, OverwriteId, Goto, IdInv
<1>3. CASE Succeeded
  BY <1>3, TypeFacts DEF Succeeded, Goto, IdInv
<1>4. CASE Failed
  BY <1>4, TypeFacts DEF Failed, Goto, IdInv
<1>5. CASE Ack
  BY <1>5, TypeFacts DEF Ack, Goto, IdInv
<1> QED
  BY <1>1, <1>2, <1>3, <1>4, <1>5 DEF Handling

-----------------------------------------------------------------------------
(* Acknowledgements of no command.                                         *)

LEMMA StrayNext ==
  ASSUME TypeOK, IdInv, StrayInv, [Next]_vars
  PROVE  StrayInv'
<1> DEFINE stray == Len(acks[NoId])
<1>0. /\ stray \in Nat /\ pending \in Nat /\ NoId \in Ids \cup {NoId} /\ 0 \notin Codes
      /\ acks \in [Ids \cup {NoId} -> Seq(Codes)] /\ commandId \in Ids \cup {NoId}
  BY TypeFacts
<1>1. ASSUME NEW m \in Messages[sensor], Receive(m)
      PROVE  StrayInv'
  BY <1>1 DEF Receive, gateway, StrayInv, StrayAcksBounded, One
<1>2. CASE Handling
  <2>1. stray' = stray
    BY <1>0, <1>2, HandlingFacts, AckEffect
  <2>2. UNCHANGED <<ackCode, defaultRateApplied>>
    BY <1>2, HandlingFacts DEF gateway
  <2>3. commandId' = NoId => commandId = NoId /\ pending' = pending
    BY <1>2, HandlingFacts
  <2> QED
    BY <2>1, <2>2, <2>3 DEF StrayInv, StrayAcksBounded, One
<1>3. CASE NewData
  <2>1. UNCHANGED <<commandId, ackCode, acks>> /\ ~defaultRateApplied /\ defaultRateApplied'
        /\ pending' \in {pending, pending + 1}
    BY <1>3 DEF NewData, Event, worker
  <2> QED
    BY <1>0, <2>1 DEF StrayInv, StrayAcksBounded, One
<1>4. CASE WriteOk
  <2>1. UNCHANGED <<commandId, acks, defaultRateApplied>> /\ ackCode = 0
        /\ pending > 0 /\ pending' = pending - 1
    BY <1>4 DEF WriteOk, Event, worker
  <2> QED
    BY <1>0, <2>1 DEF StrayInv, StrayAcksBounded, One
<1>5. CASE AckWrite
  <2>1. UNCHANGED <<commandId, pending, defaultRateApplied>> /\ ackCode # 0 /\ ackCode' = 0
        /\ ackCode \in Codes /\ Acknowledge(commandId, ackCode)
    BY <1>5, TypeFacts DEF AckWrite, worker
  <2>2. CASE commandId = NoId
    <3>1. stray' = stray + 1
      BY <1>0, <2>1, <2>2, AckEffect
    <3>2. pending + 1 + stray <= One(defaultRateApplied)
      BY <2>1, <2>2 DEF StrayInv, One
    <3>3. stray' <= 1
      BY <1>0, <3>1, <3>2 DEF One
    <3> QED
      BY <1>0, <2>1, <3>1, <3>2, <3>3 DEF StrayInv, StrayAcksBounded, One
  <2>3. CASE commandId # NoId
    <3>1. stray' = stray
      BY <1>0, <2>1, <2>3, AckEffect
    <3> QED
      BY <2>1, <2>3, <3>1 DEF StrayInv, StrayAcksBounded
  <2> QED
    BY <2>2, <2>3
<1>6. CASE LinkLost
  <2>1. UNCHANGED <<commandId, ackCode, acks, defaultRateApplied>> /\ pending' = 0
    BY <1>6 DEF LinkLost, Event, worker
  <2> QED
    BY <1>0, <2>1 DEF StrayInv, StrayAcksBounded, One
<1>7. CASE UNCHANGED vars
  BY <1>7 DEF vars, worker, gateway, StrayInv, StrayAcksBounded, One
<1> QED
  BY <1>1, <1>2, <1>3, <1>4, <1>5, <1>6, <1>7 DEF Next, Handling, Deciding

-----------------------------------------------------------------------------
(* How often a command is acknowledged.                                    *)

LEMMA CountHandling ==
  ASSUME TypeOK, IdInv, CountInv, RouteInv, Handling
  PROVE  CountInv'
<1> DEFINE n == Len(acks[id])
<1>0. /\ pending \in Nat /\ id \in Nat /\ n \in Nat /\ (acks[id] = <<>> <=> n = 0)
      /\ id \in Ids /\ id # NoId /\ step # "idle"
      /\ acks \in [Ids \cup {NoId} -> Seq(Codes)] /\ \A c \in Ids : c \in Nat
      /\ UNCHANGED <<sensor, command>> /\ UNCHANGED <<id, ackCode, crossed>>
      /\ {200, 400, 403, 404, 405} \subseteq Codes
  BY TypeFacts, HandlingFacts DEF constants, gateway
<1>1. Reads' = Reads /\ WritesTwice' = WritesTwice /\ Writes' = Writes
      /\ Writes \in Nat /\ 1 <= Writes /\ (WritesTwice => Writes = 2)
  BY <1>0, Frame DEF Writes
<1>2. \A c \in Ids : c > id => acks'[c] = <<>>
  BY <1>0, HandlingFacts, AckEffect DEF CountInv
<1>3. \A code \in Codes : Acknowledge(id, code) => Len(acks'[id]) = n + 1
  BY <1>0, AckEffect
<1> DEFINE m == Len(acks'[id])
<1>4. acks' = acks => m = n
  OBVIOUS
<1> HIDE DEF n, m
<1>5. CASE ~crossed
  <2>0. ackCode = 0 /\ n = 0
    BY <1>0, <1>5 DEF CountInv
  <2>1. ASSUME step' = "idle", pending' \in Nat, m \in Nat, pending' + m <= Writes
        PROVE  CountInv'
    <3>1. ackCode' = 0 /\ id' = id /\ Writes' = Writes
      BY <1>0, <1>1, <2>0
    <3>2. pending' + One(ackCode # 0)' + m <= Writes
      BY <2>1, <3>1 DEF One
    <3> QED
      BY <1>0, <1>1, <1>2, <2>1, <3>1, <3>2 DEF CountInv, m
  <2>2. CASE CopyId
    <3>1. pending = 0 /\ pending' = pending
      BY <1>5, <2>2 DEF CopyId, CountInv
    <3>2. \/ step' \in {"send", "base"} /\ acks' = acks
          \/ step' = "idle" /\ m = 1
      <4>1. CASE command.name = "blank"
        BY <1>0, <1>3, <1>4, <2>0, <2>2, <4>1 DEF CopyId, Goto, m
      <4>2. CASE command.name # "blank"
        <5>1. acks' = acks
          BY <2>2, <4>2 DEF CopyId
        <5>2. step' \in {"send", "base"}
          BY <2>2, <4>2 DEF CopyId, Goto
        <5> QED
          BY <5>1, <5>2
      <4> QED
        BY <4>1, <4>2
    <3> QED
      <4>1. CASE step' = "idle"
        <5>1. pending' \in Nat /\ m \in Nat /\ pending' + m <= Writes
          BY <1>0, <1>1, <1>4, <2>0, <3>1, <3>2, <4>1
        <5> QED
          BY <2>1, <4>1, <5>1
      <4>2. CASE step' # "idle"
        BY <1>0, <1>1, <1>2, <2>0, <3>1, <3>2, <4>2 DEF CountInv
      <4> QED
        BY <4>1, <4>2
  <2>3. CASE Base \/ CopyBase \/ DecodeBase \/ DecodeUuid \/ DecodeOther
    <3>1. pending = 0 /\ pending' = pending /\ acks' = acks
          /\ step' \in {"copyBase", "decode", "send", "ack"}
      BY <1>5, <2>3 DEF Base, CopyBase, DecodeBase, DecodeUuid, DecodeOther, Goto, CountInv
    <3> QED
      BY <1>0, <1>1, <1>2, <2>0, <3>1 DEF CountInv
  <2>4. CASE Send
    <3>1. pending = 0 /\ acks' = acks
      BY <1>5, <2>4 DEF Send, CountInv
    <3>2. \/ step' = "failed" /\ pending' = 0
          \/ step' = "succeeded" /\ Reads /\ pending' = 0
          \/ step' = "succeeded" /\ ~Reads /\ pending' = 1
          \/ step' = "second" /\ ~Reads /\ WritesTwice /\ pending' = 1
          \/ step' = "halted" /\ pending' = 0
      BY <2>4, <3>1 DEF Send, Goto
    <3> QED
      BY <1>0, <1>1, <1>2, <2>0, <3>1, <3>2 DEF CountInv
  <2>5. CASE SendAgain
    <3>1. pending <= 1 /\ acks' = acks /\ ~Reads /\ WritesTwice
      BY <1>5, <2>5 DEF SendAgain, CountInv
    <3>2. \/ step' = "failed" /\ pending' = pending
          \/ step' = "succeeded" /\ pending' = pending + 1
      BY <2>5 DEF SendAgain, Goto
    <3> QED
      BY <1>0, <1>1, <1>2, <2>0, <3>1, <3>2 DEF CountInv
  <2>6. CASE Succeeded
    <3>1. pending <= (IF Reads THEN 0 ELSE Writes) /\ pending' = pending /\ (Reads => pending <= 0)
          /\ (~Reads => pending <= Writes)
      BY <1>5, <2>6 DEF Succeeded, CountInv
    <3>2. \/ step' = "ack" /\ Reads /\ acks' = acks
          \/ step' = "idle" /\ Reads /\ m = 1
          \/ step' = "idle" /\ ~Reads /\ acks' = acks
      BY <1>0, <1>3, <1>4, <2>0, <2>6 DEF Succeeded, Goto, m
    <3>3. CASE step' = "idle"
      <4>1. pending' \in Nat /\ m \in Nat
        BY <1>0, <1>4, <2>0, <3>1, <3>2, <3>3
      <4>2. pending' + m <= Writes
        BY <1>0, <1>1, <1>4, <2>0, <3>1, <3>2, <3>3
      <4> QED
        BY <2>1, <3>3, <4>1, <4>2
    <3>4. CASE step' # "idle"
      BY <1>0, <1>1, <1>2, <2>0, <3>1, <3>2, <3>4 DEF CountInv
    <3> QED
      BY <3>3, <3>4
  <2>7. CASE Failed
    <3>1. pending <= Writes - 1 /\ pending' = pending
      BY <1>5, <2>7 DEF Failed, CountInv
    <3>2. \/ step' = "ack" /\ acks' = acks
          \/ step' = "idle" /\ m \in {0, 1}
      BY <1>0, <1>3, <1>4, <2>0, <2>7 DEF Failed, Goto, m
    <3>3. CASE step' = "idle"
      <4>1. pending' \in Nat /\ m \in Nat
        BY <1>0, <1>4, <2>0, <3>1, <3>2, <3>3
      <4>2. pending' + m <= Writes
        BY <1>0, <1>1, <1>4, <2>0, <3>1, <3>2, <3>3
      <4> QED
        BY <2>1, <3>3, <4>1, <4>2
    <3>4. CASE step' # "idle"
      BY <1>0, <1>1, <1>2, <2>0, <3>1, <3>2, <3>4 DEF CountInv
    <3> QED
      BY <3>3, <3>4
  <2>8. CASE Ack
    <3>1. pending <= Writes - 1 /\ pending' = pending
      BY <1>5, <2>8 DEF Ack, CountInv
    <3>2. step' = "idle"
      BY <2>8 DEF Ack, Goto, RouteInv
    <3>3. m = 1
      BY <1>0, <1>3, <1>4, <2>0, <2>8, TypeFacts DEF Ack, IdInv, m
    <3>4. pending' \in Nat /\ m \in Nat /\ pending' + m <= Writes
      BY <1>0, <1>1, <3>1, <3>3
    <3> QED
      BY <2>1, <3>2, <3>4
  <2> QED
    BY <2>2, <2>3, <2>4, <2>5, <2>6, <2>7, <2>8 DEF Handling, Deciding
<1>6. CASE crossed
  <2>1. step' = "second" => WritesTwice /\ ~Reads
    BY DEF Handling, Deciding, CopyId, Base, CopyBase, DecodeBase, DecodeUuid, DecodeOther, Send, SendAgain,
           Succeeded, Failed, Ack, Goto
  <2> QED
    BY <1>0, <1>1, <1>2, <1>6, <2>1 DEF CountInv
<1> QED
  BY <1>5, <1>6

LEMMA CountNext ==
  ASSUME TypeOK, IdInv, CountInv, RouteInv, [Next]_vars
  PROVE  CountInv'
<1> DEFINE n == Len(acks[id])
<1>0. /\ pending \in Nat /\ id \in Nat /\ commandId \in Nat /\ NoId = 0
      /\ acks \in [Ids \cup {NoId} -> Seq(Codes)] /\ \A c \in Ids : c \in Nat
      /\ id \in Ids \cup {NoId} /\ commandId \in Ids \cup {NoId} /\ 0 \notin Codes
      /\ n \in Nat /\ Writes \in Nat /\ ackCode \in Codes \cup {0}
      /\ step # "idle" => id # NoId
      /\ MaxCommands \in Nat
  BY TypeFacts DEF NoId, Writes, IdInv
<1>1. ASSUME NEW m \in Messages[sensor], Receive(m)
      PROVE  CountInv'
  <2>1. /\ id' = id + 1 /\ UNCHANGED <<acks, pending, ackCode>> /\ step' \in {"base", "copyId", "halted"}
        /\ id' \in Ids
    BY <1>0, <1>1 DEF Receive, gateway, Ids
  <2>2. ~crossed' => ~(pending > 0) /\ ackCode = 0
    BY <1>1, Zenon DEF Receive
  <2>3. ~crossed' => pending = 0 /\ ackCode = 0
    BY <1>0, <2>2
  <2>4. \A c \in Ids : c > id => acks'[c] = <<>>
    BY <2>1 DEF CountInv
  <2>5. acks'[id'] = <<>> /\ \A c \in Ids : c > id' => acks'[c] = <<>>
    BY <1>0, <2>1, <2>4
  <2> QED
    BY <2>1, <2>3, <2>5 DEF CountInv
<1>2. ASSUME NewData \/ WriteOk \/ LinkLost \/ AckWrite
      PROVE  UNCHANGED <<sensor, command>> /\ UNCHANGED <<step, id, commandId>>
  BY <1>2 DEF NewData, WriteOk, LinkLost, AckWrite, Event, constants, worker
<1>3. ASSUME UNCHANGED <<sensor, command>>
      PROVE  Reads' = Reads /\ WritesTwice' = WritesTwice /\ Writes' = Writes
  BY <1>3, Frame
<1>4. CASE NewData
  <2>1. UNCHANGED <<ackCode, acks>>
    BY <1>4 DEF NewData
  <2>2. ~crossed' => ~crossed
    BY <1>4, Zenon DEF NewData
  <2>3. ~crossed' /\ id # NoId => pending' = pending
    BY <1>4, Zenon DEF NewData
  <2>4. One(ackCode # 0)' = One(ackCode # 0)
    BY <2>1 DEF One
  <2> QED
    BY <1>0, <1>2, <1>3, <1>4, <2>1, <2>2, <2>3, <2>4 DEF CountInv
<1>5. CASE WriteOk
  <2>1. UNCHANGED acks /\ pending > 0 /\ pending' = pending - 1 /\ ackCode = 0
    BY <1>5 DEF WriteOk, Event
  <2>2. ~crossed' => ~crossed /\ step = "idle"
    BY <1>5, Zenon DEF WriteOk
  <2>3. One(ackCode # 0)' \in {0, 1} /\ One(ackCode # 0) = 0
    BY <2>1 DEF One
  <2>4. ~crossed' /\ id # NoId => pending' + One(ackCode # 0)' + n <= Writes
    <3> HIDE DEF n
    <3>1. ~crossed' /\ id # NoId => pending + n <= Writes
      BY <1>0, <2>1, <2>2, <2>3 DEF CountInv, n
    <3> QED
      BY <1>0, <2>1, <2>3, <3>1
  <2>5. step = "second" => WritesTwice /\ ~Reads
    BY DEF CountInv
  <2>6. \A c \in Ids : c > id => acks[c] = <<>>
    BY DEF CountInv
  <2> QED
    BY <1>0, <1>2, <1>3, <1>5, <2>1, <2>2, <2>4, <2>5, <2>6 DEF CountInv
<1>6. CASE LinkLost
  <2>1. UNCHANGED <<ackCode, acks, crossed>> /\ pending' = 0 /\ ackCode = 0 /\ pending > 0
    BY <1>6 DEF LinkLost, Event
  <2>2. One(ackCode # 0)' = One(ackCode # 0) /\ One(ackCode # 0) = 0
    BY <2>1 DEF One
  <2>3. ~crossed /\ step = "idle" /\ id # NoId => n <= Writes
    <3> HIDE DEF n
    <3>1. ~crossed /\ step = "idle" /\ id # NoId => pending + n <= Writes
      BY <1>0, <2>2 DEF CountInv, n
    <3> QED
      BY <1>0, <2>1, <3>1
  <2>4. step = "second" => WritesTwice /\ ~Reads
    BY DEF CountInv
  <2>5. \A c \in Ids : c > id => acks[c] = <<>>
    BY DEF CountInv
  <2>6. ~crossed /\ step # "idle" => acks[id] = <<>>
    BY DEF CountInv
  <2>7. 1 <= Writes
    BY DEF Writes
  <2> QED
    BY <1>0, <1>2, <1>3, <1>6, <2>1, <2>2, <2>3, <2>4, <2>5, <2>6, <2>7 DEF CountInv
<1>7. CASE AckWrite
  <2>1. /\ UNCHANGED <<pending, crossed>> /\ ackCode # 0 /\ ackCode' = 0
        /\ ackCode \in Codes /\ Acknowledge(commandId, ackCode)
    BY <1>0, <1>7 DEF AckWrite, worker
  <2>2. \A c \in Ids : c > id => acks'[c] = <<>>
    <3>1. \A c \in Ids : c > id => c # commandId
      BY <1>0 DEF IdInv
    <3> QED
      BY <1>0, <2>1, <3>1, AckEffect DEF CountInv
  <2>3. step = "second" => WritesTwice /\ ~Reads
    BY DEF CountInv
  <2>4. ~crossed => step = "idle" /\ commandId = id
    BY <2>1 DEF CountInv, IdInv
  <2>5. Acknowledge(id, ackCode) => Len(acks'[id]) = n + 1
    BY <1>0, <2>1, AckEffect
  <2>6. One(ackCode # 0)' = 0 /\ One(ackCode # 0) = 1
    BY <2>1 DEF One
  <2>7. ~crossed /\ id # NoId => pending + 1 + n <= Writes
    BY <2>4, <2>6 DEF CountInv
  <2>8. ~crossed /\ id # NoId => pending' + One(ackCode # 0)' + Len(acks'[id]) <= Writes
    <3> DEFINE m == Len(acks'[id])
    <3>1. ~crossed => m = n + 1
      BY <2>1, <2>4, <2>5
    <3> HIDE DEF m, n
    <3>2. ~crossed /\ id # NoId => pending' + One(ackCode # 0)' + m <= Writes
      BY <1>0, <2>1, <2>6, <2>7, <3>1
    <3> QED
      BY <3>2 DEF m
  <2> QED
    BY <1>0, <1>2, <1>3, <1>7, <2>1, <2>2, <2>3, <2>4, <2>8 DEF CountInv
<1>8. CASE UNCHANGED vars
  <2>1. UNCHANGED <<sensor, command>> /\ UNCHANGED <<step, id, ackCode, acks, pending, crossed>>
    BY <1>8 DEF vars, constants, worker, gateway
  <2> QED
    BY <1>3, <2>1 DEF CountInv, One
<1> QED
  BY <1>1, <1>4, <1>5, <1>6, <1>7, <1>8, CountHandling DEF Next, Handling, Deciding

-----------------------------------------------------------------------------
(* No command stays silent.                                                *)

LEMMA AcksStay ==
  ASSUME TypeOK, IdInv, [Next]_vars, NEW c \in Ids, acks'[c] = <<>>
  PROVE  acks[c] = <<>>
<1>0. acks \in [Ids \cup {NoId} -> Seq(Codes)] /\ commandId \in Ids \cup {NoId} /\ id \in Ids \cup {NoId}
  BY TypeFacts
<1>1. acks' = acks \/ \E d \in {id, commandId}, code \in Codes : Acknowledge(d, code)
  <2>1. CASE Handling
    BY <2>1, HandlingFacts
  <2>2. CASE AckWrite
    BY <2>2, TypeFacts DEF AckWrite
  <2>3. CASE ~Handling /\ ~AckWrite
    BY <2>3 DEF Next, Handling, Deciding, Receive, NewData, WriteOk, LinkLost, vars
  <2> QED
    BY <2>1, <2>2, <2>3
<1> QED
  BY <1>0, <1>1, AckEffect

\* The reason stays: a confirmation that is due is given, lost or overtaken.
LEMMA ExcusedStays ==
  ASSUME TypeOK, IdInv, registrationOk, [Next]_vars, NEW c \in Ids, Excused(c), acks'[c] = <<>>
  PROVE  Excused(c)'
<1>0. /\ pending \in Nat /\ retCode \in Codes /\ 0 \notin Codes /\ ackCode \in Codes \cup {0}
      /\ acks \in [Ids \cup {NoId} -> Seq(Codes)] /\ commandId \in Ids \cup {NoId}
  BY TypeFacts
<1>1. ASSUME NEW m \in Messages[sensor], Receive(m)
      PROVE  Excused(c)'
  BY <1>1 DEF Receive, gateway, Excused, Due
<1>2. CASE CopyId \/ CopyBase
  <2>1. OverwriteId /\ UNCHANGED <<pending, ackCode, lost, refused>>
    BY <1>2 DEF CopyId, CopyBase, Goto, gateway
  <2> QED
    BY <2>1 DEF OverwriteId, Excused, Due
<1>3. CASE Base \/ DecodeBase \/ DecodeUuid \/ DecodeOther \/ Send \/ SendAgain \/ Succeeded \/ Failed \/ Ack
  <2>1. /\ UNCHANGED <<commandId, overtaken, ackCode, lost>>
        /\ pending' \in {pending, pending + 1} /\ refused' \in {refused, refused \cup {id}}
    BY <1>3 DEF Base, DecodeBase, DecodeUuid, DecodeOther, Send, SendAgain, Succeeded, Failed, Ack, Goto, gateway
  <2> QED
    BY <1>0, <2>1 DEF Excused, Due
<1>4. CASE NewData
  <2>1. UNCHANGED <<commandId, overtaken, refused, ackCode, lost>> /\ pending' \in {pending, pending + 1}
    BY <1>4 DEF NewData, Event, worker
  <2> QED
    BY <1>0, <2>1 DEF Excused, Due
<1>5. CASE WriteOk
  <2>1. UNCHANGED <<commandId, overtaken, refused, lost>> /\ ackCode' = retCode
    BY <1>5 DEF WriteOk, Event, worker
  <2> QED
    BY <1>0, <2>1 DEF Excused, Due
<1>6. CASE AckWrite
  <2>1. UNCHANGED <<commandId, overtaken, refused, lost>> /\ Acknowledge(commandId, ackCode) /\ ackCode \in Codes
    BY <1>0, <1>6 DEF AckWrite, worker
  <2>2. c # commandId
    BY <1>0, <2>1, AckEffect
  <2> QED
    BY <2>1, <2>2 DEF Excused
<1>7. CASE LinkLost
  BY <1>7 DEF LinkLost, Event, worker, Excused, Due
<1>8. CASE UNCHANGED vars
  BY <1>8 DEF vars, worker, gateway, Excused, Due
<1> QED
  BY <1>1, <1>2, <1>3, <1>4, <1>5, <1>6, <1>7, <1>8 DEF Next

LEMMA AnsweringStays ==
  ASSUME TypeOK, IdInv, registrationOk, [Next]_vars, UNCHANGED id,
         id \in Ids, commandId = id, Answering
  PROVE  Answering'
<1>1. CASE acks'[id] = <<>>
  <2>1. Due \/ id \in lost
    BY <1>1, AcksStay DEF Answering
  <2>3. CASE Handling
    <3>1. UNCHANGED <<ackCode, lost>> /\ pending' \in {pending, pending + 1}
      BY <2>3, HandlingFacts DEF gateway
    <3> QED
      BY <2>1, <3>1, TypeFacts DEF Answering, Due
  <2>4. CASE ~Handling
    <3>1. lost \subseteq lost'
      BY <2>4 DEF Next, Handling, Deciding, Receive, NewData, WriteOk, AckWrite, LinkLost, vars, gateway
    <3>2. CASE id \in lost
      BY <3>1, <3>2 DEF Answering
    <3>3. CASE Due
      <4>1. CASE LinkLost
        BY <4>1 DEF LinkLost, Answering
      <4>2. CASE WriteOk
        BY <4>2, TypeFacts DEF WriteOk, Answering, Due
      <4>3. CASE AckWrite
        BY <1>1, <4>3, AckEffect, TypeFacts DEF AckWrite
      <4>4. CASE ~LinkLost /\ ~WriteOk /\ ~AckWrite
        <5>1. UNCHANGED ackCode /\ pending' \in {pending, pending + 1}
          BY <2>4, <4>4 DEF Next, Handling, Deciding, Receive, NewData, vars, gateway
        <5> QED
          BY <3>3, <5>1, TypeFacts DEF Answering, Due
      <4> QED
        BY <4>1, <4>2, <4>3, <4>4
    <3> QED
      BY <2>1, <3>2, <3>3
  <2> QED
    BY <2>3, <2>4
<1>2. CASE acks'[id] # <<>>
  BY <1>2 DEF Answering
<1> QED
  BY <1>1, <1>2

LEMMA AnswerNext ==
  ASSUME TypeOK, IdInv, AnswerInv, [Next]_vars
  PROVE  AnswerInv'
<1>0. /\ pending \in Nat /\ id \in Ids \cup {NoId} /\ id \in Nat /\ NoId = 0
      /\ acks \in [Ids \cup {NoId} -> Seq(Codes)] /\ retCode \in Codes
      /\ {200, 400, 403, 404, 405} \subseteq Codes /\ MaxCommands \in Nat
  BY TypeFacts DEF NoId
<1>1. registrationOk' = registrationOk
  BY DEF Next, Receive, CopyId, Base, CopyBase, DecodeBase, DecodeUuid, DecodeOther, Send, SendAgain,
         Succeeded, Failed, Ack, Goto, NewData, WriteOk, AckWrite, LinkLost, Event, vars, constants
<1>2. CASE ~registrationOk
  BY <1>1, <1>2 DEF AnswerInv, NoSilentCommand
<1>3. CASE registrationOk
  <2>1. id' \in {id, id + 1} /\ (id' # id => step = "idle" /\ step' # "idle") /\ id' \in Nat
        /\ id' <= MaxCommands
    <3>1. CASE \E m \in Messages[sensor] : Receive(m)
      BY <1>0, <3>1 DEF Receive
    <3>2. CASE ~\E m \in Messages[sensor] : Receive(m)
      <4>1. id' = id
        BY <3>2 DEF Next, CopyId, Base, CopyBase, DecodeBase, DecodeUuid, DecodeOther, Send, SendAgain,
                    Succeeded, Failed, Ack, Goto, NewData, WriteOk, AckWrite, LinkLost, Event, vars, worker
      <4> QED
        BY <1>0, <4>1 DEF Ids
    <3> QED
      BY <3>1, <3>2
  \* The command before is excused as it was.
  <2>2. ASSUME NEW c \in 1 .. id, acks'[c] = <<>>, c < id \/ step = "idle"
        PROVE  Excused(c)'
    <3>1. c \in Ids
      BY <1>0 DEF Ids
    <3>2. acks[c] = <<>>
      BY <2>2, <3>1, AcksStay
    <3>3. Excused(c)
      BY <1>3, <2>2, <3>2 DEF AnswerInv, NoSilentCommand, Excused, Due
    <3> QED
      BY <1>3, <2>2, <3>1, <3>3, ExcusedStays
  \* The one that ends now has its answer, a confirmation due, or none ever.
  <2>3. ASSUME id \in Ids, step # "idle", step' = "idle", id' = id, acks'[id] = <<>>
        PROVE  Excused(id)'
    <3>1. CASE Handling
      <4>0. /\ UNCHANGED <<ackCode, lost>> /\ step' = "idle"
            /\ \A code \in Codes : Acknowledge(id, code) => acks'[id] # <<>>
        BY <1>0, <2>3, <3>1, HandlingFacts, AckEffect DEF gateway
      <4>1. CASE CopyId
        BY <1>0, <2>3, <4>0, <4>1 DEF CopyId, Goto
      <4>2. CASE Deciding
        BY <2>3, <4>2, DecidingFacts
      <4>3. CASE Succeeded
        <5>1. ~Reads /\ commandId = id /\ UNCHANGED <<commandId, pending, acks>> /\ step = "succeeded"
          BY <1>0, <2>3, <4>0, <4>3 DEF Succeeded, Goto, IdInv
        <5>2. Due \/ id \in lost
          BY <1>3, <2>3, <5>1 DEF AnswerInv, Answering
        <5> QED
          BY <2>3, <4>0, <5>1, <5>2 DEF Excused, Due
      <4>4. CASE Failed
        BY <1>0, <2>3, <4>0, <4>4 DEF Failed, Goto, Excused
      <4>5. CASE Ack
        BY <1>0, <2>3, <4>0, <4>5 DEF Ack, IdInv
      <4> QED
        BY <3>1, <4>1, <4>2, <4>3, <4>4, <4>5 DEF Handling
    <3>2. CASE ~Handling
      BY <2>3, <3>2 DEF Next, Handling, Deciding, Receive, NewData, WriteOk, AckWrite, LinkLost, Event, vars, worker
    <3> QED
      BY <3>1, <3>2
  <2>4. NoSilentCommand'
    <3>1. ASSUME NEW c \in 1 .. id', acks'[c] = <<>>, c < id' \/ step' = "idle"
          PROVE  Excused(c)'
      <4>1. CASE c \in 1 .. id /\ (c < id \/ step = "idle")
        BY <2>2, <3>1, <4>1
      <4>2. CASE ~(c \in 1 .. id /\ (c < id \/ step = "idle"))
        <5>1. c = id /\ id' = id /\ step # "idle" /\ step' = "idle" /\ id \in Ids
          BY <1>0, <2>1, <3>1, <4>2 DEF Ids
        <5> QED
          BY <2>3, <3>1, <5>1
      <4> QED
        BY <4>1, <4>2
    <3> QED
      BY <3>1 DEF NoSilentCommand, Excused, Due
  <2>5. step' = "second" \/ (step' = "succeeded" /\ ~Reads') => Answering'
    <3>1. CASE Send \/ SendAgain
      <4>1. UNCHANGED <<sensor, command>>
        BY <3>1 DEF Send, SendAgain, Goto, constants
      <4>2. \/ step' = "failed" \/ step' = "halted"
            \/ step' = "succeeded" /\ Reads
            \/ step' \in {"second", "succeeded"} /\ pending' = pending + 1
        BY <3>1 DEF Send, SendAgain, Goto
      <4> QED
        BY <1>0, <4>1, <4>2, Frame DEF Answering, Due
    <3>2. CASE ~Send /\ ~SendAgain
      <4>1. ASSUME step' \in {"second", "succeeded"}
            PROVE  UNCHANGED <<sensor, command>> /\ UNCHANGED <<step, id>>
        BY <3>2, <4>1 DEF Next, Receive, CopyId, Base, CopyBase, DecodeBase, DecodeUuid, DecodeOther,
                          Succeeded, Failed, Ack, Goto, NewData, WriteOk, AckWrite, LinkLost, Event,
                          vars, constants, worker
      <4>2. ASSUME step \in {"second", "succeeded"}
            PROVE  commandId = id /\ id \in Ids
        BY <1>0, <4>2 DEF IdInv
      <4> QED
        BY <1>3, <4>1, <4>2, Frame, AnsweringStays DEF AnswerInv
    <3> QED
      BY <3>1, <3>2
  <2> QED
    BY <2>4, <2>5 DEF AnswerInv
<1> QED
  BY <1>2, <1>3

-----------------------------------------------------------------------------
(* Which way a command takes.                                              *)

LEMMA RouteNext ==
  ASSUME TypeOK, IdInv, RouteInv, [Next]_vars
  PROVE  RouteInv'
<1>1. ASSUME NEW m \in Messages[sensor], Receive(m)
      PROVE  RouteInv'
  <2>1. /\ sensor' = sensor
        /\ step' \in {"halted", IF sensor = "IR" THEN "base" ELSE "copyId"}
    BY <1>1 DEF Receive, constants
  <2>2. sensor = "IR" => ~IsOwn'
    BY <2>1 DEF IsOwn, Own, None
  <2> QED
    BY <2>1, <2>2 DEF RouteInv
<1>2. CASE Handling
  <2>1. UNCHANGED <<sensor, command>>
    BY <1>2, HandlingFacts DEF constants
  <2>2. IsOwn' = IsOwn
    BY <2>1, Frame
  <2>3. CASE CopyId
    BY <2>1, <2>2, <2>3 DEF CopyId, Goto, RouteInv
  <2>4. CASE Base
    BY <2>1, <2>2, <2>4 DEF Base, Goto, RouteInv
  <2>5. CASE CopyBase
    BY <2>1, <2>2, <2>5 DEF CopyBase, Goto, RouteInv
  <2>6. CASE DecodeBase
    <3>1. command.name \notin DOMAIN IrCommands.writes
      BY <2>6, BaseCommandNames, CommandNames DEF DecodeBase, IsBase
    <3> QED
      BY <2>1, <2>2, <2>6, <3>1 DEF DecodeBase, Goto, RouteInv
  <2>7. CASE DecodeUuid
    <3>1. command.name \notin DOMAIN IrCommands.writes
      BY <2>7, CommandNames DEF DecodeUuid, UuidCommands
    <3>2. step = "decode" /\ step' \in {"send", "ack"}
      BY <2>7 DEF DecodeUuid, Goto
    <3> QED
      BY <2>1, <2>2, <3>1, <3>2 DEF RouteInv
  <2>8. CASE DecodeOther
    BY <2>1, <2>2, <2>8 DEF DecodeOther, Goto, RouteInv
  <2>9. CASE Send \/ SendAgain \/ Succeeded
    <3>1. /\ step \in {"send", "second", "succeeded"}
          /\ step' \in {"failed", "succeeded", "second", "idle", "halted"} \/ (step' = "ack" /\ ~IsOwn)
      BY <2>9 DEF Send, SendAgain, Succeeded, Goto
    <3> QED
      BY <2>1, <2>2, <3>1 DEF RouteInv
  <2>10. CASE Failed
    <3>1. step = "failed" /\ (step' = "idle" \/ (step' = "ack" /\ ~IsOwn))
      BY <2>10 DEF Failed, Goto
    <3> QED
      BY <2>1, <2>2, <3>1 DEF RouteInv
  <2>11. CASE Ack
    <3>1. step' = "idle"
      BY <2>11 DEF Ack, Goto, RouteInv
    <3> QED
      BY <3>1 DEF RouteInv
  <2> QED
    BY <1>2, <2>3, <2>4, <2>5, <2>6, <2>7, <2>8, <2>9, <2>10, <2>11 DEF Handling, Deciding
<1>3. CASE NewData \/ WriteOk \/ LinkLost \/ AckWrite \/ UNCHANGED vars
  <2>1. UNCHANGED <<sensor, command>> /\ UNCHANGED <<step, retCode>>
    BY <1>3 DEF NewData, WriteOk, LinkLost, AckWrite, Event, vars, constants, worker
  <2> QED
    BY <2>1, Frame DEF RouteInv
<1> QED
  BY <1>1, <1>2, <1>3 DEF Next, Handling, Deciding

-----------------------------------------------------------------------------
(* Advertised commands are known.                                          *)

LEMMA AdvertisedRoute ==
  ASSUME sensor \in Sensors, Advertised
  PROVE  (IsOwn \/ IsBase) /\ command.name \notin UuidCommands
<1>1. \/ sensor # "IR" /\ command.name \in DOMAIN Commands[sensor].reads \cup DOMAIN Commands[sensor].writes
      \/ command.name \in DOMAIN BaseCommands.reads \cup DOMAIN BaseCommands.writes
  BY AdvertisedHandled DEF Advertised
<1> QED
  BY <1>1 DEF Advertised, IsOwn, IsBase, Own

LEMMA KnownNext ==
  ASSUME TypeOK, IdInv, CountInv, RouteInv, KnownInv, [Next]_vars
  PROVE  KnownInv'
<1>0. /\ id \in Nat /\ MaxCommands \in Nat /\ id \in Ids \cup {NoId} /\ commandId \in Ids \cup {NoId}
      /\ 0 \notin Codes /\ {200, 400, 403, 404, 405} \subseteq Codes /\ retCode \in Codes
      /\ ackCode \in Codes \cup {0} /\ sensor \in Sensors /\ NoId = 0
  BY TypeFacts DEF NoId
<1>1. ASSUME NEW m \in Messages[sensor], Receive(m)
      PROVE  KnownInv'
  <2>1. /\ id' = id + 1 /\ UNCHANGED <<acks, ackCode>> /\ (step' # "halted" => retCode' = 400)
        /\ id' \in Ids
    BY <1>0, <1>1 DEF Receive, gateway, Ids
  <2>2. ~crossed' => ackCode = 0
    BY <1>1, Zenon DEF Receive
  <2>3. acks'[id'] = <<>>
    BY <1>0, <2>1 DEF CountInv
  <2>4. AckCodes(id)' = {}
    BY <2>3 DEF AckCodes
  <2> QED
    BY <2>1, <2>2, <2>4 DEF KnownInv
<1>2. CASE Handling
  <2>1. UNCHANGED <<sensor, command>> /\ UNCHANGED <<id, ackCode, crossed>>
    BY <1>2, HandlingFacts DEF constants, gateway
  <2>2. Advertised' = Advertised
    BY <2>1, Frame
  <2>3. SUFFICES ASSUME Advertised
                 PROVE  /\ step' \notin {"copyBase", "decode", "halted"} => retCode' # 404
                        /\ acks' = acks \/ \E code \in Codes \ {404} : Acknowledge(id, code)
    <3>1. ASSUME acks' = acks \/ \E code \in Codes \ {404} : Acknowledge(id, code), 404 \notin AckCodes(id)
          PROVE  404 \notin AckCodes(id)'
      <4>1. CASE acks' = acks
        BY <2>1, <3>1, <4>1 DEF AckCodes
      <4>2. ASSUME NEW code \in Codes \ {404}, Acknowledge(id, code)
            PROVE  404 \notin AckCodes(id)'
        <5>1. AckCodes(id)' = AckCodes(id) \cup {code}
          <6>1. {acks'[id][k] : k \in DOMAIN acks'[id]} = AckCodes(id) \cup {code}
            <7>1. code \in Codes /\ acks \in [Ids \cup {NoId} -> Seq(Codes)]
              BY <4>2, TypeFacts
            <7> QED
              BY <1>0, <4>2, <7>1, AckEffect
          <6> QED
            BY <2>1, <6>1 DEF AckCodes
        <5> QED
          BY <3>1, <4>2, <5>1
      <4> QED
        BY <3>1, <4>1, <4>2
    <3> QED
      BY <2>1, <2>2, <3>1 DEF KnownInv
  <2>4. (IsOwn \/ IsBase) /\ command.name \notin UuidCommands
    BY <1>0, <2>3, AdvertisedRoute
  <2>5. step \notin {"copyBase", "decode", "halted"} => retCode # 404
    BY <2>3 DEF KnownInv
  <2>6. CASE CopyId
    BY <1>0, <2>5, <2>6 DEF CopyId
  <2>7. CASE Base \/ CopyBase
    BY <2>7 DEF Base, CopyBase, Goto
  <2>8. CASE DecodeBase
    BY <2>8 DEF DecodeBase
  <2>9. CASE DecodeUuid \/ DecodeOther
    BY <2>4, <2>9 DEF DecodeUuid, DecodeOther, RouteInv
  <2>10. CASE Send \/ SendAgain
    BY <2>5, <2>10 DEF Send, SendAgain
  <2>11. CASE Succeeded
    BY <1>0, <2>11 DEF Succeeded
  <2>12. CASE Failed
    BY <1>0, <2>5, <2>12 DEF Failed
  <2>13. CASE Ack
    BY <1>0, <2>5, <2>13 DEF Ack, IdInv
  <2> QED
    BY <1>2, <2>6, <2>7, <2>8, <2>9, <2>10, <2>11, <2>12, <2>13 DEF Handling, Deciding
<1>3. ASSUME NewData \/ WriteOk \/ LinkLost \/ UNCHANGED vars
      PROVE  KnownInv'
  <2>1. UNCHANGED <<sensor, command>> /\ UNCHANGED <<id, step, retCode, acks>>
    BY <1>3 DEF NewData, WriteOk, LinkLost, Event, vars, constants, worker
  <2>2. Advertised' = Advertised /\ AckCodes(id)' = AckCodes(id)
    BY <2>1, Frame DEF AckCodes
  <2>3. ~crossed' => ~crossed
    BY <1>3, Zenon DEF NewData, WriteOk, LinkLost, vars
  <2>4. ~crossed' => ackCode' \in {0, ackCode} \/ (ackCode' = retCode /\ step = "idle")
    <3>1. CASE WriteOk
      <4>1. ~crossed' => step = "idle"
        BY <3>1, Zenon DEF WriteOk
      <4> QED
        BY <3>1, <4>1 DEF WriteOk
    <3>2. CASE ~WriteOk
      BY <1>3, <3>2 DEF NewData, LinkLost, vars, gateway
    <3> QED
      BY <3>1, <3>2
  <2> QED
    BY <2>1, <2>2, <2>3, <2>4 DEF KnownInv
<1>4. CASE AckWrite
  <2>1. /\ UNCHANGED <<sensor, command>> /\ UNCHANGED <<id, step, retCode, crossed>>
        /\ ackCode' = 0 /\ ackCode \in Codes /\ Acknowledge(commandId, ackCode)
    BY <1>0, <1>4 DEF AckWrite, constants, worker
  <2>2. Advertised' = Advertised
    BY <2>1, Frame
  <2>3. AckCodes(id)' \subseteq AckCodes(id) \cup {ackCode}
    <3>1. CASE commandId = id
      <4>1. {acks'[id][k] : k \in DOMAIN acks'[id]} = AckCodes(id) \cup {ackCode}
        BY <1>0, <2>1, <3>1, AckEffect, TypeFacts
      <4> QED
        BY <2>1, <4>1 DEF AckCodes
    <3>2. CASE commandId # id
      <4>1. acks'[id] = acks[id]
        BY <1>0, <2>1, <3>2, AckEffect, TypeFacts
      <4> QED
        BY <2>1, <4>1 DEF AckCodes
    <3> QED
      BY <3>1, <3>2
  <2> QED
    BY <2>1, <2>2, <2>3 DEF KnownInv
<1> QED
  BY <1>1, <1>2, <1>3, <1>4 DEF Next, Handling, Deciding

-----------------------------------------------------------------------------
(* Access to characteristics.                                              *)

LEMMA HandledAccess ==
  ASSUME sensor \in Sensors, IsOwn \/ IsBase
  PROVE  Accessible
<1>1. command.name \notin UuidCommands => Target = Targets[sensor][command.name]
  BY DEF Target
<1>2. CASE IsBase
  <2>1. command.name \notin UuidCommands
    BY <1>2, BaseCommandNames DEF IsBase, UuidCommands
  <2>2. CASE command.name \in DOMAIN BaseCommands.reads
    <3>1. Reads
      BY <2>2 DEF Reads
    <3>2. sensorHasCharacteristic(sensor, Target, "READ") = "FOUND_ACCESS_OK"
      BY <1>1, <2>1, <2>2, BaseAccess
    <3> QED
      BY <3>1, <3>2 DEF Accessible
  <2>3. CASE command.name \in DOMAIN BaseCommands.writes
    <3>1. ~Reads
      <4>1. command.name = "blinkLed"
        BY <2>3, BaseCommandNames
      <4>2. "blinkLed" \notin DOMAIN Own.reads
        <5>1. CASE sensor = "IR"
          BY <5>1 DEF Own, None
        <5>2. CASE sensor # "IR"
          BY <5>2, CommandNames DEF Own, Sensors
        <5> QED
          BY <5>1, <5>2
      <4> QED
        BY <4>1, <4>2, BaseCommandNames DEF Reads
    <3>2. sensorHasCharacteristic(sensor, Target, "WRITE") = "FOUND_ACCESS_OK"
      BY <1>1, <2>1, <2>3, BaseAccess
    <3> QED
      BY <3>1, <3>2 DEF Accessible
  <2> QED
    BY <1>2, <2>2, <2>3 DEF IsBase
<1>3. CASE IsOwn
  <2>1. sensor # "IR" /\ Own = Commands[sensor]
    BY <1>3 DEF IsOwn, Own, None
  <2>2. command.name \in DOMAIN Commands[sensor].reads \cup DOMAIN Commands[sensor].writes
    BY <1>3, <2>1 DEF IsOwn
  <2>3. command.name \notin UuidCommands
    BY <2>1, <2>2, CommandNames DEF Sensors, UuidCommands
  <2>4. CASE command.name \in DOMAIN Commands[sensor].reads
    <3>1. Reads
      BY <2>1, <2>4 DEF Reads
    <3>2. sensorHasCharacteristic(sensor, Target, "READ") = "FOUND_ACCESS_OK"
      BY <1>1, <2>1, <2>3, <2>4, OwnAccess
    <3> QED
      BY <3>1, <3>2 DEF Accessible
  <2>5. CASE command.name \in DOMAIN Commands[sensor].writes
    <3>1. /\ command.name \notin DOMAIN Commands[sensor].reads
          /\ sensorHasCharacteristic(sensor, Targets[sensor][command.name], "WRITE") = "FOUND_ACCESS_OK"
      BY <2>1, <2>5, OwnAccess
    <3>2. command.name \notin DOMAIN BaseCommands.reads
      BY <2>1, <2>5, CommandNames, BaseCommandNames DEF Sensors
    <3>3. ~Reads
      BY <2>1, <2>3, <3>1, <3>2 DEF Reads, UuidCommands
    <3> QED
      BY <1>1, <2>3, <3>1, <3>3 DEF Accessible
  <2> QED
    BY <2>2, <2>4, <2>5
<1> QED
  BY <1>2, <1>3

LEMMA AccessNext ==
  ASSUME TypeOK, IdInv, RouteInv, AccessInv, [Next]_vars
  PROVE  AccessInv'
<1>0. sensor \in Sensors
  BY TypeFacts
<1>1. ASSUME NEW m \in Messages[sensor], Receive(m)
      PROVE  AccessInv'
  BY <1>1 DEF Receive, AccessInv
<1>2. ASSUME UNCHANGED <<sensor, command>>, step' \in {"send", "second", "succeeded"} => Accessible
      PROVE  AccessInv'
  BY <1>2, Frame DEF AccessInv
<1>3. CASE Handling
  <2>1. UNCHANGED <<sensor, command>>
    BY <1>3, HandlingFacts DEF constants
  <2>2. CASE CopyId
    <3>1. step' = "send" => IsOwn
      BY <2>2 DEF CopyId, Goto
    <3>2. step' \in {"idle", "send", "base"}
      BY <2>2 DEF CopyId, Goto
    <3> QED
      BY <1>0, <1>2, <2>1, <3>1, <3>2, HandledAccess
  <2>3. CASE DecodeBase
    BY <1>0, <1>2, <2>1, <2>3, HandledAccess DEF DecodeBase
  <2>4. CASE DecodeUuid
    <3> DEFINE mode == IF Reads THEN "READ" ELSE "WRITE"
    <3>1. /\ command.name \in UuidCommands /\ command.uuidType \in {"number", "name", "other"}
          /\ step' \in {"send", "ack"}
          /\ step' = "send" => findUuid(sensor, command.char, command.uuidType, mode) = "FOUND_ACCESS_OK"
      BY <2>4 DEF DecodeUuid, Goto, IdInv
    <3>2. Target = command.char
      BY <3>1 DEF Target
    <3>3. step' = "send" => Accessible
      <4>1. CASE Reads
        BY <1>0, <3>1, <3>2, <4>1, FoundAccess DEF Accessible
      <4>2. CASE ~Reads
        BY <1>0, <3>1, <3>2, <4>2, FoundAccess DEF Accessible
      <4> QED
        BY <4>1, <4>2
    <3> QED
      BY <1>2, <2>1, <3>1, <3>3
  <2>5. CASE Base \/ CopyBase \/ DecodeOther \/ Succeeded \/ Failed
    <3>1. step' \in {"copyBase", "decode", "ack", "idle"}
      BY <2>5 DEF Base, CopyBase, DecodeOther, Succeeded, Failed, Goto
    <3> QED
      BY <1>2, <2>1, <3>1
  <2>6. CASE Send \/ SendAgain
    BY <1>2, <2>1, <2>6 DEF Send, SendAgain, AccessInv
  <2>7. CASE Ack
    <3>1. step' = "idle"
      BY <2>7 DEF Ack, Goto, RouteInv
    <3> QED
      BY <1>2, <2>1, <3>1
  <2> QED
    BY <1>3, <2>2, <2>3, <2>4, <2>5, <2>6, <2>7 DEF Handling, Deciding
<1>4. CASE NewData \/ WriteOk \/ LinkLost \/ AckWrite \/ UNCHANGED vars
  <2>1. UNCHANGED <<sensor, command>> /\ step' = step
    BY <1>4 DEF NewData, WriteOk, LinkLost, AckWrite, Event, vars, constants, worker
  <2> QED
    BY <1>2, <2>1 DEF AccessInv
<1> QED
  BY <1>1, <1>3, <1>4 DEF Next, Handling, Deciding

-----------------------------------------------------------------------------
(* What brings the board to a halt.                                        *)

LEMMA HaltNext ==
  ASSUME TypeOK, HaltInv, [Next]_vars
  PROVE  HaltInv'
<1>0. sensor \in Sensors
  BY TypeFacts
<1>1. ASSUME NEW m \in Messages[sensor], Receive(m)
      PROVE  HaltInv'
  <2>1. sensor' = sensor /\ command' = m /\ (step' = "halted" => Unreadable(m))
    BY <1>1 DEF Receive, constants
  <2>2. ASSUME Unreadable(m), m.name \in DOMAIN ActuateSpec(sensor), m.fields = ActuateSpec(sensor)[m.name]
        PROVE  Cardinality(m.fields) > 4
    <3>1. m.name # "broken"
      BY <1>0, <2>2, SpecNames, BaseSpecNames, OwnSpecNames DEF Sensors
    <3>2. Cardinality(m.fields) \in Nat
      BY <1>0, <2>2, FieldsFinite
    <3> QED
      BY <2>2, <3>1, <3>2 DEF Unreadable, Tokens
  <2> QED
    BY <2>1, <2>2 DEF HaltInv, Advertised
<1>2. CASE Send
  <2>1. UNCHANGED <<sensor, command>> /\ (step' = "halted" => SearchesMemory)
    BY <1>2 DEF Send, Goto, constants
  <2>2. SearchesMemory /\ Advertised => command.fields # ActuateSpec(sensor)[command.name]
    BY <1>0, FieldsAdvertised DEF SearchesMemory, FieldsPresent, Advertised, UuidCommands
  <2>3. Advertised' = Advertised /\ ActuateSpec(sensor)' = ActuateSpec(sensor)
    BY <2>1, Frame
  <2> QED
    BY <2>1, <2>2, <2>3 DEF HaltInv
<1>3. CASE CopyId \/ Base \/ CopyBase \/ DecodeBase \/ DecodeUuid \/ DecodeOther \/ SendAgain
           \/ Succeeded \/ Failed \/ Ack
  <2>1. step' # "halted"
    BY <1>3 DEF CopyId, Base, CopyBase, DecodeBase, DecodeUuid, DecodeOther, SendAgain,
                Succeeded, Failed, Ack, Goto
  <2> QED
    BY <2>1 DEF HaltInv
<1>4. CASE NewData \/ WriteOk \/ LinkLost \/ AckWrite \/ UNCHANGED vars
  <2>1. UNCHANGED <<sensor, command>> /\ step' = step
    BY <1>4 DEF NewData, WriteOk, LinkLost, AckWrite, Event, vars, constants, worker
  <2>2. Advertised' = Advertised /\ ActuateSpec(sensor)' = ActuateSpec(sensor)
    BY <2>1, Frame
  <2> QED
    BY <2>1, <2>2 DEF HaltInv
<1> QED
  BY <1>1, <1>2, <1>3, <1>4 DEF Next

-----------------------------------------------------------------------------
(* The theorems.                                                           *)

LEMMA Initially == Init => Inv
<1> SUFFICES ASSUME Init PROVE Inv
  OBVIOUS
<1>1. TypeOK /\ IdInv
  BY TypeInit
<1>2. \A c \in Ids \cup {NoId} : acks[c] = <<>>
  BY DEF Init
<1>3. NoId = 0 /\ NoId \notin Ids
  BY DEF NoId, Ids
<1>4. ResultInv
  BY <1>2, <1>3, NothingAcknowledged DEF Init, ResultInv, TruthfulResult
<1>5. StrayInv
  <2>1. Len(acks[NoId]) = 0
    BY <1>2
  <2> QED
    BY <2>1 DEF Init, StrayInv, StrayAcksBounded, One
<1>6. CountInv
  BY <1>2 DEF Init, CountInv
<1>7. AnswerInv
  BY <1>3 DEF Init, AnswerInv, NoSilentCommand
<1>8. RouteInv
  BY DEF Init, RouteInv
<1>9. KnownInv
  <2>1. sensor \in Sensors /\ command.name = "none"
    BY <1>1, TypeFacts DEF Init, NoMessage, Message
  <2>2. "none" \notin DOMAIN ActuateSpec(sensor)
    BY <2>1, SpecNames, BaseSpecNames, OwnSpecNames DEF Sensors
  <2>3. ~Advertised
    BY <2>1, <2>2 DEF Advertised
  <2> QED
    BY <2>3 DEF KnownInv
<1>10. AccessInv /\ HaltInv
  BY DEF Init, AccessInv, HaltInv
<1> QED
  BY <1>1, <1>4, <1>5, <1>6, <1>7, <1>8, <1>9, <1>10 DEF Inv

LEMMA Preserved == Inv /\ [Next]_vars => Inv'
BY TypeNext, ResultNext, StrayNext, CountNext, AnswerNext, RouteNext, KnownNext, AccessNext, HaltNext DEF Inv

LEMMA Invariance == Spec => []Inv
BY Initially, Preserved, PTL DEF Spec

\* The types are right.
THEOREM TypeCorrect == Spec => []TypeOK
<1>1. Inv => TypeOK
  BY DEF Inv
<1> QED
  BY <1>1, Invariance, PTL

\* Every command so far has been acknowledged, or is the one in commandId with a
\* confirmation due, or was overwritten, lost with the connection, or given up by
\* the class's own handler, the cases in which the code leaves it silent.
THEOREM NoCommandSilent == Spec => []NoSilentCommand
<1>1. Inv => NoSilentCommand
  BY DEF Inv, AnswerInv
<1> QED
  BY <1>1, Invariance, PTL

\* 200 is reported for a command exactly when the gateway accepted all of it.
THEOREM ResultsTrue == Spec => []TruthfulResult
<1>1. Inv => TruthfulResult
  BY DEF Inv, ResultInv
<1> QED
  BY <1>1, Invariance, PTL

\* One acknowledgement for a command, or two for one that writes twice.
THEOREM AcksCounted == Spec => []AckCount
<1>1. Inv => AckCount
  <2> SUFFICES ASSUME Inv, ~crossed, id # NoId
               PROVE  Len(acks[id]) <= Writes
    BY DEF AckCount, Writes
  <2> DEFINE n == Len(acks[id])
  <2>1. TypeOK /\ CountInv
    BY DEF Inv
  <2>2. n \in Nat /\ (acks[id] = <<>> <=> n = 0) /\ pending \in Nat
    BY <2>1, TypeFacts
  <2>3. Writes \in Nat /\ 1 <= Writes
    BY DEF Writes
  <2>4. One(ackCode # 0) \in {0, 1}
    BY DEF One
  <2>5. step = "idle" => pending + One(ackCode # 0) + n <= Writes
    BY <2>1 DEF CountInv
  <2>6. step # "idle" => n = 0
    BY <2>1, <2>2 DEF CountInv
  <2> HIDE DEF n
  <2>7. n <= Writes
    BY <2>2, <2>3, <2>4, <2>5, <2>6
  <2> QED
    BY <2>7 DEF n
<1> QED
  BY <1>1, Invariance, PTL

\* The default rate's write acknowledges at most once a command nobody sent.
THEOREM StrayAcksLimited == Spec => []StrayAcksBounded
<1>1. Inv => StrayAcksBounded
  BY DEF Inv, StrayInv
<1> QED
  BY <1>1, Invariance, PTL

\* A command sent as getActuateSpec describes it is not taken for an unknown one
\* and halts the board only if its fields outnumber the parser's tokens.
THEOREM AdvertisedIsUnderstood == Spec => []AdvertisedUnderstood
<1>1. Inv => AdvertisedUnderstood
  BY DEF Inv, KnownInv, HaltInv, AdvertisedUnderstood, Advertised
<1> QED
  BY <1>1, Invariance, PTL

\* No characteristic is read or written against the sensor's lists, but for the
\* LED's state, which can be read by its name.
THEOREM AccessIsRespected == Spec => []AccessRespected
<1>1. Inv => AccessRespected
  BY DEF Inv, AccessInv, Accessible, AccessRespected
<1> QED
  BY <1>1, Invariance, PTL
=============================================================================
