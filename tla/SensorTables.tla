---------------------------- MODULE SensorTables ----------------------------
(***************************************************************************)
(* What the six sensor classes (sensors/) know: the commands each handles, *)
(* the argument fields it reads, the characteristics it may read or write, *)
(* and what it tells the cloud of its commands (getActuateSpec).  The      *)
(* common part is WunderbarSensor's.                                       *)
(***************************************************************************)

\* Two tables in one; where both have an entry the first one counts.
Merged(first, second) ==
  [x \in DOMAIN first \cup DOMAIN second |->
     IF x \in DOMAIN first THEN first[x] ELSE second[x]]

Sensors == {"HTU", "GYRO", "LIGHT", "SOUND", "BRIDGE", "IR"}

None == [x \in {} |-> {}]

-----------------------------------------------------------------------------
(* Commands handled: what is read, or written, for each.                   *)

BaseCommands ==
  [reads  |-> [getBatteryLevel |-> "BATTERY_LEVEL", getManufacturer |-> "MANUFACTURER_NAME",
               getFirmware |-> "FIRMWARE_REVISION", getHardware |-> "HARDWARE_REVISION",
               getBeaconFreq |-> "BEACON_FREQ", getSensorId |-> "ID"],
   writes |-> [blinkLed |-> "LED_STATE"]]

RateAndThreshold ==
  [reads  |-> [getFrequency |-> "FREQUENCY", getThreshold |-> "THRESHOLD"],
   writes |-> [setFrequency |-> "FREQUENCY", setThreshold |-> "THRESHOLD"]]

WithConfig(commands) ==
  [reads  |-> Merged(commands.reads, [getConfig |-> "CONFIG"]),
   writes |-> Merged(commands.writes, [setConfig |-> "CONFIG"])]

HtuCommands    == WithConfig(RateAndThreshold)
GyroCommands   == WithConfig(RateAndThreshold)
LightCommands  == WithConfig(RateAndThreshold)

\* Mutant: the microphone does not know its threshold.
SoundCommandsNoThreshold ==
  [reads |-> [getFrequency |-> "FREQUENCY"], writes |-> [setFrequency |-> "FREQUENCY"]]

SoundCommands  == RateAndThreshold
BridgeCommands == WithConfig([reads |-> None, writes |-> [setState |-> "DATA_W", toggleState |-> "DATA_W"]])
IrCommands     == [reads |-> None, writes |-> [TX |-> "DATA_W"]]

Commands == [HTU |-> HtuCommands, GYRO |-> GyroCommands, LIGHT |-> LightCommands,
             SOUND |-> SoundCommands, BRIDGE |-> BridgeCommands, IR |-> IrCommands]

\* What a command reads or writes, of the class's own or of the common ones.
Targets ==
  [s \in Sensors |-> Merged(Merged(Commands[s].reads, Commands[s].writes),
                           Merged(BaseCommands.reads, BaseCommands.writes))]

-----------------------------------------------------------------------------
(* Fields a command needs in its argument; a command not listed needs none. *)

Ticks == [setFrequency |-> {"ticks"}]

HtuFields ==
  Merged(Ticks, [setConfig |-> {"htuTemp"},
                 setThreshold |-> {"tempSbl", "tempLow", "tempHigh", "humSbl", "humLow", "humHigh"}])

GyroFields ==
  Merged(Ticks, [setConfig |-> {"gyroScale", "accScale"},
                 setThreshold |-> {"gyroSbl", "gyroLow", "gyroHigh", "accSbl", "accLow", "accHigh"}])

LightFields ==
  Merged(Ticks, [setConfig |-> {"rgbcGain", "proxDrive"},
                 setThreshold |-> {"whiteSbl", "whiteLow", "whiteHigh", "proxSbl", "proxLow", "proxHigh"}])

SoundFields == Merged(Ticks, [setThreshold |-> {"sbl", "low", "high"}])

BridgeFields == [setConfig |-> {"baudRate"}]

Fields == [HTU |-> HtuFields, GYRO |-> GyroFields, LIGHT |-> LightFields,
           SOUND |-> SoundFields, BRIDGE |-> BridgeFields, IR |-> None]

\* setState and TX read the value of the command's own name instead, which must
\* be short: an object does not fit.
WantsScalar == {"setState", "TX"}

-----------------------------------------------------------------------------
(* Commands and their arguments as getActuateSpec describes them.          *)

Plain(names) == [name \in names |-> {}]

BaseActuateSpec ==
  Merged(Plain({"getBatteryLevel", "getFirmware", "getHardware", "getManufacturer",
         "getSensorId", "getBeaconFreq", "blinkLed"}),
         [readUUID |-> {"uuid", "uuidType"}, writeUUID |-> {"uuid", "uuidType", "value"}])

HtuActuateSpec ==
  Merged(Plain({"getConfig", "getFrequency", "getThreshold"}),
         [setConfig |-> {"htuTemp"}, setFrequency |-> {"ticks"},
          setThreshold |-> {"tempSbl", "tempLow", "tempHigh", "humSbl", "humLow", "humHigh"}])

GyroActuateSpec ==
  Merged(Plain({"getConfig", "getFrequency", "getThreshold"}),
         [setConfig |-> {"gyroScale", "accScale"}, setFrequency |-> {"ticks"},
          setThreshold |-> {"gyroSbl", "gyroLow", "gyroHigh", "accSbl", "accLow", "accHigh"}])

LightActuateSpec ==
  Merged(Plain({"getConfig", "getFrequency", "getThreshold"}),
         [setConfig |-> {"rgbcGain", "proxDrive"}, setFrequency |-> {"ticks"},
          setThreshold |-> {"whiteSbl", "whiteLow", "whiteHigh", "proxSbl", "proxLow", "proxHigh"}])

SoundActuateSpec ==
  Merged(Plain({"getFrequency", "getThreshold"}),
         [setFrequency |-> {"ticks"}, setThreshold |-> {"sbl", "low", "high"}])

BridgeActuateSpec ==
  Merged(Plain({"getConfig", "toggleState"}), [setState |-> {"state"}, setConfig |-> {"baudRate"}])

IrActuateSpec == [TX |-> {"TX"}]

OwnActuateSpec ==
  [HTU |-> HtuActuateSpec, GYRO |-> GyroActuateSpec, LIGHT |-> LightActuateSpec,
   SOUND |-> SoundActuateSpec, BRIDGE |-> BridgeActuateSpec, IR |-> IrActuateSpec]

ActuateSpecs == [s \in Sensors |-> Merged(OwnActuateSpec[s], BaseActuateSpec)]

ActuateSpec(s) == ActuateSpecs[s]

-----------------------------------------------------------------------------
(* Characteristics and the ways they may be accessed.                      *)

RW == {"READ", "WRITE"}

BaseCharacteristics ==
  [ID |-> {"READ"}, BEACON_FREQ |-> RW, LED_STATE |-> {"WRITE"}, BATTERY_LEVEL |-> {"READ"},
   MANUFACTURER_NAME |-> {"READ"}, HARDWARE_REVISION |-> {"READ"}, FIRMWARE_REVISION |-> {"READ"}]

HtuCharacteristics    == [CONFIG |-> RW, FREQUENCY |-> RW, THRESHOLD |-> RW]
GyroCharacteristics   == [CONFIG |-> RW, FREQUENCY |-> RW, THRESHOLD |-> RW]
LightCharacteristics  == [CONFIG |-> RW, FREQUENCY |-> RW, THRESHOLD |-> RW]
SoundCharacteristics  == [FREQUENCY |-> RW, THRESHOLD |-> RW]
BridgeCharacteristics == [CONFIG |-> RW, DATA_W |-> {"WRITE"}]

Characteristics ==
  [HTU |-> HtuCharacteristics, GYRO |-> GyroCharacteristics, LIGHT |-> LightCharacteristics,
   SOUND |-> SoundCharacteristics, BRIDGE |-> BridgeCharacteristics, IR |-> None]

\* A class's own list first, then the common one.
AllCharacteristics ==
  [s \in Sensors |-> Merged(Characteristics[s], BaseCharacteristics)]

searchCharacteristics(char, mode, list) ==
  IF char \notin DOMAIN list THEN "NOT_FOUND"
  ELSE IF mode \in list[char] THEN "FOUND_ACCESS_OK" ELSE "FOUND_WRONG_ACCESS"

sensorHasCharacteristic(s, char, mode) ==
  searchCharacteristics(char, mode, AllCharacteristics[s])

\* Characteristics that can be called by name, and in which modes.
NamedCharacteristics ==
  [BATTERY_LEVEL |-> {"READ"}, FIRMWARE_REVISION |-> {"READ"}, HARDWARE_REVISION |-> {"READ"},
   ID |-> {"READ"}, MANUFACTURER_NAME |-> {"READ"}, BEACON_FREQ |-> RW, LED_STATE |-> RW]

\* Mutant: any characteristic there is will do.
findUuidAnyMode(s, char, uuidType, mode) ==
  IF char \in DOMAIN AllCharacteristics[s]
  THEN "FOUND_ACCESS_OK" ELSE "NOT_FOUND"

\* By hex or decimal number, by name, or in a way that does not exist.
findUuid(s, char, uuidType, mode) ==
  CASE uuidType = "number" -> sensorHasCharacteristic(s, char, mode)
    [] uuidType = "name"   -> IF searchCharacteristics(char, mode, NamedCharacteristics) = "FOUND_ACCESS_OK"
                              THEN "FOUND_ACCESS_OK" ELSE "FOUND_WRONG_ACCESS"
    [] uuidType = "other"  -> "NOT_FOUND"

=============================================================================
