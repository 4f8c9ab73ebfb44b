----------------------------- MODULE Onboarding -----------------------------
(***************************************************************************)
(* The onboarding wizards (onboardloop.cpp, wifiwizard.cpp, blewizard.cpp, *)
(* cloudwizard.cpp).  The user chooses a step, any step and any number of  *)
(* times; each wizard works on the one configuration in memory and asks    *)
(* whether to try again when something fails; when all steps are complete  *)
(* the configuration is stored.  Names and passwords stand for what        *)
(* ReadField leaves in the buffers.  The registration is one HTTPS request *)
(* (httpsrequest.cpp, httpparser.cpp, jsondecode.cpp), answered into a     *)
(* static buffer that nobody clears and that is read once.                 *)
(***************************************************************************)
EXTENDS Naturals

CONSTANTS
  Networks,         \* SSIDs, each with its security and password
  BleSensors,
  MaxRegistrations, \* bound: answers of the registration server
  None

ASSUME OnboardingAssumption == None \notin Networks /\ MaxRegistrations \in Nat

Steps == {"wifi", "ble", "cloud"}

Availability == {"NOT_CHECKED", "AVAILABLE", "NOT_AVAILABLE", "IGNORE"}

\* Registrations are numbered; what is found in memory that was never an answer
\* has the number behind the last.
Garbage == MaxRegistrations + 1

\* Credentials in the buffers of mqttConfig, which are copied without their
\* end: the registration the first characters are from and how many it
\* brought, and the registration the characters behind a short one are from;
\* zero for none.
Credentials ==
  [from : 0 .. Garbage, length : {"none", "short", "long"}, tail : 0 .. Garbage]

NoCredentials == [from |-> 0, length |-> "none", tail |-> 0]

\* The body of an answer: the registration it belongs to and the length of the
\* credentials in it, "none" if there are none in it and "broken" if the parser
\* gives it up.
Bodies == [from : 1 .. Garbage, length : {"none", "short", "long", "broken"}]

\* They read as the registration server sent them.
Coherent(c) ==
  CASE c.length = "long"  -> c.tail = c.from
    [] c.length = "short" -> c.tail = 0
    [] c.length = "none"  -> FALSE

VARIABLES
  stepStatus,
  at,           \* where onboard() or the wizard it called is
  wifi,         \* config.wifi
  ble,          \* config.ble.sensorAvailability
  mqtt,         \* config.proto
  buffer,       \* the body that stands in the static buffer, or None
  flash,        \* the configuration stored, or None
  online,       \* external: the network the WiFi module is in, or None
  issued,       \* external: registrations answered so far
  joined,       \* history: the network joined last, or None
  tested,       \* history: the credentials tried last that brought a CONNACK
  last,         \* history: the answer used last, and whether it was read as a whole
  longer        \* history: one used before it had long credentials

config  == <<wifi, ble, mqtt>>
outside == <<online, issued>>
answers == <<last, longer>>
history == <<joined, tested, answers>>
vars    == <<stepStatus, at, config, buffer, flash, outside, history>>

Places == {"select", "wifi", "connect", "wifiAgree", "ble", "onboard", "exclude", "bleAgree",
           "register", "answer", "registerAgree", "mqtt", "mqttAgree", "done", "halted"}

TypeOK ==
  /\ stepStatus \in [Steps -> BOOLEAN]
  /\ at \in Places
  /\ wifi \in Networks \cup {None}
  /\ ble \in [BleSensors -> Availability]
  /\ mqtt \in Credentials /\ tested \in Credentials
  /\ flash = None \/ flash \in [wifi : Networks, ble : [BleSensors -> Availability], mqtt : Credentials]
  /\ online \in Networks \cup {None} /\ joined \in Networks \cup {None}
  /\ issued \in 0 .. MaxRegistrations
  /\ buffer \in Bodies \cup {None}
  /\ last \in [length : {"none", "short", "long", "broken"}, whole : BOOLEAN]
  /\ longer \in BOOLEAN

Init ==
  /\ stepStatus = [s \in Steps |-> FALSE]
  /\ at = "select"
  /\ wifi = None
  /\ ble = [s \in BleSensors |-> "NOT_CHECKED"]
  /\ mqtt = NoCredentials
  /\ buffer = None /\ flash = None
  /\ online = None /\ issued = 0
  /\ joined = None /\ tested = NoCredentials
  /\ last = [length |-> "none", whole |-> FALSE] /\ longer = FALSE

Goto(place) == at' = place /\ UNCHANGED <<stepStatus, flash>>

\* Mutant: a completed step stays completed.
FinishedKept(step, ok) ==
  /\ stepStatus' = [stepStatus EXCEPT ![step] = @ \/ ok]
  /\ at' = "select"
  /\ UNCHANGED flash

\* A wizard returns; its result replaces that of its last run.
Finished(step, ok) ==
  /\ stepStatus' = [stepStatus EXCEPT ![step] = ok]
  /\ at' = "select"
  /\ UNCHANGED flash

-----------------------------------------------------------------------------

Selecting == at = "select" /\ \E s \in Steps : ~stepStatus[s]

\* Mutant: the cloud step does not ask for WiFi.
SelectAny(step) ==
  /\ Selecting
  /\ Goto(IF step = "cloud" THEN "register" ELSE step)
  /\ UNCHANGED <<config, buffer, outside, history>>

\* selectStep; cloudStep fails at once before WiFi is set up.
Select(step) ==
  /\ Selecting
  /\ IF step = "cloud" /\ ~stepStatus["wifi"] THEN Finished("cloud", FALSE)
     ELSE Goto(IF step = "cloud" THEN "register" ELSE step)
  /\ UNCHANGED <<config, buffer, outside, history>>

-----------------------------------------------------------------------------
(* wifiWizard                                                              *)

EnterNetwork(n) ==
  /\ at = "wifi"
  /\ wifi' = n
  /\ Goto("connect")
  /\ UNCHANGED <<ble, mqtt, buffer, outside, history>>

Connect(ok) ==
  /\ at = "connect"
  /\ online' = IF ok THEN wifi ELSE None
  /\ joined' = IF ok THEN wifi ELSE joined
  /\ IF ok THEN Finished("wifi", TRUE) ELSE Goto("wifiAgree")
  /\ UNCHANGED <<config, buffer, issued, tested, answers>>

\* The network is lost, whatever the wizards do.
LoseNetwork ==
  /\ online # None /\ online' = None
  /\ UNCHANGED <<stepStatus, at, config, buffer, flash, issued, history>>

WifiAgree(yes) ==
  /\ at = "wifiAgree"
  /\ IF yes THEN Goto("wifi") ELSE Finished("wifi", FALSE)
  /\ UNCHANGED <<config, buffer, outside, history>>

-----------------------------------------------------------------------------
(* bleWizard                                                               *)

StoreInGateway(ok) ==
  /\ at = "ble"
  /\ Goto(IF ok THEN "onboard" ELSE "bleAgree")
  /\ UNCHANGED <<config, buffer, outside, history>>

AccountedFor == \A s \in BleSensors : ble[s] # "NOT_AVAILABLE"

\* The gateway looks for the sensors not ignored and finds all, or some; or it
\* fails on its own account.
OnboardSensors ==
  /\ at = "onboard"
  /\ \/ \E found \in SUBSET {s \in BleSensors : ble[s] # "IGNORE"} :
          /\ ble' = [s \in BleSensors |-> CASE ble[s] = "IGNORE" -> "IGNORE"
                                             [] s \in found      -> "AVAILABLE"
                                             [] OTHER            -> "NOT_AVAILABLE"]
          /\ IF \A s \in BleSensors : ble'[s] # "NOT_AVAILABLE" THEN Finished("ble", TRUE)
             ELSE Goto("exclude")
     \/ UNCHANGED ble /\ Goto("exclude")
  /\ UNCHANGED <<wifi, mqtt, buffer, outside, history>>

\* The user is asked which of the missing sensors to do without.  When all are
\* accounted for the step is complete; "Try again?" is asked then as well, and
\* both answers end the wizard.
Exclude(sensors) ==
  /\ at = "exclude"
  /\ sensors \subseteq {s \in BleSensors : ble[s] = "NOT_AVAILABLE"}
  /\ ble' = [s \in BleSensors |-> IF s \in sensors THEN "IGNORE" ELSE ble[s]]
  /\ IF AccountedFor' THEN Finished("ble", TRUE) ELSE Goto("bleAgree")
  /\ UNCHANGED <<wifi, mqtt, buffer, outside, history>>

BleAgree(yes) ==
  /\ at = "bleAgree"
  /\ IF yes THEN Goto("ble") ELSE Finished("ble", FALSE)
  /\ UNCHANGED <<config, buffer, outside, history>>

-----------------------------------------------------------------------------
(* cloudWizard                                                             *)

\* The connection or a part of the request fails, or all of it is sent.
SendRequest(ok) ==
  /\ at = "register"
  /\ ok => online # None
  /\ Goto(IF ok THEN "answer" ELSE "registerAgree")
  /\ UNCHANGED <<config, buffer, outside, history>>

\* No answer in time, though the server may have registered the board.
NoAnswer(registered) ==
  /\ at = "answer"
  /\ registered => issued < MaxRegistrations
  /\ issued' = IF registered THEN issued + 1 ELSE issued
  /\ Goto("registerAgree")
  /\ UNCHANGED <<config, buffer, online, history>>

\* An error status, no HTTP, or nothing but blanks for a body.  Its text, or what
\* was behind it, may be taken for a body later.
BadAnswer ==
  /\ at = "answer" /\ online # None
  /\ issued' \in {issued, issued + 1} /\ issued' <= MaxRegistrations
  /\ buffer' \in {buffer, None} \cup [from : {Garbage}, length : {"none", "broken"}]
  /\ Goto("registerAgree")
  /\ UNCHANGED <<config, online, history>>

\* Mutant: the first characters of the last registration stay.
CopyBehind(body) ==
  [mqtt EXCEPT !.length = body.length, !.tail = body.from]

\* memcpy of as many characters as the answer has.
Copy(body) ==
  CASE body.length = "long"  -> [from |-> body.from, length |-> "long", tail |-> body.from]
    [] body.length = "short" -> [from |-> body.from, length |-> "short", tail |-> mqtt.tail]
    [] body.length = "none"  -> mqtt

\* Any text that is not blank counts as JSON, whether it has the fields or not:
\* the parser's error is negative in size_t.  In a text it gave up the fields are
\* looked for behind the tokens, until memory ends or something is found there.
TakeCredentials(body, whole) ==
  /\ \/ /\ body.length # "broken"
        /\ mqtt' = Copy(body) /\ Goto("mqtt")
     \/ /\ body.length = "broken"
        /\ mqtt' = Copy([from |-> Garbage, length |-> "long"]) /\ Goto("mqtt")
     \/ /\ body.length = "broken"
        /\ UNCHANGED mqtt /\ Goto("halted")
  /\ last' = [length |-> body.length, whole |-> whole]
  /\ longer' = (longer \/ last.length \in {"long", "broken"})
  /\ UNCHANGED <<wifi, ble, online, joined, tested>>

Answer(length) ==
  /\ at = "answer" /\ online # None /\ issued < MaxRegistrations
  /\ issued' = issued + 1
  /\ buffer' = [from |-> issued + 1, length |-> length]
  /\ TakeCredentials(buffer', TRUE)

\* One read brings the header of the answer only.  Its body is what is behind
\* it: nothing the first time, later that of an earlier answer.
HeaderOnly ==
  /\ at = "answer" /\ online # None /\ issued < MaxRegistrations
  /\ issued' = issued + 1
  /\ UNCHANGED buffer
  /\ IF buffer = None THEN Goto("registerAgree") /\ UNCHANGED <<config, online, history>>
     ELSE TakeCredentials(buffer, FALSE)

RegisterAgree(yes) ==
  /\ at = "registerAgree"
  /\ IF yes THEN Goto("register") ELSE Finished("cloud", FALSE)
  /\ UNCHANGED <<config, buffer, outside, history>>

\* Any CONNACK counts as a connection, a refusal too.
TestMqtt(ok) ==
  /\ at = "mqtt"
  /\ ok => online # None
  /\ tested' = IF ok THEN mqtt ELSE tested
  /\ IF ok THEN Finished("cloud", TRUE) ELSE Goto("mqttAgree")
  /\ UNCHANGED <<config, buffer, outside, joined, answers>>

MqttAgree(yes) ==
  /\ at = "mqttAgree"
  /\ IF yes THEN Goto("mqtt") ELSE Finished("cloud", FALSE)
  /\ UNCHANGED <<config, buffer, outside, history>>

-----------------------------------------------------------------------------

\* Mutant: one complete step is enough.
StoreAfterAny ==
  /\ at = "select" /\ \E s \in Steps : stepStatus[s]
  /\ flash' = [wifi |-> wifi, ble |-> ble, mqtt |-> mqtt]
  /\ online' = None
  /\ at' = "done"
  /\ UNCHANGED <<stepStatus, config, buffer, issued, history>>

\* storeConfig and cleanUp.
Store ==
  /\ at = "select" /\ \A s \in Steps : stepStatus[s]
  /\ flash' = [wifi |-> wifi, ble |-> ble, mqtt |-> mqtt]
  /\ online' = None
  /\ at' = "done"
  /\ UNCHANGED <<stepStatus, config, buffer, issued, history>>

Next ==
  \/ \E s \in Steps : Select(s)
  \/ \E n \in Networks : EnterNetwork(n)
  \/ LoseNetwork \/ OnboardSensors
  \/ \E sensors \in SUBSET BleSensors : Exclude(sensors)
  \/ BadAnswer \/ HeaderOnly
  \/ \E length \in {"none", "short", "long", "broken"} : Answer(length)
  \/ \E ok \in BOOLEAN :
       \/ Connect(ok) \/ StoreInGateway(ok) \/ SendRequest(ok) \/ NoAnswer(ok) \/ TestMqtt(ok)
       \/ WifiAgree(ok) \/ BleAgree(ok) \/ RegisterAgree(ok) \/ MqttAgree(ok)
  \/ Store

Spec == Init /\ [][Next]_vars

-----------------------------------------------------------------------------
(* Properties.                                                             *)

\* What is stored has been tried as a whole, however often steps were repeated
\* and failed before: the network was joined with it, every missing sensor was
\* given up by the user, and these very credentials brought a CONNACK (be it a
\* refusal, mqttprotocol.cpp:178-187).
StoredConfigurationTested ==
  flash # None =>
    /\ flash.wifi = joined
    /\ \A s \in BleSensors : flash.ble[s] # "NOT_AVAILABLE"
    /\ flash.mqtt = tested

\* The cloud is contacted after the network that will be stored was joined, and
\* never in another one; the board may have lost it since (onboardloop.cpp:131).
CloudAfterWifi ==
  at \in {"register", "answer", "registerAgree", "mqtt", "mqttAgree"} =>
    wifi # None /\ joined = wifi /\ online \in {wifi, None}

\* The credentials tested are of the last registration, as it was issued, if its
\* answer was read as a whole with the credentials in it, and these are long or
\* no answer used before had long ones; and in no other case.
TestedAsIssued ==
  at = "mqtt" =>
    ((Coherent(mqtt) /\ mqtt.from = issued)
       <=> (last.whole /\ (last.length = "long" \/ (last.length = "short" /\ ~longer))))
=============================================================================
