-------------------------- MODULE OnboardingProofs --------------------------
(***************************************************************************)
(* Theorems about Onboarding: what is stored has been tried, in any number *)
(* of runs of any steps, for all networks, sensors and registrations.      *)
(***************************************************************************)
EXTENDS Onboarding, TLAPS

WifiPlaces  == {"wifi", "connect", "wifiAgree"}
BlePlaces   == {"ble", "onboard", "exclude", "bleAgree"}
CloudPlaces == {"register", "answer", "registerAgree", "mqtt", "mqttAgree"}

-----------------------------------------------------------------------------
(* Inductive invariants.                                                   *)

\* Outside its wizard a completed WiFi step stands for the network joined.
WifiInv ==
  /\ at \notin WifiPlaces \cup {"done"} /\ stepStatus["wifi"] =>
       wifi # None /\ joined = wifi /\ online \in {wifi, None}
  /\ at = "connect" => wifi # None
  /\ at \in CloudPlaces => stepStatus["wifi"]

BleInv ==
  at \notin BlePlaces /\ stepStatus["ble"] => \A s \in BleSensors : ble[s] # "NOT_AVAILABLE"

CloudInv ==
  at \notin CloudPlaces \cup {"halted"} /\ stepStatus["cloud"] => mqtt = tested

FlashInv ==
  flash # None =>
    /\ at = "done"
    /\ flash.wifi = joined
    /\ \A s \in BleSensors : flash.ble[s] # "NOT_AVAILABLE"
    /\ flash.mqtt = tested

\* Nothing in memory is from a registration to come; characters stand behind
\* short credentials when longer ones were copied before.
IssuedInv ==
  /\ mqtt.from \in 0 .. issued \cup {Garbage}
  /\ buffer # None => buffer.from \in 0 .. issued \cup {Garbage}
  /\ at # "halted" => (mqtt.tail # 0 <=> (longer \/ last.length \in {"long", "broken"}))
  /\ at \in {"mqtt", "mqttAgree"} =>
       ((Coherent(mqtt) /\ mqtt.from = issued)
          <=> (last.whole /\ (last.length = "long" \/ (last.length = "short" /\ ~longer))))

Inv == TypeOK /\ WifiInv /\ BleInv /\ CloudInv /\ FlashInv /\ IssuedInv

-----------------------------------------------------------------------------

\* What memcpy leaves behind are credentials again.
LEMMA CopyType ==
  ASSUME mqtt \in Credentials, NEW body \in Bodies, body.length # "broken"
  PROVE  Copy(body) \in Credentials
  BY DEF Copy, Credentials, Bodies

\* An answer taken, numbered like the one just issued or not, leaves types and
\* IssuedInv as they are.
LEMMA TakeKeeps ==
  ASSUME Inv, at = "answer", NEW body \in Bodies, NEW whole \in BOOLEAN,
         issued < MaxRegistrations, issued' = issued + 1,
         TakeCredentials(body, whole),
         buffer' = body,
         whole => body.from = issued + 1,
         ~whole => body.from \in 0 .. issued \cup {Garbage}
  PROVE  /\ mqtt' \in Credentials /\ at' \in {"mqtt", "halted"}
         /\ last' \in [length : {"none", "short", "long", "broken"}, whole : BOOLEAN]
         /\ longer' \in BOOLEAN
         /\ IssuedInv'
<1> USE OnboardingAssumption
<1>0. /\ mqtt \in Credentials /\ issued \in Nat /\ MaxRegistrations \in Nat /\ Garbage \in Nat
      /\ Garbage > issued + 1 /\ longer \in BOOLEAN
      /\ last.length \in {"none", "short", "long", "broken"}
      /\ body.from \in 1 .. Garbage /\ body.length \in {"none", "short", "long", "broken"}
  BY DEF Inv, TypeOK, Garbage, Bodies
<1>1. /\ last' = [length |-> body.length, whole |-> whole]
      /\ longer' = (longer \/ last.length \in {"long", "broken"})
  BY DEF TakeCredentials
<1>2. /\ last' \in [length : {"none", "short", "long", "broken"}, whole : BOOLEAN]
      /\ longer' \in BOOLEAN /\ last'.length = body.length /\ last'.whole = whole
  BY <1>0, <1>1
<1>3. /\ buffer'.from \in 0 .. issued' \cup {Garbage}
      /\ mqtt.from \in 0 .. issued' \cup {Garbage}
      /\ mqtt.from # issued'
  BY <1>0 DEF Inv, IssuedInv
<1>4. mqtt.tail # 0 <=> longer'
  BY <1>1 DEF Inv, IssuedInv
<1>5. CASE body.length # "broken"
  <2>1. mqtt' = Copy(body) /\ at' = "mqtt"
    BY <1>5 DEF TakeCredentials, Goto
  <2>2. mqtt' \in Credentials
    BY <1>0, <1>5, <2>1, CopyType
  <2>3. CASE body.length = "long"
    <3>1. mqtt' = [from |-> body.from, length |-> "long", tail |-> body.from]
      BY <2>1, <2>3 DEF Copy
    <3>2. IssuedInv'
      BY <1>0, <1>1, <1>2, <1>3, <2>1, <2>3, <3>1 DEF IssuedInv, Coherent
    <3> QED
      BY <1>2, <2>1, <2>2, <3>2
  <2>4. CASE body.length = "short"
    <3>1. mqtt' = [from |-> body.from, length |-> "short", tail |-> mqtt.tail]
      BY <2>1, <2>4 DEF Copy
    <3>2. IssuedInv'
      BY <1>0, <1>1, <1>2, <1>3, <1>4, <2>1, <2>4, <3>1 DEF IssuedInv, Coherent
    <3> QED
      BY <1>2, <2>1, <2>2, <3>2
  <2>5. CASE body.length = "none"
    <3>1. mqtt' = mqtt
      BY <2>1, <2>5 DEF Copy
    <3>2. IssuedInv'
      BY <1>0, <1>1, <1>2, <1>3, <1>4, <2>1, <2>5, <3>1 DEF IssuedInv
    <3> QED
      BY <1>2, <2>1, <2>2, <3>2
  <2> QED
    BY <1>0, <1>5, <2>3, <2>4, <2>5
<1>6. CASE body.length = "broken" /\ at' = "mqtt"
  <2>1. mqtt' = [from |-> Garbage, length |-> "long", tail |-> Garbage]
    BY <1>6 DEF TakeCredentials, Copy, Goto
  <2>2. mqtt' \in Credentials
    BY <1>0, <2>1 DEF Credentials
  <2>3. IssuedInv'
    BY <1>0, <1>1, <1>2, <1>3, <1>6, <2>1 DEF IssuedInv, Coherent
  <2> QED
    BY <1>2, <1>6, <2>2, <2>3
<1>7. CASE body.length = "broken" /\ at' # "mqtt"
  <2>1. mqtt' = mqtt /\ at' = "halted"
    BY <1>7 DEF TakeCredentials, Goto
  <2>2. IssuedInv'
    BY <1>0, <1>3, <2>1 DEF IssuedInv
  <2> QED
    BY <1>0, <1>2, <2>1, <2>2
<1> QED
  BY <1>5, <1>6, <1>7

\* A step that touches neither credentials nor answers leaves IssuedInv alone.
LEMMA IssuedStays ==
  ASSUME IssuedInv, UNCHANGED <<mqtt, buffer, issued, answers>>, at # "halted",
         at' \in {"mqtt", "mqttAgree"} => at \in {"mqtt", "mqttAgree"}
  PROVE  IssuedInv'
  BY DEF IssuedInv, answers, Coherent

LEMMA InitInv == Init => Inv
<1> SUFFICES ASSUME Init PROVE Inv
  OBVIOUS
<1>1. NoCredentials \in Credentials
  BY OnboardingAssumption DEF NoCredentials, Credentials, Garbage
<1>2. stepStatus \in [Steps -> BOOLEAN] /\ ble \in [BleSensors -> Availability]
  BY DEF Init, Availability
<1>3. TypeOK
  <2>1. at \in Places /\ wifi \in Networks \cup {None} /\ online \in Networks \cup {None}
        /\ joined \in Networks \cup {None}
    BY DEF Init, Places
  <2>2. mqtt \in Credentials /\ tested \in Credentials
    BY <1>1 DEF Init
  <2>3. flash = None /\ buffer \in Bodies \cup {None}
    BY DEF Init
  <2>4. issued \in 0 .. MaxRegistrations
    BY OnboardingAssumption DEF Init
  <2>5. /\ last \in [length : {"none", "short", "long", "broken"}, whole : BOOLEAN]
        /\ longer \in BOOLEAN
    BY DEF Init
  <2> QED
    BY <1>2, <2>1, <2>2, <2>3, <2>4, <2>5 DEF TypeOK
<1>4. WifiInv /\ BleInv /\ CloudInv /\ FlashInv /\ IssuedInv
  BY DEF Init, WifiInv, BleInv, CloudInv, FlashInv, IssuedInv, Steps, WifiPlaces, BlePlaces,
         CloudPlaces, NoCredentials
<1> QED
  BY <1>3, <1>4 DEF Inv

\* One step per action; the ones that touch the same wizard share their facts.
LEMMA NextInv == Inv /\ [Next]_vars => Inv'
<1> SUFFICES ASSUME Inv, [Next]_vars PROVE Inv'
  OBVIOUS
<1> USE OnboardingAssumption
    DEF Inv, TypeOK, WifiInv, BleInv, CloudInv, FlashInv, Steps, Places,
        WifiPlaces, BlePlaces, CloudPlaces, config, outside, answers, history
<1>1. ASSUME NEW s \in Steps, Select(s) PROVE Inv'
  <2>1. IssuedInv'
    BY <1>1, IssuedStays DEF Select, Selecting, Goto, Finished
  <2>2. TypeOK'
    BY <1>1, <2>1 DEF Select, Selecting, Goto, Finished
  <2>3. WifiInv' /\ BleInv'
    BY <1>1, <2>1 DEF Select, Selecting, Goto, Finished
  <2>4. CloudInv' /\ FlashInv'
    BY <1>1, <2>1 DEF Select, Selecting, Goto, Finished
  <2> QED
    BY <2>1, <2>2, <2>3, <2>4
<1>2. ASSUME NEW n \in Networks, EnterNetwork(n) PROVE Inv'
  <2>1. IssuedInv'
    BY <1>2, IssuedStays DEF EnterNetwork, Goto
  <2> QED
    BY <1>2, <2>1 DEF EnterNetwork, Goto
<1>3. ASSUME NEW ok \in BOOLEAN, Connect(ok) PROVE Inv'
  <2>1. IssuedInv'
    BY <1>3, IssuedStays DEF Connect, Goto, Finished
  <2> QED
    BY <1>3, <2>1 DEF Connect, Goto, Finished
<1>4. ASSUME NEW yes \in BOOLEAN, WifiAgree(yes) PROVE Inv'
  <2>1. IssuedInv'
    BY <1>4, IssuedStays DEF WifiAgree, Goto, Finished
  <2>2. TypeOK'
    BY <1>4, <2>1 DEF WifiAgree, Goto, Finished
  <2>3. WifiInv' /\ BleInv'
    BY <1>4, <2>1 DEF WifiAgree, Goto, Finished
  <2>4. CloudInv' /\ FlashInv'
    BY <1>4, <2>1 DEF WifiAgree, Goto, Finished
  <2> QED
    BY <2>1, <2>2, <2>3, <2>4
<1>5. ASSUME NEW ok \in BOOLEAN, StoreInGateway(ok) PROVE Inv'
  <2>1. IssuedInv'
    BY <1>5, IssuedStays DEF StoreInGateway, Goto
  <2> QED
    BY <1>5, <2>1 DEF StoreInGateway, Goto
<1>6. CASE OnboardSensors
  <2>1. ASSUME NEW found \in SUBSET {s \in BleSensors : ble[s] # "IGNORE"},
               ble' = [s \in BleSensors |-> CASE ble[s] = "IGNORE" -> "IGNORE"
                                              [] s \in found      -> "AVAILABLE"
                                              [] OTHER            -> "NOT_AVAILABLE"]
        PROVE  ble' \in [BleSensors -> Availability]
    BY <2>1 DEF Availability
  <2>2. ble' \in [BleSensors -> Availability]
    BY <1>6, <2>1 DEF OnboardSensors
  <2>3. /\ at = "onboard" /\ UNCHANGED <<wifi, mqtt, buffer, online, issued, joined, tested, last, longer, flash>>
        /\ \/ at' = "select" /\ stepStatus' = [stepStatus EXCEPT !["ble"] = TRUE]
              /\ \A s \in BleSensors : ble'[s] # "NOT_AVAILABLE"
           \/ at' = "exclude" /\ stepStatus' = stepStatus
    BY <1>6 DEF OnboardSensors, Goto, Finished
  <2>4. IssuedInv'
    BY <2>3, IssuedStays
  <2>5. TypeOK'
    BY <2>2, <2>3, <2>4
  <2>6. WifiInv' /\ BleInv'
    BY <2>2, <2>3, <2>4
  <2>7. CloudInv' /\ FlashInv'
    BY <2>2, <2>3, <2>4
  <2> QED
    BY <2>4, <2>5, <2>6, <2>7
<1>7. ASSUME NEW sensors \in SUBSET BleSensors, Exclude(sensors) PROVE Inv'
  <2>1. ble' \in [BleSensors -> Availability]
    BY <1>7 DEF Exclude, Availability
  <2>2. /\ at = "exclude" /\ UNCHANGED <<wifi, mqtt, buffer, online, issued, joined, tested, last, longer, flash>>
        /\ \/ at' = "select" /\ stepStatus' = [stepStatus EXCEPT !["ble"] = TRUE]
              /\ \A s \in BleSensors : ble'[s] # "NOT_AVAILABLE"
           \/ at' = "bleAgree" /\ stepStatus' = stepStatus
    BY <1>7 DEF Exclude, AccountedFor, Goto, Finished
  <2>3. IssuedInv'
    BY <2>2, IssuedStays
  <2>4. TypeOK'
    BY <2>1, <2>2, <2>3
  <2>5. WifiInv' /\ BleInv'
    BY <2>1, <2>2, <2>3
  <2>6. CloudInv' /\ FlashInv'
    BY <2>1, <2>2, <2>3
  <2> QED
    BY <2>3, <2>4, <2>5, <2>6
<1>8. ASSUME NEW yes \in BOOLEAN, BleAgree(yes) PROVE Inv'
  <2>1. IssuedInv'
    BY <1>8, IssuedStays DEF BleAgree, Goto, Finished
  <2>2. TypeOK'
    BY <1>8, <2>1 DEF BleAgree, Goto, Finished
  <2>3. WifiInv' /\ BleInv'
    BY <1>8, <2>1 DEF BleAgree, Goto, Finished
  <2>4. CloudInv' /\ FlashInv'
    BY <1>8, <2>1 DEF BleAgree, Goto, Finished
  <2> QED
    BY <2>1, <2>2, <2>3, <2>4
<1>9. ASSUME NEW ok \in BOOLEAN, SendRequest(ok) PROVE Inv'
  <2>1. IssuedInv'
    BY <1>9, IssuedStays DEF SendRequest, Goto
  <2> QED
    BY <1>9, <2>1 DEF SendRequest, Goto
<1>10. ASSUME NEW registered \in BOOLEAN, NoAnswer(registered) PROVE Inv'
  <2>1. IssuedInv' /\ issued' \in 0 .. MaxRegistrations
    BY <1>10 DEF NoAnswer, Goto, IssuedInv
  <2> QED
    BY <1>10, <2>1 DEF NoAnswer, Goto
<1>11. CASE BadAnswer
  <2>1. /\ buffer' \in {buffer, None} \/ (buffer'.from = Garbage /\ buffer' \in Bodies)
        /\ issued' \in issued .. MaxRegistrations
    BY <1>11 DEF BadAnswer, Bodies, Garbage
  <2>2. IssuedInv'
    BY <1>11, <2>1 DEF BadAnswer, Goto, IssuedInv
  <2> QED
    BY <1>11, <2>1, <2>2 DEF BadAnswer, Goto
<1>12. ASSUME NEW length \in {"none", "short", "long", "broken"}, Answer(length) PROVE Inv'
  <2> DEFINE body == [from |-> issued + 1, length |-> length]
  <2>1. /\ body \in Bodies /\ issued' = issued + 1 /\ issued' \in 0 .. MaxRegistrations
        /\ issued < MaxRegistrations /\ at = "answer" /\ buffer' = body
    BY <1>12 DEF Answer, Bodies, Garbage
  <2>2. TakeCredentials(body, TRUE)
    BY <1>12 DEF Answer
  <2>3. /\ mqtt' \in Credentials /\ at' \in {"mqtt", "halted"}
        /\ last' \in [length : {"none", "short", "long", "broken"}, whole : BOOLEAN]
        /\ longer' \in BOOLEAN /\ IssuedInv'
    BY <2>1, <2>2, TakeKeeps
  <2>4. UNCHANGED <<stepStatus, flash, wifi, ble, online, joined, tested>>
    BY <2>2 DEF TakeCredentials, Goto
  <2>5. TypeOK'
    BY <2>1, <2>3, <2>4
  <2>6. WifiInv' /\ BleInv' /\ CloudInv' /\ FlashInv'
    BY <2>1, <2>3, <2>4
  <2> QED
    BY <2>3, <2>5, <2>6
<1>13. CASE HeaderOnly
  <2>0. /\ issued' = issued + 1 /\ issued' \in 0 .. MaxRegistrations
        /\ issued < MaxRegistrations /\ at = "answer" /\ buffer' = buffer
    BY <1>13 DEF HeaderOnly
  <2>1. CASE buffer = None
    <3>1. UNCHANGED <<stepStatus, flash, config, online, history>> /\ at' = "registerAgree"
      BY <1>13, <2>1 DEF HeaderOnly, Goto
    <3>2. IssuedInv'
      BY <2>0, <2>1, <3>1 DEF IssuedInv
    <3> QED
      BY <2>0, <2>1, <3>1, <3>2
  <2>2. CASE buffer # None
    <3>1. buffer \in Bodies /\ buffer.from \in 0 .. issued \cup {Garbage}
      BY <2>2 DEF IssuedInv
    <3>2. TakeCredentials(buffer, FALSE)
      BY <1>13, <2>2 DEF HeaderOnly
    <3>3. /\ mqtt' \in Credentials /\ at' \in {"mqtt", "halted"}
          /\ last' \in [length : {"none", "short", "long", "broken"}, whole : BOOLEAN]
          /\ longer' \in BOOLEAN /\ IssuedInv'
      BY <2>0, <3>1, <3>2, TakeKeeps
    <3>4. UNCHANGED <<stepStatus, flash, wifi, ble, online, joined, tested>>
      BY <3>2 DEF TakeCredentials, Goto
    <3>5. TypeOK'
      BY <2>0, <3>1, <3>3, <3>4
    <3>6. WifiInv' /\ BleInv' /\ CloudInv' /\ FlashInv'
      BY <2>0, <3>3, <3>4
    <3> QED
      BY <3>3, <3>5, <3>6
  <2> QED
    BY <2>1, <2>2
<1>14. ASSUME NEW yes \in BOOLEAN, RegisterAgree(yes) PROVE Inv'
  <2>1. IssuedInv'
    BY <1>14, IssuedStays DEF RegisterAgree, Goto, Finished
  <2> QED
    BY <1>14, <2>1 DEF RegisterAgree, Goto, Finished
<1>15. ASSUME NEW ok \in BOOLEAN, TestMqtt(ok) PROVE Inv'
  <2>1. IssuedInv'
    BY <1>15, IssuedStays DEF TestMqtt, Goto, Finished
  <2> QED
    BY <1>15, <2>1 DEF TestMqtt, Goto, Finished
<1>16. ASSUME NEW yes \in BOOLEAN, MqttAgree(yes) PROVE Inv'
  <2>1. IssuedInv'
    BY <1>16, IssuedStays DEF MqttAgree, Goto, Finished
  <2> QED
    BY <1>16, <2>1 DEF MqttAgree, Goto, Finished
<1>17. CASE Store
  <2>1. IssuedInv'
    BY <1>17, IssuedStays DEF Store
  <2> QED
    BY <1>17, <2>1 DEF Store
<1>18. CASE LoseNetwork
  <2>1. IssuedInv'
    BY <1>18 DEF LoseNetwork, IssuedInv, Coherent
  <2> QED
    BY <1>18, <2>1 DEF LoseNetwork
<1>19. CASE UNCHANGED vars
  <2>1. IssuedInv'
    BY <1>19 DEF vars, IssuedInv, Coherent
  <2> QED
    BY <1>19, <2>1 DEF vars
<1> QED
  BY <1>1, <1>2, <1>3, <1>4, <1>5, <1>6, <1>7, <1>8, <1>9, <1>10, <1>11, <1>12, <1>13, <1>14,
     <1>15, <1>16, <1>17, <1>18, <1>19
  DEF Next

LEMMA Invariance == Spec => []Inv
  BY InitInv, NextInv, PTL DEF Spec

-----------------------------------------------------------------------------
(* Theorems.                                                               *)

\* The wizards keep their types, and store only a configuration that has a
\* network in it (onboardloop.cpp:58-65).
THEOREM TypeCorrect == Spec => []TypeOK
  BY Invariance, PTL DEF Inv

\* What onboarding stores has been tried (onboardloop.cpp:58-65): the network
\* joined last, the sensors found or given up, and the very credentials that
\* brought a CONNACK, whichever its return code (mqttprotocol.cpp:178-187).
THEOREM StoredTested == Spec => []StoredConfigurationTested
<1>1. Inv => StoredConfigurationTested
  BY DEF Inv, FlashInv, WifiInv, WifiPlaces, StoredConfigurationTested
<1> QED
  BY <1>1, Invariance, PTL

\* While the network may be lost at any time, the cloud wizard runs only after the
\* one that will be stored was joined, and in no other (onboardloop.cpp:131).
THEOREM CloudJoined == Spec => []CloudAfterWifi
<1>1. Inv => CloudAfterWifi
  BY DEF Inv, WifiInv, WifiPlaces, CloudPlaces, CloudAfterWifi
<1> QED
  BY <1>1, Invariance, PTL

\* When the credentials that are tested are those of the last registration, and
\* when they are a mixture or an earlier answer's: the one depends on how the last
\* answer was read and on the lengths of those before (cloudwizard.cpp:187-212).
THEOREM TestedIssued == Spec => []TestedAsIssued
<1>1. Inv => TestedAsIssued
  BY DEF Inv, IssuedInv, TestedAsIssued
<1> QED
  BY <1>1, Invariance, PTL
=============================================================================
