---------------------------- MODULE FlashBootProofs ----------------------------
(***************************************************************************)
(* What holds of the flash for every set of configurations, every number   *)
(* of write units and every moment at which the power fails.               *)
(***************************************************************************)
EXTENDS FlashBoot, TLAPS

LEMMA WritesTyped ==
  /\ \A v \in Headers : WriteHeader(v) \in Seq(Write) /\ Len(WriteHeader(v)) = 1
  /\ \A f \in [Units -> Configs \cup {Foreign, Erased}] :
       WriteConfig(f) \in Seq(Write) /\ Len(WriteConfig(f)) = Chunks
<1> USE FlashAssumption DEF Write, Units
<1>1. \A v \in Headers : WriteHeader(v) \in Seq(Write) /\ Len(WriteHeader(v)) = 1
  BY DEF WriteHeader
<1>2. ASSUME NEW f \in [Units -> Configs \cup {Foreign, Erased}]
      PROVE  WriteConfig(f) \in Seq(Write) /\ Len(WriteConfig(f)) = Chunks
  <2>1. WriteConfig(f) \in [1 .. Chunks -> Write]
    BY DEF WriteConfig
  <2> QED
    BY <2>1
<1> QED
  BY <1>1, <1>2

LEMMA ProgramTyped ==
  ASSUME TypeOK, pending # <<>>,
         NEW v, v = Head(pending).value \/ v = Foreign,
         Program(v)
  PROVE  /\ header' \in Headers \cup {Foreign, Erased}
         /\ config' \in [Units -> Configs \cup {Foreign, Erased}]
<1>1. Head(pending) \in Write
  BY DEF TypeOK
<1>2. CASE Head(pending).unit = 0
  BY <1>1, <1>2, FlashAssumption DEF TypeOK, Program, Write, Units
<1>3. CASE Head(pending).unit # 0
  BY <1>1, <1>3, FlashAssumption DEF TypeOK, Program, Write, Units
<1> QED
  BY <1>2, <1>3

LEMMA TypeStep ==
  ASSUME TypeOK, [Next]_vars
  PROVE  TypeOK'
<1>1. CASE isOnboarded \/ choose \/ Unlock \/ RunLoopEnds \/ clearFlash
  BY <1>1 DEF TypeOK, isOnboarded, choose, Unlock, RunLoopEnds, clearFlash, flash
<1>2. CASE reset
  <2>1. pending' \in Seq(Write)
    BY <1>2, WritesTyped DEF reset, EraseAndProgram, Headers
  <2> QED
    BY <1>2, <2>1 DEF TypeOK, reset, EraseAndProgram
<1>3. ASSUME NEW c \in Configs, store(c)
      PROVE  TypeOK'
  <2>1. [u \in Units |-> c] \in [Units -> Configs \cup {Foreign, Erased}]
    OBVIOUS
  <2>2. pending' \in Seq(Write)
    BY <1>3, <2>1, WritesTyped DEF store, EraseAndProgram, Headers
  <2> QED
    BY <1>3, <2>2 DEF TypeOK, store, EraseAndProgram
<1>4. CASE ProgramUnit
  <2>1. pending' \in Seq(Write)
    BY <1>4 DEF TypeOK, ProgramUnit
  <2> QED
    BY <1>4, <2>1, ProgramTyped DEF TypeOK, ProgramUnit
<1>5. CASE resetHeader
  <2>1. pending' \in Seq(Write)
    BY <1>5, WritesTyped DEF TypeOK, resetHeader, EraseAndProgram, Headers
  <2> QED
    BY <1>5, <2>1 DEF TypeOK, resetHeader, EraseAndProgram
<1>6. CASE SystemReset
  BY <1>6 DEF TypeOK, SystemReset, Restarted, flash
<1>7. CASE PowerFails
  <2>1. header' \in Headers \cup {Foreign, Erased}
        /\ config' \in [Units -> Configs \cup {Foreign, Erased}]
    BY <1>7, ProgramTyped DEF TypeOK, PowerFails, flash
  <2>2. torn' \in BOOLEAN
    BY <1>7, Zenon DEF PowerFails
  <2>3. /\ at' = "isOnboarded" /\ clearing' = FALSE
        /\ mutex' = "free" /\ pending' \in Seq(Write)
        /\ cleared' \in BOOLEAN
    BY <1>7 DEF TypeOK, PowerFails, Restarted
  <2> QED
    BY <2>1, <2>2, <2>3 DEF TypeOK
<1>8. CASE UNCHANGED vars
  BY <1>8 DEF TypeOK, vars, flash
<1> QED
  BY <1>1, <1>2, <1>3, <1>4, <1>5, <1>6, <1>7, <1>8 DEF Next

LEMMA TypeInit ==
  ASSUME Init
  PROVE  TypeOK
<1>1. config \in [Units -> Configs \cup {Foreign, Erased}]
  BY DEF Init
<1>2. pending \in Seq(Write)
  BY DEF Init
<1> QED
  BY <1>1, <1>2 DEF Init, TypeOK

\* The flash holds only what the program or the factory put there.
THEOREM TypeCorrect == Spec => []TypeOK
<1>1. TypeOK /\ [Next]_vars => TypeOK'
  BY TypeStep
<1> QED
  BY <1>1, TypeInit, PTL DEF Spec

-----------------------------------------------------------------------------
(* Who holds the mutex, and what a cleared board contains.                 *)

MutexInv ==
  /\ mutex = "free" => pending = <<>>
  /\ mutex = "main" => at \in {"reset", "store"}
  /\ mutex = "button" => clearing

\* The marker of an onboarded board is to be written.
OnboardedPending ==
  \E i \in 1 .. Len(pending) : pending[i].unit = 0 /\ pending[i].value = "ONBOARDED_CONFIGURATION"

OnboardedAhead == header = "ONBOARDED_CONFIGURATION" \/ OnboardedPending

ClearedInv ==
  /\ cleared => ~OnboardedAhead
  /\ cleared /\ at = "running" => clearing

LEMMA MutexStep ==
  ASSUME MutexInv, [Next]_vars
  PROVE  MutexInv'
BY DEF MutexInv, Next, vars, flash, isOnboarded, reset, choose, store, Unlock, RunLoopEnds,
       ProgramUnit, clearFlash, resetHeader, SystemReset, PowerFails, Restarted,
       EraseAndProgram, MainMayRun

LEMMA ConcatWrites ==
  ASSUME NEW s \in Seq(Write), NEW t \in Seq(Write)
  PROVE  /\ Len(s \o t) = Len(s) + Len(t)
         /\ \A i \in 1 .. Len(s \o t) :
              (s \o t)[i] = IF i <= Len(s) THEN s[i] ELSE t[i - Len(s)]
OBVIOUS

\* The first unit written carries the new marker, and no other unit does.
LEMMA MarkerOnly ==
  ASSUME NEW v \in Headers, NEW f \in [Units -> Configs \cup {Foreign, Erased}]
  PROVE  /\ \A i \in 1 .. Len(WriteHeader(v)) : WriteHeader(v)[i].value = v
         /\ \A i \in 1 .. Len(WriteHeader(v) \o WriteConfig(f)) :
              LET w == (WriteHeader(v) \o WriteConfig(f))[i]
              IN  w = IF i = 1 THEN [unit |-> 0, value |-> v]
                               ELSE [unit |-> i - 1, value |-> f[i - 1]]
         /\ Len(WriteHeader(v) \o WriteConfig(f)) = 1 + Chunks
<1> DEFINE s == WriteHeader(v)
           t == WriteConfig(f)
<1>1. /\ s \in Seq(Write) /\ Len(s) = 1
      /\ t \in Seq(Write) /\ Len(t) = Chunks
  BY WritesTyped
<1>2. s[1] = [unit |-> 0, value |-> v]
  BY DEF WriteHeader
<1>3. \A i \in 1 .. Chunks : t[i] = [unit |-> i, value |-> f[i]]
  BY DEF WriteConfig, Units
<1> HIDE DEF s, t
<1>4. /\ Len(s \o t) = 1 + Chunks
      /\ \A i \in 1 .. Len(s \o t) : (s \o t)[i] = IF i <= 1 THEN s[i] ELSE t[i - 1]
  BY <1>1, ConcatWrites
<1>5. \A i \in 1 .. Len(s) : s[i].value = v
  BY <1>1, <1>2
<1>6. \A i \in 1 .. 1 + Chunks :
        (s \o t)[i] = IF i = 1 THEN [unit |-> 0, value |-> v]
                                ELSE [unit |-> i - 1, value |-> f[i - 1]]
  BY <1>2, <1>3, <1>4, FlashAssumption
<1> QED
  BY <1>4, <1>5, <1>6 DEF s, t

\* Erasing leaves nothing ahead but what is to be programmed.
LEMMA AheadAfterErase ==
  ASSUME NEW who, NEW v, v # "ONBOARDED_CONFIGURATION", NEW writes,
         \A i \in 1 .. Len(writes) : writes[i].unit = 0 => writes[i].value = v,
         EraseAndProgram(who, writes)
  PROVE  ~OnboardedAhead'
BY FlashAssumption DEF EraseAndProgram, Headers, OnboardedAhead, OnboardedPending

\* Programming a unit, whole or not, brings no marker that was not ahead.
LEMMA AheadAfterProgram ==
  ASSUME TypeOK, pending # <<>>,
         NEW v, v = Head(pending).value \/ v = Foreign,
         Program(v), pending' = Tail(pending) \/ pending' = <<>>,
         OnboardedAhead'
  PROVE  OnboardedAhead
<1>1. pending \in Seq(Write) /\ Len(pending) \in Nat \ {0}
  BY DEF TypeOK
<1>2. CASE OnboardedPending'
  BY <1>1, <1>2 DEF OnboardedPending, OnboardedAhead
<1>3. CASE header' = "ONBOARDED_CONFIGURATION" /\ header # header'
  <2>1. Head(pending).unit = 0 /\ Head(pending).value = "ONBOARDED_CONFIGURATION"
    BY <1>3, FlashAssumption DEF Program, Headers
  <2> QED
    BY <1>1, <2>1 DEF OnboardedAhead, OnboardedPending
<1> QED
  BY <1>2, <1>3 DEF OnboardedAhead

\* Clearing writes the old configuration back behind a marker that says default.
LEMMA ResetHeaderDefault ==
  ASSUME TypeOK, resetHeader
  PROVE  ~OnboardedAhead'
<1> DEFINE writes == WriteHeader("DEFAULT_CONFIGURATION") \o WriteConfig(config)
<1>1. ASSUME NEW i \in 1 .. Len(writes)
      PROVE  writes[i].unit = 0 => writes[i].value = "DEFAULT_CONFIGURATION"
  <2>1. /\ Len(writes) = 1 + Chunks
        /\ writes[i] = IF i = 1 THEN [unit |-> 0, value |-> "DEFAULT_CONFIGURATION"]
                                ELSE [unit |-> i - 1, value |-> config[i - 1]]
    BY MarkerOnly DEF TypeOK, Headers
  <2> QED
    BY <2>1, FlashAssumption
<1> QED
  BY <1>1, AheadAfterErase DEF resetHeader

LEMMA AheadAfterFailure ==
  ASSUME TypeOK, PowerFails, OnboardedAhead'
  PROVE  OnboardedAhead
<1>1. CASE UNCHANGED flash
  BY <1>1 DEF PowerFails, Restarted, flash, OnboardedAhead, OnboardedPending
<1>2. CASE pending # <<>> /\ Program(Foreign)
  BY <1>2, AheadAfterProgram DEF PowerFails, Restarted
<1> QED
  BY <1>1, <1>2 DEF PowerFails

LEMMA ClearedStep ==
  ASSUME TypeOK, ClearedInv, [Next]_vars
  PROVE  ClearedInv'
<1> USE DEF ClearedInv
<1>1. CASE isOnboarded \/ Unlock \/ RunLoopEnds \/ clearFlash
  BY <1>1 DEF isOnboarded, Unlock, RunLoopEnds, clearFlash, flash, OnboardedAhead, OnboardedPending
<1>2. CASE choose
  BY <1>2 DEF choose, flash, OnboardedAhead, OnboardedPending
<1>3. CASE reset
  <2>1. ~OnboardedAhead'
    BY <1>3, MarkerOnly, AheadAfterErase DEF reset, TypeOK, Headers
  <2> QED
    BY <1>3, <2>1 DEF reset
<1>4. ASSUME NEW c \in Configs, store(c)
      PROVE  ClearedInv'
  BY <1>4 DEF store
<1>5. CASE ProgramUnit
  BY <1>5, AheadAfterProgram DEF ProgramUnit
<1>6. CASE resetHeader
  BY <1>6, ResetHeaderDefault DEF resetHeader
<1>7. CASE SystemReset
  BY <1>7 DEF SystemReset, Restarted, flash, OnboardedAhead, OnboardedPending
<1>8. CASE PowerFails
  BY <1>8, AheadAfterFailure DEF PowerFails, Restarted
<1>9. CASE UNCHANGED vars
  BY <1>9 DEF vars, flash, OnboardedAhead, OnboardedPending
<1> QED
  BY <1>1, <1>2, <1>3, <1>4, <1>5, <1>6, <1>7, <1>8, <1>9 DEF Next

\* No erase or program command reaches the sector in the middle of another.
THEOREM OneOperation == Spec => OneOperationAtATime
<1>1. Init => MutexInv
  BY DEF Init, MutexInv
<1>2. MutexInv /\ [Next]_vars => MutexInv'
  BY MutexStep
<1>3. MutexInv /\ [Next]_vars => [mutex' # mutex /\ mutex' # "free" => pending = <<>>]_vars
  BY DEF MutexInv, Next, vars, flash, isOnboarded, reset, choose, store, Unlock, RunLoopEnds,
         ProgramUnit, clearFlash, resetHeader, SystemReset, PowerFails, Restarted,
         EraseAndProgram
<1> QED
  BY <1>1, <1>2, <1>3, PTL DEF Spec, OneOperationAtATime

\* Clearing survives every power failure.
THEOREM ClearingLasts == Spec => []ClearedStaysCleared
<1>1. Init => TypeOK /\ ClearedInv
  BY TypeInit, FlashAssumption DEF Init, ClearedInv
<1>2. TypeOK /\ ClearedInv /\ [Next]_vars => (TypeOK /\ ClearedInv)'
  BY TypeStep, ClearedStep
<1>3. ClearedInv => ClearedStaysCleared
  BY DEF ClearedInv, ClearedStaysCleared
<1> QED
  BY <1>1, <1>2, <1>3, PTL DEF Spec

-----------------------------------------------------------------------------
(* What the run loop finds.                                                *)

\* Every unit holds its part of c or waits to be programmed with it.
Storing(c) ==
  /\ \A i \in 1 .. Len(pending) : pending[i].unit # 0 => pending[i].value = c
  /\ \A u \in Units : config[u] = c \/ \E i \in 1 .. Len(pending) : pending[i].unit = u

\* A marker that says onboarded is written in front of one configuration, by
\* the main thread, and the run loop is entered only behind it.
StoreInv ==
  /\ OnboardedAhead /\ pending # <<>> => at = "store" /\ mutex = "main"
  /\ OnboardedAhead /\ ~torn => \E c \in Configs : Storing(c)
  /\ at = "running" /\ ~clearing => header = "ONBOARDED_CONFIGURATION"

LEMMA StoreBegins ==
  ASSUME NEW c \in Configs, store(c)
  PROVE  Storing(c)'
<1> DEFINE f == [u \in Units |-> c]
           writes == WriteHeader("ONBOARDED_CONFIGURATION") \o WriteConfig(f)
<1>1. f \in [Units -> Configs \cup {Foreign, Erased}]
  OBVIOUS
<1>2. Len(writes) = 1 + Chunks
  BY <1>1, MarkerOnly DEF Headers
<1>3. ASSUME NEW i \in 1 .. Len(writes), i # 1
      PROVE  writes[i].unit = i - 1 /\ writes[i].value = c
  <2>1. writes[i] = [unit |-> i - 1, value |-> f[i - 1]]
    BY <1>1, <1>3, MarkerOnly DEF Headers
  <2> QED
    BY <1>2, <1>3, <2>1, FlashAssumption DEF Units
<1>4. writes[1] = [unit |-> 0, value |-> "ONBOARDED_CONFIGURATION"]
  <2>1. 1 \in 1 .. Len(writes)
    BY <1>2, FlashAssumption
  <2> QED
    BY <1>1, <2>1, MarkerOnly DEF Headers
<1>5. pending' = writes
  BY DEF store, EraseAndProgram
<1> HIDE DEF writes
<1>6. ASSUME NEW u \in Units
      PROVE  \E i \in 1 .. Len(writes) : writes[i].unit = u
  <2>1. u + 1 \in 1 .. Len(writes) /\ u + 1 # 1 /\ (u + 1) - 1 = u
    BY <1>2, FlashAssumption DEF Units
  <2> QED
    BY <1>3, <2>1
<1> QED
  BY <1>3, <1>4, <1>5, <1>6 DEF Storing

LEMMA StoreGoesOn ==
  ASSUME TypeOK, NEW c \in Configs, Storing(c), ProgramUnit
  PROVE  Storing(c)'
<1>1. /\ pending \in Seq(Write) /\ Len(pending) \in Nat \ {0}
      /\ Len(pending') = Len(pending) - 1
      /\ \A i \in 1 .. Len(pending') : pending'[i] = pending[i + 1]
      /\ Head(pending) = pending[1] /\ pending[1] \in Write
  BY DEF TypeOK, ProgramUnit
<1>2. \A i \in 1 .. Len(pending') : pending'[i].unit # 0 => pending'[i].value = c
  BY <1>1 DEF Storing
<1>3. ASSUME NEW u \in Units
      PROVE  config'[u] = c \/ \E i \in 1 .. Len(pending') : pending'[i].unit = u
  <2>1. CASE pending[1].unit = u
    <3>1. u # 0 /\ pending[1].value = c
      BY <1>1, <2>1 DEF Units, Storing
    <3>2. config' = [config EXCEPT ![u] = c]
      BY <1>1, <2>1, <3>1 DEF ProgramUnit, Program
    <3> QED
      BY <3>2 DEF TypeOK
  <2>2. CASE pending[1].unit # u /\ config[u] = c
    BY <1>1, <2>2 DEF ProgramUnit, Program, TypeOK
  <2>3. CASE pending[1].unit # u /\ config[u] # c
    <3>1. PICK i \in 1 .. Len(pending) : pending[i].unit = u
      BY <2>3 DEF Storing
    <3>2. i - 1 \in 1 .. Len(pending') /\ (i - 1) + 1 = i
      BY <1>1, <2>3, <3>1
    <3> QED
      BY <1>1, <3>1, <3>2
  <2> QED
    BY <2>1, <2>2, <2>3
<1> QED
  BY <1>2, <1>3 DEF Storing

LEMMA StoreStep ==
  ASSUME TypeOK, MutexInv, StoreInv, [Next]_vars
  PROVE  StoreInv'
<1>1. CASE isOnboarded \/ Unlock \/ RunLoopEnds \/ clearFlash \/ choose
  BY <1>1 DEF StoreInv, MutexInv, isOnboarded, choose, Unlock, RunLoopEnds, clearFlash, flash,
     OnboardedAhead, OnboardedPending, Storing
<1>2. CASE reset
  <2>1. ~OnboardedAhead' /\ at' = "reset"
    BY <1>2, MarkerOnly, AheadAfterErase DEF reset, TypeOK, Headers
  <2> QED
    BY <2>1 DEF StoreInv
<1>3. ASSUME NEW c \in Configs, store(c)
      PROVE  StoreInv'
  <2>1. Storing(c)'
    BY <1>3, StoreBegins
  <2>2. at' = "store" /\ mutex' = "main"
    BY <1>3 DEF store, EraseAndProgram
  <2> QED
    BY <2>1, <2>2 DEF StoreInv
<1>4. CASE ProgramUnit
  <2>1. OnboardedAhead' => OnboardedAhead
    BY <1>4, AheadAfterProgram DEF ProgramUnit
  <2>2. OnboardedAhead' /\ ~torn' => \E c \in Configs : Storing(c)'
    BY <1>4, <2>1, StoreGoesOn DEF StoreInv, ProgramUnit
  <2>3. ~(at' = "running" /\ ~clearing')
    BY <1>4 DEF ProgramUnit, MutexInv, TypeOK
  <2> QED
    BY <1>4, <2>1, <2>2, <2>3 DEF StoreInv, ProgramUnit
<1>5. CASE resetHeader
  <2>1. ~OnboardedAhead'
    BY <1>5, ResetHeaderDefault
  <2> QED
    BY <1>5, <2>1 DEF StoreInv, resetHeader
<1>6. CASE SystemReset
  BY <1>6 DEF StoreInv, SystemReset, Restarted, flash, OnboardedAhead, OnboardedPending, Storing
<1>7. CASE PowerFails
  <2>1. OnboardedAhead' => OnboardedAhead
    BY <1>7, AheadAfterFailure
  <2>2. at' = "isOnboarded" /\ pending' = <<>>
    BY <1>7 DEF PowerFails, Restarted
  <2>3. ASSUME OnboardedAhead', ~torn'
        PROVE  \E c \in Configs : Storing(c)'
    <3>1. pending = <<>> /\ ~torn
      BY <1>7, <2>1, <2>3 DEF StoreInv, PowerFails
    <3>2. UNCHANGED flash
      BY <1>7, <3>1 DEF PowerFails
    <3> QED
      BY <2>1, <2>2, <2>3, <3>1, <3>2 DEF StoreInv, Storing, flash
  <2> QED
    BY <2>2, <2>3 DEF StoreInv
<1>8. CASE UNCHANGED vars
  BY <1>8 DEF StoreInv, vars, flash, OnboardedAhead, OnboardedPending, Storing
<1> QED
  BY <1>1, <1>2, <1>3, <1>4, <1>5, <1>6, <1>7, <1>8 DEF Next

\* The run loop finds one configuration, the whole of it, unless the power
\* failed while it was stored: no other crash and no clearing leaves less.
THEOREM RunsOnWhole == Spec => []RunsOnWholeConfiguration
<1> DEFINE Inv == TypeOK /\ MutexInv /\ StoreInv
<1>1. Init => Inv
  <2>1. Init => MutexInv /\ StoreInv
    BY FlashAssumption DEF Init, MutexInv, StoreInv, OnboardedAhead, OnboardedPending, Headers
  <2> QED
    BY <2>1, TypeInit
<1>2. Inv /\ [Next]_vars => Inv'
  BY TypeStep, MutexStep, StoreStep
<1>3. Inv => RunsOnWholeConfiguration
  <2> SUFFICES ASSUME Inv, at = "running", ~clearing, ~torn
               PROVE  Whole
    BY DEF RunsOnWholeConfiguration
  <2>1. pending = <<>>
    BY DEF MutexInv, TypeOK
  <2>2. PICK c \in Configs : Storing(c)
    BY DEF StoreInv, OnboardedAhead
  <2>3. \A u \in Units : config[u] = c
    BY <2>1, <2>2 DEF Storing
  <2> QED
    BY <2>3 DEF Whole, TypeOK
<1> QED
  BY <1>1, <1>2, <1>3, PTL DEF Spec
=============================================================================
