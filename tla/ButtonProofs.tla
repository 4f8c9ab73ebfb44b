----------------------------- MODULE ButtonProofs -----------------------------
(***************************************************************************)
(* What holds of the button however fast its edges follow each other, and  *)
(* what holds when the timing thread keeps up with them.                   *)
(***************************************************************************)
EXTENDS Button, TLAPS

\* The variables keep their types; the wait in waitForRise ends at
\* BUTTON_RESET_TIME_MS, for the thread is runnable then and time stands still.
THEOREM TypeCorrect == Spec => []TypeOK
<1>1. Init => TypeOK
  <2>1. 0 \in 0 .. ResetTime /\ 0 \in 0 .. ResetTime + 1
    BY ButtonAssumption
  <2> QED
    BY <2>1 DEF Init, TypeOK
<1>2. TypeOK /\ [Next]_vars => TypeOK'
  <2> SUFFICES ASSUME TypeOK, [Next]_vars
               PROVE  TypeOK'
    OBVIOUS
  <2> USE DEF TypeOK, hardware, thread, main
  <2>1. CASE Press \/ Release
    <3>1. heldFor' \in 0 .. ResetTime + 1
      BY <2>1, ButtonAssumption DEF Press, Release
    <3> QED
      BY <2>1, <3>1 DEF Press, Release, irqFall, irqRise
  <2>2. CASE Tick
    BY <2>2, ButtonAssumption DEF Tick, Waiting, Runnable
  <2>3. CASE waitForRise
    <3>1. waited' \in 0 .. ResetTime
      BY <2>3, ButtonAssumption DEF waitForRise, Pressed, CheckPublishing, publish, Released,
         TimedOut, clearFlash, Constructed
    <3> QED
      BY <2>3, <3>1 DEF waitForRise, Pressed, CheckPublishing, publish, Released,
         TimedOut, clearFlash, Constructed
  <2>4. CASE MainThread
    BY <2>4 DEF MainThread, Advertise, AdvertiseDone, revoke, RevokeDone
  <2>5. CASE UNCHANGED vars
    BY <2>5 DEF vars
  <2> QED
    BY <2>1, <2>2, <2>3, <2>4, <2>5 DEF Next
<1> QED
  BY <1>1, <1>2, PTL DEF Spec

\* A publishing button is advertised; the thread that decided to publish sees
\* no step of the main thread before it has done so.
PublishInv ==
  /\ publishing => lifecycle = "advertised"
  /\ step = "publish" => publishing

\* The button's thread never publishes without storage, for it is not
\* preempted by the thread that revokes.
THEOREM PublishSafe == Spec => []PublishOnlyAdvertised
<1>1. Init => PublishInv
  BY DEF Init, PublishInv
<1>2. PublishInv /\ [Next]_vars => PublishInv'
  <2> SUFFICES ASSUME PublishInv, [Next]_vars
               PROVE  PublishInv'
    OBVIOUS
  <2>1. CASE Press \/ Release \/ Tick \/ UNCHANGED vars
    BY <2>1 DEF PublishInv, Press, Release, Tick, main, vars, thread
  <2>2. CASE Pressed \/ CheckPublishing \/ publish \/ Released \/ TimedOut
    BY <2>2 DEF PublishInv, Pressed, CheckPublishing, publish, Released, TimedOut, main
  <2>3. CASE clearFlash
    BY <2>3 DEF PublishInv, clearFlash, Constructed
  <2>4. CASE MainThread
    BY <2>4 DEF PublishInv, MainThread, Advertise, AdvertiseDone, revoke, RevokeDone,
       Waiting, Runnable, thread
  <2> QED
    BY <2>1, <2>2, <2>3, <2>4 DEF Next, waitForRise
<1>3. PublishInv => PublishOnlyAdvertised
  BY DEF PublishInv, PublishOnlyAdvertised
<1> QED
  BY <1>1, <1>2, <1>3, PTL DEF Spec

\* No press is forgotten.
THEOREM PressNotLost == Spec => []PressReported
<1>1. Init => PressReported
  BY DEF Init, PressReported
<1>2. PressReported /\ [Next]_vars => PressReported'
  <2> SUFFICES ASSUME PressReported, [Next]_vars
               PROVE  PressReported'
    OBVIOUS
  <2> USE DEF PressReported
  <2>1. CASE Press \/ Release
    BY <2>1 DEF Press, Release, irqFall, irqRise
  <2>2. CASE waitForRise
    BY <2>2 DEF waitForRise, Pressed, CheckPublishing, publish, Released, TimedOut,
       clearFlash, Constructed
  <2>3. CASE Tick \/ MainThread \/ UNCHANGED vars
    BY <2>3 DEF Tick, MainThread, Advertise, AdvertiseDone, revoke, RevokeDone, thread, vars
  <2> QED
    BY <2>1, <2>2, <2>3 DEF Next
<1> QED
  BY <1>1, <1>2, PTL DEF Spec

-----------------------------------------------------------------------------
(* A thread that keeps up with the edges.                                  *)

\* The pin is down and the press was signalled; or up and the release was.
Down == pin = "down" /\ edge = "rise" /\ signals = {}
Up   == pin = "up" /\ edge = "fall" /\ heldFor = 0

CalmInv == ~outrun =>
  /\ heldFor \in Nat /\ waited \in 0 .. ResetTime
  /\ \/ /\ step = "waitPressed"
        /\ \/ Up /\ signals = {}
           \/ /\ pin = "down" /\ edge = "rise" /\ signals = {"BUTTON_PRESSED"}
              /\ heldFor = 0
     \/ step \in {"check", "publish"} /\ Down /\ heldFor = 0
     \/ /\ step = "waitReleased"
        /\ \/ Down /\ heldFor = waited
           \/ Up /\ signals = {"BUTTON_RELEASED"}
     \/ /\ step = "primed"
        /\ \/ Down
           \/ Up /\ signals = {"BUTTON_RELEASED"}

LEMMA CalmStep ==
  ASSUME CalmInv, [Next]_vars
  PROVE  CalmInv'
<1> SUFFICES ASSUME ~outrun'
             PROVE  CalmInv'
  BY DEF CalmInv
<1> USE ButtonAssumption DEF CalmInv, Up, Down
<1>1. CASE Press
  BY <1>1 DEF Press, Runnable, irqFall
<1>2. CASE Release
  BY <1>2 DEF Release, Runnable, irqRise
<1>3. CASE Tick
  BY <1>3 DEF Tick, Waiting, Runnable
<1>4. CASE Pressed
  BY <1>4 DEF Pressed, hardware
<1>5. CASE CheckPublishing \/ publish
  BY <1>5 DEF CheckPublishing, publish, hardware
<1>6. CASE Released
  BY <1>6 DEF Released, hardware
<1>7. CASE TimedOut
  BY <1>7 DEF TimedOut, hardware
<1>8. CASE clearFlash
  BY <1>8 DEF clearFlash, Constructed
<1>9. CASE MainThread \/ UNCHANGED vars
  BY <1>9 DEF MainThread, Advertise, AdvertiseDone, revoke, RevokeDone, hardware, thread, vars
<1> QED
  BY <1>1, <1>2, <1>3, <1>4, <1>5, <1>6, <1>7, <1>8, <1>9 DEF Next, waitForRise

LEMMA CalmInit ==
  ASSUME Init
  PROVE  CalmInv
BY ButtonAssumption DEF Init, CalmInv, Up

\* With edges no faster than the thread, a press longer than ResetTime primes
\* the board.
THEOREM LongPressSuffices == Spec => []LongPressPrimes
<1>1. CalmInv => LongPressPrimes
  BY ButtonAssumption DEF CalmInv, Up, Down, LongPressPrimes, Waiting, Runnable
<1>2. Init => CalmInv
  BY CalmInit
<1>3. CalmInv /\ [Next]_vars => CalmInv'
  BY CalmStep
<1> QED
  BY <1>1, <1>2, <1>3, PTL DEF Spec

\* And nothing else does.
THEOREM LongPressNeeded == Spec => CalmPriming
<1>1. Init => CalmInv
  BY CalmInit
<1>2. CalmInv /\ [Next]_vars => CalmInv'
  BY CalmStep
<1>3. CalmInv /\ [Next]_vars
        => [step # "primed" /\ step' = "primed"
              => outrun \/ (pin = "down" /\ heldFor >= ResetTime)]_vars
  <2> SUFFICES ASSUME CalmInv, Next, step # "primed", step' = "primed", ~outrun
               PROVE  pin = "down" /\ heldFor >= ResetTime
    OBVIOUS
  <2>1. TimedOut
    BY DEF Next, waitForRise, MainThread, Press, Release, Tick, Pressed, CheckPublishing,
       publish, Released, clearFlash, Constructed, Advertise, AdvertiseDone, revoke,
       RevokeDone, thread
  <2> QED
    BY <2>1, ButtonAssumption DEF TimedOut, CalmInv, Up, Down
<1> QED
  BY <1>1, <1>2, <1>3, PTL DEF Spec, CalmPriming
=============================================================================
