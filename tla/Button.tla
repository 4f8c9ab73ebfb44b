-------------------------------- MODULE Button --------------------------------
(***************************************************************************)
(* The user button (button.cpp): the interrupt handlers of its pin, the    *)
(* timing thread they signal, and the main thread that advertises and      *)
(* revokes the resource.  An interrupt handler runs at once, between any   *)
(* two steps of the threads; the timing thread has a higher priority than  *)
(* the main thread, which runs only while the other waits.                 *)
(***************************************************************************)
EXTENDS Naturals

CONSTANT ResetTime \* BUTTON_RESET_TIME_MS, in ticks

ASSUME ButtonAssumption == ResetTime \in Nat \ {0}

VARIABLES
  pin, heldFor,  \* the button, and for how many ticks it has been down
  edge,          \* the edge buttonIrq is attached to
  signals,       \* thread signals of buttonIrqTiming
  step,          \* where waitForRise is
  waited,        \* ticks it has waited for BUTTON_RELEASED
  unreported,    \* counter has changed since it was last looked at
  lifecycle,     \* the main thread: between, in or after advertise and revoke
  publishing,
  outrun         \* history: the pin changed before the thread had dealt with an earlier edge

hardware == <<pin, heldFor, edge, outrun>>
thread   == <<step, waited, unreported>>
main     == <<lifecycle, publishing>>
vars     == <<hardware, signals, thread, main>>

TypeOK ==
  /\ pin \in {"up", "down"}
  /\ heldFor \in 0 .. ResetTime + 1
  /\ edge \in {"fall", "rise"}
  /\ signals \subseteq {"BUTTON_PRESSED", "BUTTON_RELEASED"}
  /\ step \in {"waitPressed", "check", "publish", "waitReleased", "primed"}
  /\ waited \in 0 .. ResetTime
  /\ unreported \in BOOLEAN
  /\ lifecycle \in {"revoked", "advertising", "advertised", "revoking"}
  /\ publishing \in BOOLEAN
  /\ outrun \in BOOLEAN

\* The constructor, after which the thread waits and the pin is attached.
Constructed ==
  /\ edge' = "fall" /\ signals' = {}
  /\ step' = "waitPressed" /\ waited' = 0 /\ unreported' = FALSE
  /\ lifecycle' = "revoked" /\ publishing' = FALSE

Init ==
  /\ pin = "up" /\ heldFor = 0
  /\ edge = "fall" /\ signals = {}
  /\ step = "waitPressed" /\ waited = 0 /\ unreported = FALSE
  /\ lifecycle = "revoked" /\ publishing = FALSE
  /\ outrun = FALSE

\* The timing thread has something to do.
Runnable ==
  \/ step \in {"check", "publish"}
  \/ step = "waitPressed" /\ "BUTTON_PRESSED" \in signals
  \/ step \in {"waitReleased", "primed"} /\ "BUTTON_RELEASED" \in signals
  \/ step = "waitReleased" /\ waited = ResetTime

Waiting == ~Runnable

-----------------------------------------------------------------------------
(* The pin and its interrupts.                                             *)

\* One edge is attached at a time; the handler attaches the other.
irqFall ==
  /\ edge' = "rise"
  /\ signals' = signals \cup {"BUTTON_PRESSED"}
  /\ unreported' = TRUE

\* Mutant: the handler is detached and the other edge is not attached.
IrqRiseDetachesOnly ==
  /\ edge' = "none"
  /\ signals' = signals \cup {"BUTTON_RELEASED"}
  /\ UNCHANGED unreported

irqRise ==
  /\ edge' = "fall"
  /\ signals' = signals \cup {"BUTTON_RELEASED"}
  /\ UNCHANGED unreported

Press ==
  /\ pin = "up"
  /\ outrun' = (outrun \/ Runnable)
  /\ pin' = "down" /\ heldFor' = 0
  /\ IF edge = "fall" THEN irqFall ELSE UNCHANGED <<edge, signals, unreported>>
  /\ UNCHANGED <<step, waited, main>>

Release ==
  /\ pin = "down"
  /\ outrun' = (outrun \/ Runnable)
  /\ pin' = "up" /\ heldFor' = 0
  /\ IF edge = "rise" THEN irqRise ELSE UNCHANGED <<edge, signals, unreported>>
  /\ UNCHANGED <<step, waited, main>>

Tick ==
  /\ Waiting
  /\ pin = "down" \/ step = "waitReleased"
  /\ heldFor' = IF pin = "down" /\ heldFor <= ResetTime THEN heldFor + 1 ELSE heldFor
  /\ waited' = IF step = "waitReleased" THEN waited + 1 ELSE waited
  /\ UNCHANGED <<pin, edge, outrun, signals, step, unreported, main>>

-----------------------------------------------------------------------------
(* waitForRise.                                                            *)

\* signal_wait takes the signal it waited for and leaves the other.
Pressed ==
  /\ step = "waitPressed" /\ "BUTTON_PRESSED" \in signals
  /\ signals' = signals \ {"BUTTON_PRESSED"}
  /\ step' = "check"
  /\ UNCHANGED <<hardware, waited, unreported, main>>

CheckPublishing ==
  /\ step = "check"
  /\ IF publishing
     THEN step' = "publish" /\ UNCHANGED <<waited, unreported>>
     ELSE step' = "waitReleased" /\ waited' = 0 /\ unreported' = FALSE
  /\ UNCHANGED <<hardware, signals, main>>

\* Mutant: the wait is not begun anew.
PublishAndKeepWaiting ==
  /\ step = "publish"
  /\ unreported' = FALSE
  /\ step' = "waitReleased"
  /\ UNCHANGED <<hardware, signals, waited, main>>

publish ==
  /\ step = "publish"
  /\ unreported' = FALSE
  /\ step' = "waitReleased" /\ waited' = 0
  /\ UNCHANGED <<hardware, signals, main>>

\* Mutant: both signals are cleared.
ReleasedClearsAll ==
  /\ step = "waitReleased" /\ "BUTTON_RELEASED" \in signals
  /\ signals' = {}
  /\ step' = "waitPressed"
  /\ UNCHANGED <<hardware, waited, unreported, main>>

Released ==
  /\ step = "waitReleased" /\ "BUTTON_RELEASED" \in signals
  /\ signals' = signals \ {"BUTTON_RELEASED"}
  /\ step' = "waitPressed"
  /\ UNCHANGED <<hardware, waited, unreported, main>>

\* Mutant: the thread goes on waiting for the next press.
TimedOutAndGoOn ==
  /\ step = "waitReleased" /\ waited = ResetTime
  /\ "BUTTON_RELEASED" \notin signals
  /\ step' = "waitPressed"
  /\ UNCHANGED <<hardware, signals, waited, unreported, main>>

TimedOut ==
  /\ step = "waitReleased" /\ waited = ResetTime
  /\ "BUTTON_RELEASED" \notin signals
  /\ step' = "primed"
  /\ UNCHANGED <<hardware, signals, waited, unreported, main>>

\* The flash header is reset and the board starts again.
clearFlash ==
  /\ step = "primed" /\ "BUTTON_RELEASED" \in signals
  /\ Constructed
  /\ UNCHANGED <<pin, heldFor, outrun>>

waitForRise ==
  Pressed \/ CheckPublishing \/ publish \/ Released \/ TimedOut \/ clearFlash

-----------------------------------------------------------------------------
(* The main thread, when the timing thread lets it run.                    *)

\* Resource::advertise and subscribe.
Advertise ==
  /\ Waiting /\ lifecycle = "revoked"
  /\ lifecycle' = "advertising"
  /\ UNCHANGED <<hardware, signals, thread, publishing>>

AdvertiseDone ==
  /\ Waiting /\ lifecycle = "advertising"
  /\ publishing' = TRUE
  /\ lifecycle' = "advertised"
  /\ UNCHANGED <<hardware, signals, thread>>

\* Mutant: publishing is reset after Resource::revoke.
RevokeBeforeReset ==
  /\ Waiting /\ lifecycle = "advertised"
  /\ lifecycle' = "revoking"
  /\ UNCHANGED <<hardware, signals, thread, publishing>>

revoke ==
  /\ Waiting /\ lifecycle = "advertised"
  /\ publishing' = FALSE
  /\ lifecycle' = "revoking"
  /\ UNCHANGED <<hardware, signals, thread>>

\* Resource::revoke.
RevokeDone ==
  /\ Waiting /\ lifecycle = "revoking"
  /\ lifecycle' = "revoked"
  /\ UNCHANGED <<hardware, signals, thread, publishing>>

MainThread == Advertise \/ AdvertiseDone \/ revoke \/ RevokeDone

Next ==
  \/ Press \/ Release \/ Tick
  \/ waitForRise
  \/ MainThread

Spec == Init /\ [][Next]_vars

-----------------------------------------------------------------------------
(* Properties.                                                             *)

\* The timing thread publishes only between Resource::advertise and
\* Resource::revoke, although it looks at `publishing` first and publishes
\* afterwards: msgStorage exists (button.cpp:67).
PublishOnlyAdvertised == step = "publish" => lifecycle # "revoked"

\* A press is never forgotten, however fast the edges follow: until the thread
\* has looked at it, its signal is set or the thread is on its way.
PressReported ==
  unreported => "BUTTON_PRESSED" \in signals \/ step \in {"check", "publish"}

\* Nothing but a press longer than BUTTON_RESET_TIME_MS primes the board to
\* forget its onboarding, as long as the thread keeps up with the pin's edges.
CalmPriming ==
  [][step # "primed" /\ step' = "primed" => outrun \/ (pin = "down" /\ heldFor >= ResetTime)]_vars

\* And under that condition such a press does prime it.
LongPressPrimes ==
  Waiting /\ heldFor > ResetTime => outrun \/ step = "primed"

\* button.cpp:74, "if button is pressed for more than BUTTON_RESET_TIME_MS
\* indicate to user that WB is primed for clearing onboarding", without that
\* condition.
PrimedOnlyByLongPress ==
  [][step # "primed" /\ step' = "primed" => pin = "down" /\ heldFor >= ResetTime]_vars
=============================================================================
