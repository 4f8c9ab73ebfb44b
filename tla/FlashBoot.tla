------------------------------ MODULE FlashBoot ------------------------------
(***************************************************************************)
(* The configuration in flash (flash.cpp) and who changes it: the main     *)
(* loop that chooses between onboarding and running (main.cpp), the end of *)
(* onboarding that stores a configuration, and the button's thread that    *)
(* clears it.  Erasing and programming are steps of their own, and power   *)
(* may fail between any two of them.                                       *)
(***************************************************************************)
EXTENDS Naturals, Sequences

CONSTANTS
  Configs,  \* configurations the user may enter
  Foreign,  \* content that is none of the program's, as on a new board
  Erased,
  Chunks    \* write units behind the one that holds marker and configuration

Headers == {"DEFAULT_CONFIGURATION", "ONBOARDED_CONFIGURATION"}

ASSUME FlashAssumption ==
  /\ Chunks \in Nat \ {0}
  /\ Foreign # Erased /\ Foreign \notin Configs /\ Erased \notin Configs
  /\ Foreign \notin Headers /\ Erased \notin Headers

VARIABLES
  header,   \* marker and configuration word, one write unit
  config,   \* the write units of the configuration
  at,       \* where main() is
  clearing, \* whether Button::clearFlash has been called
  mutex,    \* who holds Flash::mutex
  pending,  \* write units the holder has still to program, in order
  cleared,  \* the last operation begun was one of resetHeader and reset
  torn      \* power failed in the last store

flash == <<header, config>>
vars  == <<flash, at, clearing, mutex, pending, cleared, torn>>

Units == 1 .. Chunks
Write == [unit : {0}, value : Headers] \cup [unit : Units, value : Configs \cup {Foreign, Erased}]

TypeOK ==
  /\ header \in Headers \cup {Foreign, Erased}
  /\ config \in [Units -> Configs \cup {Foreign, Erased}]
  /\ at \in {"isOnboarded", "reset", "choose", "onboarding", "store", "running"}
  /\ clearing \in BOOLEAN
  /\ mutex \in {"free", "main", "button"}
  /\ pending \in Seq(Write)
  /\ cleared \in BOOLEAN /\ torn \in BOOLEAN

Init ==
  /\ header \in {Foreign, Erased} /\ config = [u \in Units |-> header]
  /\ at = "isOnboarded" /\ clearing = FALSE
  /\ mutex = "free" /\ pending = <<>>
  /\ cleared = FALSE /\ torn = FALSE

-----------------------------------------------------------------------------
(* The flash driver.                                                       *)

WriteHeader(value) == <<[unit |-> 0, value |-> value]>>

\* Mutant: the configuration is copied over the marker.
WriteConfigAtStart(content) == [u \in Units |-> [unit |-> u - 1, value |-> content[u]]]

WriteConfig(content) == [u \in Units |-> [unit |-> u, value |-> content[u]]]

\* Lock, erase the sector, and have `writes` to program.
EraseAndProgram(who, writes) ==
  /\ mutex = "free"
  /\ mutex' = who
  /\ header' = Erased /\ config' = [u \in Units |-> Erased]
  /\ pending' = writes
  /\ torn' = FALSE

\* Units are programmed in the order of their addresses.
Program(value) ==
  LET u == Head(pending).unit IN
    IF u = 0 THEN header' = value /\ UNCHANGED config
             ELSE config' = [config EXCEPT ![u] = value] /\ UNCHANGED header

ProgramUnit ==
  /\ pending # <<>>
  /\ Program(Head(pending).value)
  /\ pending' = Tail(pending)
  /\ UNCHANGED <<at, clearing, mutex, cleared, torn>>

-----------------------------------------------------------------------------
(* main().  It runs while the button's thread, of higher priority, does    *)
(* not, or waits for the mutex.                                            *)

MainMayRun == mutex = "main" \/ (mutex = "free" /\ ~clearing)

\* The reset of a marker that is not the program's belongs to isOnboarded.
isOnboarded ==
  /\ at = "isOnboarded" /\ MainMayRun
  /\ at' = IF header \in Headers THEN "choose" ELSE "reset"
  /\ UNCHANGED <<flash, clearing, mutex, pending, cleared, torn>>

reset ==
  /\ at = "reset" /\ MainMayRun
  /\ EraseAndProgram("main", WriteHeader("DEFAULT_CONFIGURATION"))
  /\ cleared' = TRUE
  /\ UNCHANGED <<at, clearing>>

choose ==
  /\ at = "choose" /\ MainMayRun
  /\ at' = IF header = "ONBOARDED_CONFIGURATION" THEN "running" ELSE "onboarding"
  /\ UNCHANGED <<flash, clearing, mutex, pending, cleared, torn>>

\* Mutant: the last write unit of the configuration is left out.
StoreWithoutPadding(c) ==
  /\ at = "onboarding" /\ MainMayRun
  /\ EraseAndProgram("main",
       WriteHeader("ONBOARDED_CONFIGURATION")
         \o SubSeq(WriteConfig([u \in Units |-> c]), 1, Chunks - 1))
  /\ at' = "store"
  /\ cleared' = FALSE
  /\ UNCHANGED clearing

store(c) ==
  /\ at = "onboarding" /\ MainMayRun
  /\ EraseAndProgram("main",
       WriteHeader("ONBOARDED_CONFIGURATION") \o WriteConfig([u \in Units |-> c]))
  /\ at' = "store"
  /\ cleared' = FALSE
  /\ UNCHANGED clearing

\* isOnboarded goes on after reset; onboardLoop returns after store.
Unlock ==
  /\ mutex = "main" /\ pending = <<>>
  /\ mutex' = "free"
  /\ at' = IF at = "reset" THEN "choose" ELSE "isOnboarded"
  /\ UNCHANGED <<flash, clearing, pending, cleared, torn>>

\* runLoop returns when the connection is lost.
RunLoopEnds ==
  /\ at = "running" /\ MainMayRun
  /\ at' = "isOnboarded"
  /\ UNCHANGED <<flash, clearing, mutex, pending, cleared, torn>>

-----------------------------------------------------------------------------
(* The button's thread, and the power supply.                              *)

clearFlash ==
  /\ ~clearing
  /\ clearing' = TRUE
  /\ UNCHANGED <<flash, at, mutex, pending, cleared, torn>>

\* Mutant: the configuration word is copied with the rest.
ResetHeaderCopied ==
  /\ clearing
  /\ EraseAndProgram("button", <<[unit |-> 0, value |-> header]>> \o WriteConfig(config))
  /\ cleared' = TRUE
  /\ UNCHANGED <<at, clearing>>

\* Mutant: the mutex is not taken.
ResetHeaderUnlocked ==
  /\ clearing /\ mutex # "button"
  /\ mutex' = "button"
  /\ header' = Erased /\ config' = [u \in Units |-> Erased]
  /\ pending' = WriteHeader("DEFAULT_CONFIGURATION") \o WriteConfig(config)
  /\ cleared' = TRUE /\ torn' = FALSE
  /\ UNCHANGED <<at, clearing>>

resetHeader ==
  /\ clearing
  /\ EraseAndProgram("button", WriteHeader("DEFAULT_CONFIGURATION") \o WriteConfig(config))
  /\ cleared' = TRUE
  /\ UNCHANGED <<at, clearing>>

Restarted ==
  /\ at' = "isOnboarded" /\ clearing' = FALSE
  /\ mutex' = "free" /\ pending' = <<>>

SystemReset ==
  /\ mutex = "button" /\ pending = <<>>
  /\ Restarted
  /\ UNCHANGED <<flash, cleared, torn>>

\* The unit being programmed may be left in between.
PowerFails ==
  /\ Restarted
  /\ IF pending # <<>> THEN UNCHANGED flash \/ Program(Foreign) ELSE UNCHANGED flash
  /\ torn' = (torn \/ (at = "store" /\ mutex = "main" /\ pending # <<>>))
  /\ UNCHANGED cleared

Next ==
  \/ isOnboarded \/ reset \/ choose \/ Unlock \/ RunLoopEnds
  \/ \E c \in Configs : store(c)
  \/ ProgramUnit
  \/ clearFlash \/ resetHeader \/ SystemReset
  \/ PowerFails

Spec == Init /\ [][Next]_vars

-----------------------------------------------------------------------------
(* Properties.                                                             *)

Whole == \E c \in Configs : config = [u \in Units |-> c]

\* The run loop never runs on a mixture of configurations, erased or foreign
\* content, unless the power failed while this configuration was stored.
RunsOnWholeConfiguration == at = "running" /\ ~clearing /\ ~torn => Whole

\* Once the clearing of the configuration has begun the board does not come up
\* in the run loop until another one is stored, whenever the power fails.
ClearedStaysCleared == cleared /\ at = "running" => clearing

\* No operation on the sector is begun in the middle of another.
OneOperationAtATime ==
  [][mutex' # mutex /\ mutex' # "free" => pending = <<>>]_vars

\* flash.h:15, only "0x004B1D00 means no configuration stored": on a board that
\* says it is onboarded the configuration is there.
OnboardedMeansStored == at = "running" /\ ~clearing => Whole
=============================================================================
