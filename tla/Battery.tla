------------------------------ MODULE Battery ------------------------------
(***************************************************************************)
(* The battery monitor of main.rs over the battery policy: readings at boot, *)
(* in every phase and on entering a search, the power-down they may decide,  *)
(* and what the WS2812 strip and the VMU show of the level.                  *)
(*                                                                          *)
(* Time moves only when the running loop has made a pass since it last moved; *)
(* several phase changes may fall between two moves.  A probe, the VBUS poll, *)
(* a reading and the display are one pass of the poll loop.  The battery     *)
(* itself is not modelled: a reading establishes anything its board can say. *)
(***************************************************************************)
EXTENDS BatteryPolicy, FiniteSets

CONSTANTS
  Boards,             \* of "ip5306", "xiao", "dk"
  Readings,           \* what a read can establish on each of them
  MinPercent,         \* DFU_MIN_BATTERY_PCT
  NormalInterval,     \* BATTERY_READ_INTERVAL
  FastInterval,       \* BATTERY_FAST_INTERVAL
  Grace,              \* DETECT_GAUGE_GRACE
  MaxTime             \* bound: how long a boot is followed

Maybe(S) == S \cup {None}

(* A board reads three facts that fail each on its own; a STAT pin and a    *)
(* voltage; or nothing. *)
Observation == [charging : Maybe(BOOLEAN), charge_complete : Maybe(BOOLEAN),
                percent : Maybe(0 .. 100), millivolts : Maybe(Nat)]
NoReading == [charging |-> None, charge_complete |-> None, percent |-> None, millivolts |-> None]
Observations(of) ==
  {obs \in Observation :
     CASE of = "ip5306" -> obs.millivolts = None
       [] of = "xiao" -> None \notin {obs.charging, obs.percent, obs.millivolts}
                         /\ obs.charge_complete = None
       [] of = "dk" -> obs = NoReading}

ASSUME BatteryAssumption ==
  /\ Boards \subseteq {"ip5306", "xiao", "dk"}
  /\ \A board \in Boards : Readings[board] \subseteq Observations(board)
  /\ {NormalInterval, FastInterval, Grace, MaxTime, MinPercent} \subseteq Nat

(* A search reads no more rarely than a poll and asks for no longer a span; *)
(* a reading that came too soon to count leaves the next one in reach       *)
(* (main.rs:492, 504, 538-542). *)
ASSUME CadenceAssumption ==
  /\ NormalInterval > 0 /\ FastInterval <= NormalInterval
  /\ SpanSearching <= SpanNormal
  /\ NormalInterval + MinSpacing - 1 <= MaxGap

VARIABLES
  board,
  phase,          \* "Wait" (Phase 1), "Detect" (2), "Poll" (3), "Redetect", "Off", "Update"
  now,
  passed,         \* the running loop has made its pass at this time
  vbus,           \* the cable
  policy,         \* BatteryMonitor
  last_attempt,
  level,          \* what BATTERY_LEVEL was last signalled
  started,        \* DetectBatteryWatch
  bars, lit,      \* the strip
  screen,         \* Phase 3: usb, percent and charging shown, vmu present, presence known
  empties,        \* history: when the cell was read empty and discharging since it last
                  \* charged, was healthy or told a voltage
  flat,           \* history: since when every reading was empty and discharging
  measured,       \* history: the last level read, and when
  full,           \* history: when charge-complete was last reported, unless denied since
  cause           \* history: why the unit is off

historyVars == <<empties, flat, measured, full>>
shownVars == <<started, bars, lit, screen>>
vars == <<board, phase, now, passed, vbus, policy, last_attempt, level, shownVars,
          historyVars, cause>>

CanSleep == board # "dk"
Running == phase \notin {"Off", "Update"}
Searching == phase \in {"Detect", "Redetect"}
BlankScreen == [usb |-> FALSE, percent |-> None, charging |-> FALSE,
                present |-> FALSE, known |-> FALSE]

---------------------------------------------------------------------------
(* BatteryMonitor *)

Due(context) ==
  Elapsed(last_attempt, now) >=
    IF context = "Searching" THEN FastInterval ELSE NormalInterval

(* What a reading tells the BLE task; 0xFF leaves the host's level alone. *)
Signalled(obs) ==
  CASE obs.charge_complete = TRUE /\ vbus -> 100
    [] ~(obs.charge_complete = TRUE /\ vbus) /\ obs.charging = TRUE -> "Charging"
    [] OTHER -> IF obs.percent = None THEN level ELSE obs.percent

Flat(obs) == ReadsEmpty(obs) /\ obs.charging = FALSE /\ obs.millivolts = None

Refutes(obs) ==
  \/ obs.charging = TRUE \/ obs.millivolts # None
  \/ obs.percent # None /\ ~ReadsEmpty(obs)

(* The history of a reading. *)
Remembered(obs) ==
  /\ empties' = IF Flat(obs) THEN empties \cup {now}
                ELSE IF Refutes(obs) THEN {} ELSE empties
  /\ flat' = IF ~Flat(obs) \/ ~CanSleep THEN None ELSE IF flat = None THEN now ELSE flat
  /\ measured' = IF obs.percent = None THEN measured
                 ELSE [value |-> obs.percent, at |-> now]
  /\ full' = IF obs.charge_complete = None THEN full
             ELSE IF obs.charge_complete THEN now ELSE None

(* A reading: next is the phase if the unit stays on. *)
Sample(obs, context, next) ==
  /\ last_attempt' = now
  /\ IF board = "dk" THEN UNCHANGED <<policy, level, historyVars>>
     ELSE /\ level' = Signalled(obs)
          /\ policy' = Observe(policy, obs, now, CanSleep)
          /\ Remembered(obs)
  /\ LET decision == IF board = "dk" THEN "Continue"
                     ELSE Decision(policy.empty, obs, now, context, CanSleep)
     IN IF decision = "Continue" THEN phase' = next /\ UNCHANGED cause
        ELSE phase' = "Off" /\ cause' = [why |-> decision, context |-> context]

NoSample == UNCHANGED <<policy, last_attempt, level, historyVars, phase, cause>>

SampleWhenDue(obs, context) ==
  IF Due(context) THEN obs \in Readings[board] /\ Sample(obs, context, phase)
  ELSE obs = NoReading /\ NoSample

---------------------------------------------------------------------------
(* The phases *)

Init ==
  /\ board \in Boards
  /\ phase = "Boot" /\ now = 0 /\ passed = FALSE
  /\ vbus \in BOOLEAN
  /\ policy = NewPolicy /\ last_attempt = 0 /\ level = None
  /\ started = 0 /\ bars = None /\ lit = FALSE /\ screen = BlankScreen
  /\ empties = {} /\ flat = None /\ measured = None /\ full = None /\ cause = None

(* The reading at start-up. *)
Boot == \E obs \in Readings[board] :
  /\ phase = "Boot"
  /\ Sample(obs, "Normal", "Wait")
  /\ UNCHANGED <<board, now, passed, vbus, shownVars>>

(* Phase 1 samples; its strip is dark. *)
WaitPass == \E obs \in Readings[board] \cup {NoReading} :
  /\ phase = "Wait" /\ ~passed
  /\ SampleWhenDue(obs, "Normal")
  /\ passed' = TRUE
  /\ UNCHANGED <<board, now, vbus, shownVars>>

(* DetectBatteryWatch::start, on entering Phase 2 and when a controller is  *)
(* lost: the strip lights with what it was last given, then a reading. *)
StartWatch(from, to) == \E obs \in Readings[board] :
  /\ phase = from
  /\ Sample(obs, "Searching", to)
  /\ started' = now /\ passed' = FALSE /\ lit' = (phase' # "Off")
  /\ UNCHANGED <<board, now, vbus, bars>>
HostConnects == StartWatch("Wait", "Detect") /\ UNCHANGED screen
ControllerLost ==
  /\ StartWatch("Poll", "Redetect")
  /\ screen' = [BlankScreen EXCEPT !.usb = screen.usb]

(* DetectBatteryWatch::tick: the gauge is lit once the grace is over. *)
SearchPass == \E obs \in Readings[board] \cup {NoReading} :
  /\ Searching /\ ~passed
  /\ SampleWhenDue(obs, "Searching")
  /\ passed' = TRUE
  /\ bars' = IF Elapsed(started, now) < Grace THEN bars
             ELSE ShownPercent(policy', now, vbus)
  /\ lit' = (phase' # "Off")
  /\ UNCHANGED <<board, now, vbus, started, screen>>

Shows(usb) == [percent |-> ShownPercent(policy, now, usb),
               charging |-> (Current(policy.charging, now) = TRUE)]

(* Phase 3 takes what the search found, for the cable as it is now; after a *)
(* re-detection for the cable as last polled. *)
ControllerFound ==
  /\ Searching
  /\ phase' = "Poll" /\ passed' = FALSE
  /\ LET usb == IF phase = "Detect" THEN vbus ELSE screen.usb
     IN  screen' = [usb |-> usb, percent |-> Shows(usb).percent,
                    charging |-> Shows(usb).charging, present |-> FALSE, known |-> FALSE]
  /\ started' = 0
  /\ UNCHANGED <<board, now, vbus, policy, last_attempt, level, bars, lit,
                 historyVars, cause>>

(* A pass of the poll loop: whatever a probe says of the VMU (absence needs *)
(* a streak of misses), the VBUS poll, a reading when due, and the display,  *)
(* which is evaluated every pass. *)
PollPass == \E obs \in Readings[board] \cup {NoReading}, mask \in Maybe(BOOLEAN),
               gone \in BOOLEAN :
  /\ phase = "Poll" /\ ~passed
  /\ SampleWhenDue(obs, "Normal")
  /\ passed' = TRUE
  /\ LET known == screen.known \/ mask # None
         present == mask = TRUE \/ (screen.present /\ ~gone)
         percent == ShownPercent(policy', now, vbus)
     IN /\ screen' = [usb |-> vbus, percent |-> percent,
                      charging |-> (Current(policy'.charging, now) = TRUE),
                      present |-> present, known |-> known]
        /\ bars' = IF ~known THEN bars ELSE IF present THEN None ELSE percent
  /\ lit' = (phase' # "Off")
  /\ UNCHANGED <<board, now, vbus, started>>

(* The host is gone: back to Phase 1 with the strip dark, which remembers   *)
(* its bars. *)
HostDrops ==
  /\ Searching \/ phase = "Poll"
  /\ phase' = "Wait" /\ passed' = FALSE /\ lit' = FALSE
  /\ started' = 0 /\ screen' = BlankScreen
  /\ UNCHANGED <<board, now, vbus, policy, last_attempt, level, bars,
                 historyVars, cause>>

(* A sleep hold or a timeout. *)
Sleep ==
  /\ Running /\ phase # "Boot" /\ CanSleep
  /\ phase' = "Off" /\ cause' = [why |-> "Asked", context |-> None] /\ lit' = FALSE
  /\ UNCHANGED <<board, now, passed, vbus, policy, last_attempt, level, started, bars,
                 screen, historyVars>>

(* An update gesture: a reading of its own, which the policy never sees. *)
UpdateRefused(obs) == ~vbus /\ board # "dk" /\ ~DfuAllowed(obs, MinPercent)
Update == \E obs \in Readings[board] :
  /\ phase \in {"Wait", "Detect", "Poll"}
  /\ ~UpdateRefused(obs)
  /\ phase' = "Update"
  /\ UNCHANGED <<board, now, passed, vbus, policy, last_attempt, level, shownVars,
                 historyVars, cause>>

(* A wake, or the end of an update: everything starts over. *)
Reset ==
  /\ ~Running
  /\ phase' = "Boot" /\ now' = 0 /\ passed' = FALSE
  /\ policy' = NewPolicy /\ last_attempt' = 0 /\ level' = None
  /\ started' = 0 /\ bars' = None /\ lit' = FALSE /\ screen' = BlankScreen
  /\ empties' = {} /\ flat' = None /\ measured' = None /\ full' = None /\ cause' = None
  /\ UNCHANGED <<board, vbus>>

Plug ==
  /\ ~passed
  /\ vbus' = ~vbus
  /\ UNCHANGED <<board, phase, now, passed, policy, last_attempt, level, shownVars,
                 historyVars, cause>>

Tick ==
  /\ Running /\ passed /\ now < MaxTime
  /\ now' = now + 1 /\ passed' = FALSE
  /\ UNCHANGED <<board, phase, vbus, policy, last_attempt, level, shownVars,
                 historyVars, cause>>

Next ==
  \/ Boot \/ WaitPass \/ HostConnects \/ SearchPass \/ ControllerFound \/ PollPass
  \/ ControllerLost \/ HostDrops \/ Sleep \/ Update \/ Reset \/ Plug \/ Tick

Spec == Init /\ [][Next]_vars

---------------------------------------------------------------------------
(* Correctness *)

TypeOK ==
  /\ board \in Boards
  /\ phase \in {"Boot", "Wait", "Detect", "Poll", "Redetect", "Off", "Update"}
  /\ now \in Nat /\ last_attempt \in Nat /\ started \in Nat
  /\ {passed, vbus, lit} \subseteq BOOLEAN
  /\ empties \subseteq Nat

(* Readings that are evidence of one another: spaced, with bounded gaps. *)
Spaced(S) == \A a, b \in S : a < b => b - a >= MinSpacing
Linked(S) == \A a \in S : a = now \/ \E b \in S : a < b /\ b - a <= MaxGap
Spans(S, span) == \E a \in S : now - a >= span

(* A unit that its gauge powers down was read empty and discharging at that  *)
(* very time and often enough before it: EmptyReads times MinSpacing apart,  *)
(* no two neighbours more than MaxGap apart, over the span of the phase it   *)
(* was in, and never in between charging or healthy.  No phase change or     *)
(* extra reading makes it sooner (Policy::observe, lib.rs:230-248). *)
CutoffEarned ==
  cause # None /\ cause.why = "EmptyGauge" =>
    \E S \in SUBSET empties :
      /\ now \in S /\ Cardinality(S) >= EmptyReads
      /\ Spaced(S) /\ Linked(S) /\ Spans(S, Span(cause.context))

(* A cell that every reading finds flat and discharging powers the unit down *)
(* within the normal span and one more counted reading, and the time that    *)
(* many readings take, whatever phases it goes through and however often: a  *)
(* phase's own reading, counted or not, never puts the cutoff off            *)
(* (main.rs:567, lib.rs:287). *)
CountedInterval == NormalInterval + MinSpacing - 1
FlatCellGoesOff ==
  Running /\ flat # None =>
    \/ now - flat < SpanNormal + CountedInterval
    \/ now - flat <= (EmptyReads - 1) * CountedInterval

(* What a pass leaves to see, on the strip or on the VMU, is a level that    *)
(* was read no longer ago than Expiry, or 100 with the charger reporting     *)
(* complete on the cable as recently; so a level whose later reads fail is   *)
(* hidden in time in every phase (main.rs:574, 2829). *)
FitToShow(percent) ==
  \/ percent = None
  \/ measured # None /\ percent = measured.value /\ now - measured.at <= Expiry
  \/ percent = 100 /\ vbus /\ full # None /\ now - full <= Expiry
ShownIsCurrent ==
  passed =>
    /\ phase = "Poll" => FitToShow(screen.percent)
    /\ (phase = "Poll" /\ screen.known) \/ (Searching /\ now - started >= Grace)
         => FitToShow(bars)
=============================================================================
