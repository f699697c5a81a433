---- MODULE MainLoop ----
(***************************************************************************)
(* main: waiting for a connection (Phase 1), finding the controller (Phase  *)
(* 2), the poll loop (Phase 3), and every way down. A step is what runs     *)
(* between two awaits. What a pass of the poll loop does on the bus is in    *)
(* ReadPath.tla and SwapGuard.tla; here it writes a save or finds the card.  *)
(***************************************************************************)
EXTENDS AdapterState

VARIABLES
  main,           \* the await main is in
  goodbye_state,  \* of the poll loop
  link_lost,      \* link_lost_at is set
  rail,           \* the 5 V rail is up
  rail_hold,
  splash_tried,   \* sync_splash_tried
  motor           \* rumble

mainOwn == <<main, goodbye_state, link_lost, rail, rail_hold, splash_tried, motor>>

Places ==
  {"Wait", "ByeSplash", "P1Battery", "P1Boot", "P1Sync",   \* Phase 1
   "Detect", "P2Battery",                                  \* Phase 2
   "Top", "Battery", "Boot", "SyncSplash", "Body", "Redetect"}

RailHold     == {"Released", "Sync", "Grace"}
GoodbyeState == {"None", "Wait", "Hold"}

MainInit ==
  /\ main = "Wait" /\ goodbye_state = "None" /\ link_lost = FALSE
  /\ rail = FALSE /\ rail_hold = "Released" /\ splash_tried = FALSE /\ motor = FALSE

MainLost ==
  /\ main' = "Wait" /\ goodbye_state' = "None" /\ link_lost' = FALSE
  /\ rail' = FALSE /\ rail_hold' = "Released" /\ splash_tried' = FALSE /\ motor' = FALSE

GoodbyeDue == goodbye_pending /\ (shutdown_forced \/ ~Draining)

\* A reading so low that the policy shuts down, wherever a sample is taken.
CellFlat == main \in {"Wait", "Detect", "Body", "Redetect"}

---------------------------------------------------------------------------
(* Phase 1 *)

ConnectionSeen ==
  /\ main = "Wait" /\ connection_state = "Connected"
  /\ main' = "Detect" /\ splash_tried' = FALSE
  /\ rail_hold' = "Released" /\ rail' = TRUE
  /\ UNCHANGED <<goodbye_state, link_lost, motor, connection_state, signals, flags,
                 rumble_level, service, down>>

IsOver(elapsed) ==
  \/ rail_hold = "Sync" /\ connection_state # "SyncMode"
  \/ rail_hold = "Grace" /\ elapsed

\* The head of a Phase 1 pass, and what it leaves for the rest of the pass.
PassHead(elapsed) ==
  /\ main = "Wait" /\ connection_state # "Connected"
  /\ rail_hold' = IF IsOver(elapsed) THEN "Released" ELSE rail_hold

StillTried == splash_tried /\ connection_state = "SyncMode"

\* From the sleep request on; a splash brings the rail up.
RestOfPass(lit) ==
  /\ ~sleep_request
  /\ IF connection_state = "SyncMode" /\ ~splash_tried
     THEN main' = "P1Sync" /\ rail' = TRUE /\ splash_tried' = TRUE
     ELSE main' = "Wait" /\ rail' = lit /\ splash_tried' = StillTried
  /\ UNCHANGED <<goodbye_state, link_lost, motor, connection_state, signals,
                 sleep_request, goodbye_pending, shutdown_forced, rumble_level,
                 service, down>>

P1Sleeps ==
  /\ sleep_request /\ connection_state # "Connected"
  /\ \/ main = "Wait" /\ ~goodbye_pending /\ ~dfu_pending
     \/ main = "P1Battery"

P1Goodbye(elapsed) ==
  /\ PassHead(elapsed) /\ goodbye_pending
  /\ main' = "ByeSplash" /\ rail' = TRUE /\ splash_tried' = StillTried
  /\ UNCHANGED <<goodbye_state, link_lost, motor, connection_state, signals, flags,
                 rumble_level, service, down>>

ByeShown == main = "ByeSplash"

P1DfuAsked(elapsed) ==
  /\ PassHead(elapsed) /\ ~goodbye_pending /\ dfu_pending
  /\ dfu_pending' = FALSE /\ main' = "P1Battery"
  /\ rail' = (rail /\ ~IsOver(elapsed)) /\ splash_tried' = StillTried
  /\ UNCHANGED <<goodbye_state, link_lost, motor, connection_state, signals,
                 sleep_request, goodbye_pending, shutdown_forced, rumble_level,
                 service, down>>

P1DfuRefused == main = "P1Battery" /\ UNCHANGED <<rail_hold, dfu_pending>> /\ RestOfPass(rail)

P1DfuAllowed ==
  /\ main = "P1Battery" /\ main' = "P1Boot" /\ rail' = TRUE
  /\ UNCHANGED <<goodbye_state, link_lost, rail_hold, splash_tried, motor,
                 connection_state, signals, flags, rumble_level, service, down>>

P1Pass(elapsed) ==
  /\ PassHead(elapsed) /\ ~goodbye_pending /\ ~dfu_pending
  /\ UNCHANGED dfu_pending
  /\ RestOfPass(rail /\ ~IsOver(elapsed))

\* Mutant of P1SyncShown: an empty port drops the rail whoever holds it.
P1SyncDrops(seen) ==
  /\ main = "P1Sync" /\ main' = "Wait"
  /\ rail_hold' = IF seen THEN "Sync" ELSE rail_hold
  /\ rail' = seen
  /\ UNCHANGED <<goodbye_state, link_lost, splash_tried, motor, connection_state,
                 signals, flags, rumble_level, service, down>>

\* The rail stays up for the window only if the controller answered.
P1SyncShown(seen) ==
  /\ main = "P1Sync" /\ main' = "Wait"
  /\ rail_hold' = IF seen THEN "Sync" ELSE rail_hold
  /\ rail' = (rail_hold' # "Released")
  /\ UNCHANGED <<goodbye_state, link_lost, splash_tried, motor, connection_state,
                 signals, flags, rumble_level, service, down>>

---------------------------------------------------------------------------
(* Phase 2 *)

DetectAborted ==
  /\ main = "Detect" /\ connection_state # "Connected"
  /\ main' = "Wait" /\ rail_hold' = "Grace" /\ rumble_level' = FALSE
  /\ UNCHANGED <<goodbye_state, link_lost, rail, splash_tried, motor,
                 connection_state, signals, flags, service, down>>

DetectTimesOut == main = "Detect" /\ connection_state = "Connected"

P2Goodbye == main = "Detect" /\ connection_state = "Connected" /\ GoodbyeDue

P2DfuAsked ==
  /\ main = "Detect" /\ connection_state = "Connected" /\ ~GoodbyeDue /\ dfu_pending
  /\ dfu_pending' = FALSE /\ main' = "P2Battery"
  /\ UNCHANGED <<goodbye_state, link_lost, rail, rail_hold, splash_tried, motor,
                 connection_state, signals, sleep_request, goodbye_pending,
                 shutdown_forced, rumble_level, service, down>>

P2DfuRefused ==
  /\ main = "P2Battery" /\ main' = "Detect"
  /\ UNCHANGED <<goodbye_state, link_lost, rail, rail_hold, splash_tried, motor,
                 connection_state, signals, flags, rumble_level, service, down>>

Found ==
  /\ main = "Detect" /\ connection_state = "Connected" /\ ~GoodbyeDue /\ ~dfu_pending
  /\ main' = "Top" /\ goodbye_state' = "None" /\ link_lost' = FALSE
  /\ UNCHANGED <<rail, rail_hold, splash_tried, motor, connection_state, signals,
                 flags, rumble_level, service, down>>

---------------------------------------------------------------------------
(* Phase 3: a pass from its top to its first await *)

\* Mutant of ByeWaited: no way on for a goodbye that is never drawn.
ByeDrawn(elapsed) == elapsed /\ vmu_present

\* BYE went out, or 500 ms passed without.
ByeWaited(elapsed) == elapsed

\* Asked at the goodbye's start and again at its end.
MaySleep == shutdown_forced \/ ~Draining

GoodbyeStarts == goodbye_state = "None" /\ goodbye_pending /\ (shutdown_forced \/ ~Draining)

GoodbyeSleeps == main = "Top" /\ goodbye_state = "Hold" /\ MaySleep

\* The goodbye's part of a pass that does not end in sleep.
GoodbyeNext(elapsed) ==
  /\ main = "Top"
  /\ ~(goodbye_state = "Hold" /\ elapsed /\ MaySleep)
  /\ goodbye_state' =
       CASE GoodbyeStarts -> "Wait"
         [] goodbye_state = "Wait" /\ ByeWaited(elapsed) -> "Hold"
         [] goodbye_state = "Hold" /\ elapsed -> "None"
         [] OTHER -> goodbye_state

\* The first pass without the host.
Silenced == motor' = FALSE /\ rumble_level' = FALSE

RumbleApplied == motor' = (motor \/ rumble_level) /\ rumble_level' = FALSE

\* The update gesture, consumed whatever comes of it.
DfuTaken ==
  /\ dfu_pending' = FALSE
  /\ main' = IF dfu_pending /\ ~Draining THEN "Battery" ELSE "Body"

PassConnected(elapsed) ==
  /\ GoodbyeNext(elapsed) /\ connection_state = "Connected"
  /\ link_lost' = FALSE /\ RumbleApplied /\ DfuTaken
  /\ UNCHANGED <<rail, rail_hold, splash_tried, connection_state, signals,
                 sleep_request, goodbye_pending, shutdown_forced, service, down>>

Holds(late) ==
  /\ connection_state # "SyncMode" /\ ~shutdown_forced /\ Draining
  /\ ~(link_lost /\ late)

PassHeld(elapsed) ==
  /\ GoodbyeNext(elapsed) /\ connection_state # "Connected" /\ Holds(FALSE)
  /\ link_lost' = TRUE /\ DfuTaken
  /\ IF link_lost THEN RumbleApplied ELSE Silenced
  /\ UNCHANGED <<rail, rail_hold, splash_tried, connection_state, signals,
                 sleep_request, goodbye_pending, shutdown_forced, service, down>>

\* Out of the loop: nobody watches the port any more.
Left ==
  /\ main' = "Wait" /\ goodbye_state' = "None" /\ link_lost' = FALSE /\ Unwatched

PassLeaves(late, drawable) ==
  /\ main = "Top" /\ ~(goodbye_state = "Hold" /\ MaySleep)
  /\ connection_state # "Connected" /\ ~Holds(late)
  /\ IF link_lost THEN UNCHANGED <<motor, rumble_level>> ELSE Silenced
  /\ IF connection_state # "SyncMode"
     THEN Left /\ rail_hold' = "Grace" /\ UNCHANGED splash_tried
     ELSE /\ rail_hold' = "Sync" /\ splash_tried' = TRUE
          /\ IF drawable
             THEN main' = "SyncSplash" /\ UNCHANGED <<goodbye_state, link_lost, service>>
             ELSE Left
  /\ UNCHANGED <<rail, connection_state, signals, flags, down>>

SyncShown ==
  /\ main = "SyncSplash" /\ Left
  /\ UNCHANGED <<rail, rail_hold, splash_tried, motor, connection_state, signals,
                 flags, rumble_level, down>>

\* The battery read awaited; a save may have come, so the check is made again
\* and closes admission.
DfuGated(allowed) ==
  /\ main = "Battery"
  /\ IF allowed /\ ~Draining THEN main' = "Boot" /\ PauseWritesUnlessDraining
                             ELSE main' = "Body" /\ UNCHANGED service
  /\ UNCHANGED <<goodbye_state, link_lost, rail, rail_hold, splash_tried, motor,
                 connection_state, signals, flags, rumble_level, down>>

Rebooted == main \in {"P1Boot", "P2Battery", "Boot"}

---------------------------------------------------------------------------
(* Phase 3: the rest of the pass *)

BodyDone ==
  /\ main = "Body" /\ main' = "Top"
  /\ UNCHANGED <<goodbye_state, link_lost, rail, rail_hold, splash_tried, motor,
                 connection_state, signals, flags, rumble_level, down>>

NothingNew == BodyDone /\ UNCHANGED service

CardFound == BodyDone /\ vmu_present' = TRUE /\ UNCHANGED <<writes_paused, saves>>

CardGone == BodyDone /\ Unwatched

SaveWritten ==
  BodyDone /\ vmu_present /\ Draining /\ saves' = saves - 1
  /\ UNCHANGED <<vmu_present, writes_paused>>

\* The card refused a block, or is another one: the generation ends.
SaveRefused ==
  BodyDone /\ vmu_present /\ Draining /\ saves' = 0
  /\ UNCHANGED <<vmu_present, writes_paused>>

Inactive == main = "Body" /\ ~Draining

ControllerLost ==
  /\ main = "Body" /\ main' = "Redetect" /\ Unwatched
  /\ UNCHANGED <<goodbye_state, link_lost, rail, rail_hold, splash_tried, motor,
                 connection_state, signals, flags, rumble_level, down>>

RedetectAborted ==
  /\ main = "Redetect" /\ connection_state # "Connected"
  /\ Left /\ rail_hold' = "Grace" /\ motor' = FALSE /\ rumble_level' = FALSE
  /\ UNCHANGED <<rail, splash_tried, connection_state, signals, flags, down>>

RedetectTimesOut == main = "Redetect" /\ connection_state = "Connected"

RedetectGoodbye ==
  main = "Redetect" /\ connection_state = "Connected" /\ GoodbyeDue

Refound ==
  /\ main = "Redetect" /\ connection_state = "Connected" /\ ~GoodbyeDue
  /\ main' = "Top"
  /\ UNCHANGED <<goodbye_state, link_lost, rail, rail_hold, splash_tried, motor,
                 connection_state, signals, flags, rumble_level, service, down>>

---------------------------------------------------------------------------
\* What main does by its own code and timers, short of going down.
Phase1 ==
  \/ ConnectionSeen \/ P1DfuRefused \/ P1DfuAllowed
  \/ \E elapsed \in {FALSE, rail_hold = "Grace"} :
       P1Goodbye(elapsed) \/ P1DfuAsked(elapsed) \/ P1Pass(elapsed)
  \/ \E seen \in BOOLEAN : P1SyncShown(seen)

Phase2 == DetectAborted \/ P2DfuAsked \/ P2DfuRefused \/ Found

Phase3 ==
  \/ \E elapsed \in {FALSE, goodbye_state # "None"} : PassConnected(elapsed) \/ PassHeld(elapsed)
  \/ \E late \in {FALSE, link_lost}, drawable \in {FALSE, connection_state = "SyncMode"} :
       PassLeaves(late, drawable)
  \/ \E allowed \in BOOLEAN : DfuGated(allowed)
  \/ SyncShown \/ NothingNew \/ CardFound \/ CardGone \/ SaveWritten \/ SaveRefused
  \/ ControllerLost \/ RedetectAborted \/ Refound

MainRuns == Phase1 \/ Phase2 \/ Phase3

\* Where main enters System Off because it was asked to.
SleepsAsAsked == ByeShown \/ P1Sleeps \/ P2Goodbye \/ GoodbyeSleeps \/ RedetectGoodbye

\* Where time alone may bring it there.
SleepsUnasked == DetectTimesOut \/ RedetectTimesOut \/ Inactive

\* Passes that bring a goodbye nearer, or end a drain for good.
GoodbyePasses ==
  \/ \E elapsed \in BOOLEAN : P1Goodbye(elapsed)
  \/ PassConnected(TRUE) /\ goodbye_pending

LeavesLate == \E drawable \in {FALSE, connection_state = "SyncMode"} : PassLeaves(TRUE, drawable)

MainTypeOK ==
  /\ main \in Places /\ goodbye_state \in GoodbyeState /\ rail_hold \in RailHold
  /\ {link_lost, rail, splash_tried, motor} \subseteq BOOLEAN
====
