---- MODULE BleTask ----
(***************************************************************************)
(* ble_task: advertising, the pairing window, sessions and what follows     *)
(* them. Whom a session is with, keys and flash are in Bonding.tla; here a   *)
(* bond is there or not. A board that supports sleep, as the retail one is. *)
(***************************************************************************)
EXTENDS AdapterState

VARIABLES
  ble,              \* the await ble_task is in
  bonded,           \* has_bond()
  had_connection,   \* the host went on purpose: no burst until it is woken
  blink_is_older    \* a profile gesture blinks since before this session

bleOwn == <<ble, bonded, had_connection, blink_is_older>>

Awaits ==
  {"Top",          \* between two branches of the loop
   "PhaseA",       \* advertising to the bonded host
   "PhaseB",       \* silent, waiting for a gesture or the sleep deadline
   "Parked",       \* in request_sleep
   "Window",       \* advertising in sync mode
   "Provisional",  \* a candidate is linked inside the window
   "Setup",        \* Connected, the 600 ms before the session loop
   "Admitted",     \* as Setup, but the candidate's server runs already
   "Serving",      \* the session loop
   "Ending",       \* the 500 ms after a session, still Connected
   "SyncDrop"}     \* the 1 s after a sync press hung up

BleInit ==
  /\ ble = "Top" /\ bonded \in BOOLEAN
  /\ had_connection = FALSE /\ blink_is_older = FALSE

\* The bond is in flash.
BleLost ==
  /\ ble' = "Top" /\ had_connection' = FALSE /\ blink_is_older' = FALSE
  /\ UNCHANGED bonded

Goes(to) == ble' = to

\* A profile switch is taken at the head of the loop, in the session loop, or
\* when a host connects just then; the slot is written and the chip resets.
TakesProfile ==
  /\ profile_change
  /\ \/ ble \in {"Top", "Serving"}
     \/ ble \in {"PhaseA", "Window"} /\ ~sync_mode

NoBondYet ==
  /\ ble = "Top" /\ ~profile_change
  /\ connection_state \in {"Idle", "Reconnecting"} /\ ~bonded
  /\ connection_state' = "SyncMode"
  /\ UNCHANGED <<bleOwn, signals, flags, rumble_level, service, down>>

Reconnect ==
  /\ ble = "Top" /\ ~profile_change
  /\ connection_state \in {"Idle", "Reconnecting"} /\ bonded
  /\ Goes(IF had_connection THEN "PhaseB" ELSE "PhaseA")
  /\ UNCHANGED <<bonded, had_connection, blink_is_older, connection_state, signals,
                 flags, rumble_level, service, down>>

OpenWindow ==
  /\ ble = "Top" /\ ~profile_change /\ connection_state = "SyncMode"
  /\ Goes("Window") /\ sync_mode' = FALSE
  /\ UNCHANGED <<bonded, had_connection, blink_is_older, connection_state,
                 wake_request, profile_change, flags, rumble_level, service, down>>

BurstOver ==
  /\ ble = "PhaseA" /\ Goes("PhaseB")
  /\ UNCHANGED <<bonded, had_connection, blink_is_older, connection_state, signals,
                 flags, rumble_level, service, down>>

\* A wake left over is drained before the next silence looks for one.
SyncWhileApart ==
  /\ ble \in {"PhaseA", "PhaseB"} /\ sync_mode
  /\ Goes("Top") /\ sync_mode' = FALSE /\ connection_state' = "SyncMode"
  /\ wake_request' = FALSE
  /\ UNCHANGED <<bonded, had_connection, blink_is_older, profile_change, flags, rumble_level, service, down>>

Woken ==
  /\ ble = "PhaseB" /\ wake_request
  /\ Goes("PhaseA") /\ wake_request' = FALSE /\ had_connection' = FALSE
  /\ UNCHANGED <<bonded, blink_is_older, connection_state, sync_mode,
                 profile_change, flags, rumble_level, service, down>>

\* request_sleep never returns; main takes it from here.
RequestSleep ==
  /\ \/ ble = "PhaseB"
     \/ ble = "Window" /\ ~bonded
  /\ Goes("Parked") /\ sleep_request' = TRUE /\ wake_request' = FALSE
  /\ UNCHANGED <<bonded, had_connection, blink_is_older, connection_state,
                 sync_mode, profile_change,
                 goodbye_pending, shutdown_forced, dfu_pending, rumble_level,
                 service, down>>

WindowOver ==
  /\ ble = "Window" /\ bonded
  /\ Goes("Top") /\ connection_state' = "Reconnecting" /\ had_connection' = FALSE
  /\ UNCHANGED <<bonded, blink_is_older, signals, flags, rumble_level, service, down>>

\* run_connection up to its first await: a sync press taken before it comes
\* first, then a profile switch, else the service is reset.
RefusedForSync ==
  /\ ble \in {"PhaseA", "Window"} /\ sync_mode
  /\ sync_mode' = FALSE /\ connection_state' = "SyncMode"
  /\ Goes(IF ble = "Window" THEN "Window" ELSE "Top")
  /\ UNCHANGED <<bonded, had_connection, blink_is_older, wake_request,
                 profile_change, flags, rumble_level, service, down>>

Connected(blinking) ==
  /\ ble \in {"PhaseA", "Window"} /\ ~sync_mode /\ ~profile_change
  /\ ServiceReset
  /\ blink_is_older' = blinking
  /\ IF ble = "Window"
     THEN Goes("Provisional") /\ UNCHANGED connection_state
     ELSE Goes("Setup") /\ connection_state' = "Connected"
  /\ UNCHANGED <<bonded, had_connection, signals, flags, rumble_level, down>>

\* The candidate left, reused the stored key or ran out of time.
CandidateRefused ==
  /\ ble = "Provisional" /\ Goes("Window")
  /\ UNCHANGED <<bonded, had_connection, blink_is_older, connection_state, signals,
                 flags, rumble_level, service, down>>

\* on_bonded closes the window: the host is new, its predecessor's intent is
\* forgotten. A link gone at once comes back as a lost one.
CandidateBonds(stays) ==
  /\ ble = "Provisional"
  /\ bonded' = TRUE /\ had_connection' = FALSE
  /\ IF stays THEN Goes("Admitted") /\ connection_state' = "Connected"
              ELSE Goes("Top") /\ connection_state' = "Reconnecting"
  /\ UNCHANGED <<blink_is_older, signals, flags, rumble_level, service, down>>

\* 600 ms after Connected the server is polled: it serves, or learns that the
\* link is gone. A gesture older than the session has blinked its 500 ms.
SessionStarts(linked) ==
  /\ ble \in {"Setup", "Admitted"} /\ ~blink_is_older
  /\ Goes(IF linked THEN "Serving" ELSE "Ending")
  /\ UNCHANGED <<bonded, had_connection, blink_is_older, connection_state, signals,
                 flags, rumble_level, service, down>>

Served == ble \in {"Admitted", "Serving"}

SaveAcked ==
  /\ Served /\ vmu_present /\ ~writes_paused /\ saves < MaxSaves
  /\ saves' = saves + 1
  /\ UNCHANGED <<bleOwn, connection_state, signals, flags, rumble_level,
                 vmu_present, writes_paused, down>>

\* A level above zero; one command at a time.
RumbleWritten(running) ==
  /\ Served /\ ~rumble_level /\ ~running /\ rumble_level' = TRUE
  /\ UNCHANGED <<bleOwn, connection_state, signals, flags, service, down>>

\* The link drops, or the notify budget hangs up.
SessionDrops ==
  /\ ble = "Serving" /\ Goes("Ending")
  /\ UNCHANGED <<bonded, had_connection, blink_is_older, connection_state, signals,
                 flags, rumble_level, service, down>>

SessionSynced ==
  /\ ble = "Serving" /\ sync_mode
  /\ Goes("SyncDrop") /\ sync_mode' = FALSE
  /\ UNCHANGED <<bonded, had_connection, blink_is_older, connection_state,
                 wake_request, profile_change, flags, rumble_level, service, down>>

SessionEnded(intentional) ==
  /\ ble = "Ending" /\ Goes("Top")
  /\ connection_state' = IF bonded THEN "Reconnecting" ELSE "Idle"
  /\ had_connection' = (had_connection \/ intentional)
  /\ UNCHANGED <<bonded, blink_is_older, signals, flags, rumble_level, service, down>>

HungUpForSync ==
  /\ ble = "SyncDrop" /\ Goes("Top") /\ connection_state' = "SyncMode"
  /\ UNCHANGED <<bonded, had_connection, blink_is_older, signals, flags,
                 rumble_level, service, down>>

\* What ble_task does of itself, by its own code and timers.
BleRuns ==
  \/ NoBondYet \/ Reconnect \/ OpenWindow
  \/ BurstOver \/ SyncWhileApart \/ Woken \/ RequestSleep \/ WindowOver
  \/ \E linked \in BOOLEAN : SessionStarts(linked)
  \/ SessionSynced \/ HungUpForSync
  \/ \E intentional \in BOOLEAN : SessionEnded(intentional)
  \/ CandidateRefused

\* What peers make it do.
Peers(blinking, running) ==
  \/ RefusedForSync \/ Connected(blinking)
  \/ \E stays \in BOOLEAN : CandidateBonds(stays)
  \/ SaveAcked \/ RumbleWritten(running) \/ SessionDrops

BleTypeOK ==
  /\ ble \in Awaits
  /\ {bonded, had_connection, blink_is_older} \subseteq BOOLEAN
====
