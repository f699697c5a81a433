---- MODULE ButtonTask ----
(***************************************************************************)
(* sync_button_task: one button, gestures told apart by how long it is held *)
(* and by the taps before. Times are abstracted to thresholds passed; which *)
(* chord is armed (taps within 2 s, the controller's Start) is left open.   *)
(***************************************************************************)
EXTENDS AdapterState

VARIABLES
  button,   \* how far the gesture has come
  in_sync   \* the press began in the sync mode branch

buttonOwn == <<button, in_sync>>

Gestures ==
  {"Up",
   "Held",         \* under 2 s
   "PastSync",     \* 2 s passed
   "DfuAsked",     \* an armed hold passed 3.5 s
   "ConfigAsked",  \* as above with the configuration chord
   "Committed",    \* 7 s passed
   "Blinking"}     \* the profile switch confirms, five blinks of 100 ms

ButtonInit == button = "Up" /\ in_sync = FALSE

ButtonLost == button' = "Up" /\ in_sync' = FALSE

Press ==
  /\ button = "Up" /\ button' = "Held"
  /\ in_sync' = (connection_state = "SyncMode")
  /\ UNCHANGED <<connection_state, signals, flags, rumble_level, service, down>>

\* A tap wakes ble_task from its silence. A wake signaled at any other time is
\* drained before the next silence looks for one, so there it is left out.
Wakes(silent) == wake_request' = (wake_request \/ silent)

\* A tap wakes and counts; in sync mode it only counts.
ShortPress(silent) ==
  /\ button = "Held" /\ button' = "Up"
  /\ IF in_sync THEN UNCHANGED wake_request ELSE Wakes(silent)
  /\ in_sync' = FALSE
  /\ UNCHANGED <<connection_state, sync_mode, profile_change, flags,
                 rumble_level, service, down>>

\* The third tap: refused while draining, else admission closes with the check.
TriplePress(silent) ==
  /\ button = "Held" /\ ~in_sync
  /\ Wakes(silent)
  /\ IF Draining THEN button' = "Up" /\ UNCHANGED service
                 ELSE button' = "Blinking" /\ PauseWritesUnlessDraining
  /\ UNCHANGED <<in_sync, connection_state, sync_mode, profile_change, flags,
                 rumble_level, down>>

PassesSync ==
  /\ button = "Held" /\ button' = "PastSync"
  /\ in_sync' = FALSE
  /\ UNCHANGED <<connection_state, signals, flags, rumble_level, service, down>>

RequestDfu ==
  /\ button \in {"PastSync", "ConfigAsked"} /\ button' = "DfuAsked"
  /\ dfu_pending' = TRUE
  /\ UNCHANGED <<in_sync, connection_state, signals, sleep_request, goodbye_pending,
                 shutdown_forced, rumble_level, service, down>>

\* Refused while saves drain, or the marker did not take: only the hold knows.
RequestConfig ==
  /\ button = "PastSync" /\ button' = "ConfigAsked"
  /\ UNCHANGED <<in_sync, connection_state, signals, flags, rumble_level, service, down>>

\* Otherwise the reset is immediate.
RebootsIntoConfig == button = "PastSync" /\ ~Draining

CommitSleep ==
  /\ button \in {"PastSync", "DfuAsked", "ConfigAsked"} /\ button' = "Committed"
  /\ goodbye_pending' = TRUE
  /\ UNCHANGED <<in_sync, connection_state, signals, sleep_request, shutdown_forced,
                 dfu_pending, rumble_level, service, down>>

ForceOff ==
  /\ button = "Committed" /\ ~shutdown_forced /\ shutdown_forced' = TRUE
  /\ UNCHANGED <<buttonOwn, connection_state, signals, sleep_request, goodbye_pending,
                 dfu_pending, rumble_level, service, down>>

\* Mutant of ReleaseForSync: the check without the pause.
ReleaseUnpaused ==
  /\ button = "PastSync" /\ button' = "Up"
  /\ sync_mode' = (sync_mode \/ ~Draining)
  /\ UNCHANGED <<in_sync, connection_state, wake_request, profile_change, flags,
                 rumble_level, service, down>>

ReleaseForSync ==
  /\ button = "PastSync" /\ button' = "Up"
  /\ IF Draining THEN UNCHANGED <<sync_mode, service>>
                 ELSE PauseWritesUnlessDraining /\ sync_mode' = TRUE
  /\ UNCHANGED <<in_sync, connection_state, wake_request, profile_change, flags,
                 rumble_level, down>>

Release ==
  /\ button \in {"DfuAsked", "ConfigAsked", "Committed"} /\ button' = "Up"
  /\ UNCHANGED <<in_sync, connection_state, signals, flags, rumble_level, service, down>>

Blinked ==
  /\ button = "Blinking" /\ button' = "Up" /\ profile_change' = TRUE
  /\ UNCHANGED <<in_sync, connection_state, sync_mode, wake_request, flags,
                 rumble_level, service, down>>

\* The person; Blinked is the task's own.
Person(silent) ==
  \/ Press \/ ShortPress(silent) \/ TriplePress(silent) \/ PassesSync \/ RequestDfu
  \/ RequestConfig \/ CommitSleep \/ ForceOff \/ ReleaseForSync \/ Release

ButtonTypeOK == button \in Gestures /\ in_sync \in BOOLEAN
====
