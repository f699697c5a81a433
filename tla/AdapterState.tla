---- MODULE AdapterState ----
(***************************************************************************)
(* What the three tasks of the firmware share: the connection state, the   *)
(* signals and flags of src/src/lib.rs, and as much of the VMU storage      *)
(* service (HostIo.tla has all of it) as decides when the unit may go down. *)
(* The executor is cooperative: a step runs from one await to the next.     *)
(***************************************************************************)
EXTENDS Naturals

CONSTANT MaxSaves   \* bound on saves acked and not yet on the card

ASSUME SavesAssumption == MaxSaves \in Nat \ {0}

VARIABLES
  connection_state,   \* get_connection_state()
  sync_mode,          \* SYNC_MODE is signaled
  wake_request,       \* WAKE_REQUEST is signaled
  profile_change,     \* PROFILE_CHANGE is signaled
  sleep_request,      \* SLEEP_REQUEST
  goodbye_pending,    \* GOODBYE_PENDING, the 7 s hold
  shutdown_forced,    \* SHUTDOWN_FORCED, the 15 s hold
  dfu_pending,        \* DFU_PENDING
  rumble_level,       \* RUMBLE_LEVEL holds a level above zero
  vmu_present,        \* the service was told of a card
  writes_paused,      \* write admission is closed
  saves,              \* acked and neither written nor discarded
  down                \* how the unit went down, "No" while it runs

signals == <<sync_mode, wake_request, profile_change>>
flags   == <<sleep_request, goodbye_pending, shutdown_forced, dfu_pending>>
service == <<vmu_present, writes_paused, saves>>

ConnectionState == {"Idle", "Reconnecting", "SyncMode", "Connected"}

\* Off by gesture or timeout, off on a flat cell, and the three resets.
Down == {"Slept", "Flat", "Dfu", "Config", "Reset"}

Draining == saves > 0

PauseWritesUnlessDraining ==
  /\ ~Draining
  /\ writes_paused' = TRUE
  /\ UNCHANGED <<vmu_present, saves>>

\* Mutant of ServiceReset: a session starts as the last one left it.
ServiceKept == UNCHANGED service

\* The service at the start of a session: what is staged survives.
ServiceReset == writes_paused' = FALSE /\ UNCHANGED <<vmu_present, saves>>

\* No card any more, whoever says so: the generation ends, what was staged
\* goes back to the host as DISCARDED.
Unwatched == vmu_present' = FALSE /\ saves' = 0 /\ UNCHANGED writes_paused

StateInit ==
  /\ connection_state = "Reconnecting"
  /\ sync_mode = FALSE /\ wake_request = FALSE /\ profile_change = FALSE
  /\ sleep_request = FALSE /\ goodbye_pending = FALSE
  /\ shutdown_forced = FALSE /\ dfu_pending = FALSE /\ rumble_level = FALSE
  /\ vmu_present = FALSE /\ writes_paused = FALSE /\ saves = 0
  /\ down = "No"

\* RAM is lost with the power, or cleared by the reset.
StateLost(how) ==
  /\ connection_state' = "Reconnecting"
  /\ sync_mode' = FALSE /\ wake_request' = FALSE /\ profile_change' = FALSE
  /\ sleep_request' = FALSE /\ goodbye_pending' = FALSE
  /\ shutdown_forced' = FALSE /\ dfu_pending' = FALSE /\ rumble_level' = FALSE
  /\ vmu_present' = FALSE /\ writes_paused' = FALSE /\ saves' = 0
  /\ down' = how

StateTypeOK ==
  /\ connection_state \in ConnectionState
  /\ {sync_mode, wake_request, profile_change} \subseteq BOOLEAN
  /\ {sleep_request, goodbye_pending, shutdown_forced, dfu_pending} \subseteq BOOLEAN
  /\ {rumble_level, vmu_present, writes_paused} \subseteq BOOLEAN
  /\ saves \in 0..MaxSaves
  /\ down \in Down \cup {"No"}
====
