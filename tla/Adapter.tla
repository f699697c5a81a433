---- MODULE Adapter ----
(***************************************************************************)
(* The firmware's three tasks together: main, ble_task and the button task  *)
(* on one cooperative executor, from boot to the next way down.             *)
(***************************************************************************)
EXTENDS MainLoop, BleTask, ButtonTask

vars == <<mainOwn, bleOwn, buttonOwn, connection_state, signals, flags,
          rumble_level, service, down>>

Init == MainInit /\ BleInit /\ ButtonInit /\ StateInit

\* A pass takes 16 ms, ending a session 500 ms and finding a host again at
\* least an advertising event: the poll loop sees every drop before the next
\* session, unless it waits in a splash or for the battery.
DropSeen == main \in {"Top", "Body"} => link_lost

\* A session serves 600 ms after Connected: by then Phase 1 and a sync splash,
\* which look at the state every 100 ms, and the poll loop have seen it.
SessionSeen ==
  /\ main \notin {"Wait", "P1Sync", "SyncSplash"}
  /\ main \in {"Top", "Body"} => ~link_lost

GoesDown(how) == StateLost(how) /\ MainLost /\ BleLost /\ ButtonLost

Sleep == SleepsAsAsked /\ GoesDown("Slept")

OtherDowns ==
  \/ SleepsUnasked /\ GoesDown("Slept")
  \/ CellFlat /\ GoesDown("Flat")
  \/ RebootsIntoConfig /\ GoesDown("Config")

Reset ==
  \/ Rebooted /\ GoesDown("Dfu")
  \/ TakesProfile /\ GoesDown("Reset")

MainSteps == MainRuns /\ UNCHANGED <<bleOwn, buttonOwn>>

BleSteps ==
  /\ BleRuns \/ Peers(button = "Blinking", motor)
  /\ ble = "PhaseA" => DropSeen \/ ble' # "Setup"
  /\ ble \in {"Setup", "Admitted"} /\ ble' # ble => SessionSeen
  /\ UNCHANGED <<mainOwn, buttonOwn>>

BlinkEnds == Blinked /\ blink_is_older' = FALSE /\ UNCHANGED <<mainOwn, ble, bonded, had_connection>>

ButtonSteps == Person(ble = "PhaseB") /\ UNCHANGED <<mainOwn, bleOwn>>

\* Each boot starts where Init does, with the bond that flash kept.
Boot ==
  /\ down # "No" /\ down' = "No"
  /\ UNCHANGED <<mainOwn, bleOwn, buttonOwn, connection_state, signals, flags,
                 rumble_level, service>>

Next ==
  \/ /\ down = "No"
     /\ MainSteps \/ BleSteps \/ BlinkEnds \/ ButtonSteps \/ Sleep \/ OtherDowns \/ Reset
  \/ Boot

Spec == Init /\ [][Next]_vars

\* Main goes on when it can, whatever the others do. Strong where a pass must
\* find its timer over, or the connection as it was a moment ago: the passes
\* and the drops before it go on.
Fairness ==
  /\ WF_vars(down = "No" /\ (MainSteps \/ Sleep \/ Reset))
  /\ SF_vars(down = "No" /\ (Sleep \/ ((GoodbyePasses \/ LeavesLate) /\ MainSteps)))

FairSpec == Spec /\ Fairness

---------------------------------------------------------------------------

TypeOK == StateTypeOK /\ MainTypeOK /\ BleTypeOK /\ ButtonTypeOK

\* What runs belongs to somebody: while main waits for a connection the rail is
\* up exactly as long as some hold owns it, and no motor runs. Of all the ways
\* out of Phases 2 and 3 and through a splash, none leaves the boost running
\* for nobody or cuts a hold short; whatever order a last command, a drop and a
\* drain come in, the loop is left silent, for the rail outlives the link.
NothingRunsOn == main = "Wait" => (rail <=> rail_hold # "Released") /\ ~motor

\* Unless the person forced it, the unit does not go to sleep, nor into its
\* configuration personality, over a save it acknowledged. Pairing mode costs
\* none either: none is discarded because the loop is left for a sync window,
\* though the link drops some time after the gesture passed.
GoesDownDrained ==
  [][/\ down' \in {"Slept", "Config"} /\ down = "No" => ~Draining \/ shutdown_forced
     /\ connection_state = "SyncMode" /\ main \in {"Top", "SyncSplash"}
          /\ main' = "Wait" => ~Draining]_vars

\* Admission that a gesture closed opens again: a session is served with its
\* saves refused only while something is under way that ends it, the sync press
\* or the switch still to be taken, the blinks or the reboot.
PauseHasEnd ==
  Served /\ writes_paused =>
    sync_mode \/ profile_change \/ button = "Blinking" \/ main = "Boot"

\* A sleep that was asked for is carried out, wherever main is: the 15 s hold,
\* and the one ble_task asks for, which parks it for good although main may
\* still be draining and looks only in Phase 1.
AskedGoesDown == shutdown_forced \/ sleep_request ~> down # "No"

\* What the triple press and the update gesture say of themselves: the check
\* that closes admission keeps it closed until the reset.
ClosedUntilReset == [][down' \in {"Reset", "Dfu"} /\ down = "No" => ~Draining]_vars
====
