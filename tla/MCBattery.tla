----------------------------- MODULE MCBattery -----------------------------
(***************************************************************************)
(* Readings of each board for the model checker: on the gauge a flat cell,   *)
(* one that charges, a healthy one, a full one, and reads of which the gauge, *)
(* the charge flag or everything failed.                                     *)
(***************************************************************************)
EXTENDS Battery

Gauge(charging, complete, percent) ==
  [charging |-> charging, charge_complete |-> complete, percent |-> percent,
   millivolts |-> None]
Cell(charging, percent, millivolts) ==
  [charging |-> charging, charge_complete |-> None, percent |-> percent,
   millivolts |-> millivolts]

MCReadings == [
  ip5306 |-> {Gauge(FALSE, FALSE, 0), Gauge(TRUE, FALSE, 0), Gauge(FALSE, FALSE, 50),
              Gauge(FALSE, TRUE, 50), Gauge(FALSE, None, None), Gauge(None, FALSE, 0),
              NoReading},
  xiao |-> {Cell(FALSE, 0, 1), Cell(TRUE, 0, 1), Cell(FALSE, 50, 2)},
  dk |-> {NoReading}]
=============================================================================
