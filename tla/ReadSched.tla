------------------------------ MODULE ReadSched ------------------------------
(***************************************************************************)
(* When a window goes to storage instead of the controller poll, and when  *)
(* the display waits for it (maple-protocol/src/read_sched.rs).  The Rust  *)
(* type as a record; the hold and every span are measurements and left     *)
(* out.  Gaps are counted in window heads instead of RTC ticks.            *)
(***************************************************************************)
EXTENDS Integers

CONSTANTS
  ReadEveryN,   \* READ_EVERY_N
  GapHeads      \* heads after a frame by which READ_LCD_GAP_TICKS have passed

ASSUME ReadSchedAssumption == ReadEveryN \in Nat \ {0} /\ GapHeads \in Nat \ {0}

(* `windows` since the last issued read, as far as it matters; `defer` is "a
   read is owed and the gap holds it back". *)
Sched == [windows : 0..ReadEveryN, defer : BOOLEAN]

NewSched == [windows |-> 0, defer |-> FALSE]

Counted(s) ==
  [s EXCEPT !.windows = IF @ < ReadEveryN THEN @ + 1 ELSE ReadEveryN]

Cancel(s) == [s EXCEPT !.defer = FALSE]

(* Mutant: exhausted work does not cancel the read owed. *)
NoReadPossibleBusy(present, remaining) == ~present

(* No read can become due from here, and the display is released. *)
NoReadPossible(present, remaining) == ~present \/ ~remaining

ReadDue(s) == s.windows >= ReadEveryN

(* Where the window leaves the schedule... *)
Windowed(s, present, remaining, gap) ==
  LET c == Counted(s)
  IN  IF NoReadPossible(present, remaining) THEN Cancel(c)
      ELSE IF ReadDue(c) /\ gap < GapHeads THEN [c EXCEPT !.defer = TRUE]
      ELSE c

(* ...and whether it is a read's. *)
IsRead(s, present, remaining, gap, busy) ==
  /\ present /\ remaining
  /\ ReadDue(Counted(s)) /\ gap >= GapHeads
  /\ ~busy

(* The command is committed to the bus: the slot is consumed. *)
NoteIssued(s) == [windows |-> 0, defer |-> FALSE]

FrameGate(s) == ~s.defer
=============================================================================
