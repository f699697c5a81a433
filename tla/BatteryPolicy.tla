--------------------------- MODULE BatteryPolicy ---------------------------
(***************************************************************************)
(* battery-policy/src/lib.rs: what one battery reading does to the evidence  *)
(* of an empty cell and to the facts that may be shown, and the gate of a    *)
(* firmware update.  A field of an observation that could not be read is     *)
(* None.  The facts' types share one shape, so one operator notes them all.  *)
(***************************************************************************)
EXTENDS Integers

CONSTANTS
  None,
  CutoffMillivolts, CutoffPercent,
  VoltageWhileSearching,           \* voltage_cutoff_while_searching
  EmptyReads,
  SpanSearching, SpanNormal,       \* confirm_span_*_ms
  MinSpacing, MaxGap,
  Expiry,                          \* display_expiry_ms
  U8Max                            \* where a count of readings saturates

(* What is kept of the readings of an empty cell. *)
Evidence == [first_counted : Nat, last_counted : Nat, counted : Nat]

ASSUME PolicyAssumption ==
  /\ {CutoffMillivolts, CutoffPercent, SpanSearching, SpanNormal, MaxGap, Expiry} \subseteq Nat
  /\ {EmptyReads, MinSpacing, U8Max} \subseteq Nat \ {0}
  /\ EmptyReads <= U8Max
  /\ VoltageWhileSearching \in BOOLEAN
  /\ None \notin Nat \cup BOOLEAN \cup Evidence

Context == {"Normal", "Searching"}

Elapsed(from, now) == IF now >= from THEN now - from ELSE 0

(* The policy that has observed nothing. *)
NewPolicy == [percent |-> None, charging |-> None, charge_complete |-> None, empty |-> None]

---------------------------------------------------------------------------
(* The evidence *)

(* An empty reading counts when it opens the evidence or is far enough from *)
(* the last one that counted. *)
GoesOn(empty, now) == empty # None /\ Elapsed(empty.last_counted, now) <= MaxGap
CountsAlways(empty, now) == TRUE         \* mutant: readings of one moment count apart
Counts(empty, now) ==
  GoesOn(empty, now) => Elapsed(empty.last_counted, now) >= MinSpacing

GatheredAnew(empty, now) ==              \* mutant: a reading too soon starts over
  IF ~GoesOn(empty, now) \/ ~Counts(empty, now)
  THEN [first_counted |-> now, last_counted |-> now, counted |-> 1]
  ELSE [empty EXCEPT !.last_counted = now,
                     !.counted = IF @ < U8Max THEN @ + 1 ELSE U8Max]
Gathered(empty, now) ==
  IF ~GoesOn(empty, now)
  THEN [first_counted |-> now, last_counted |-> now, counted |-> 1]
  ELSE IF ~Counts(empty, now) THEN empty
  ELSE [empty EXCEPT !.last_counted = now,
                     !.counted = IF @ < U8Max THEN @ + 1 ELSE U8Max]

Span(context) == IF context = "Searching" THEN SpanSearching ELSE SpanNormal

(* What clears the evidence: a cell that charges, one with a voltage to go *)
(* by, one that is healthy. *)
Clears(obs, can_sleep) ==
  \/ ~can_sleep
  \/ obs.charging = TRUE
  \/ obs.millivolts # None
  \/ obs.percent # None /\ obs.percent > CutoffPercent

ReadsEmpty(obs) == obs.percent # None /\ obs.percent <= CutoffPercent

EmptyAfter(empty, obs, now, can_sleep) ==
  IF Clears(obs, can_sleep) THEN None
  ELSE IF ReadsEmpty(obs) /\ obs.charging # None THEN Gathered(empty, now)
  ELSE empty

Confirmed(empty, obs, now, context, can_sleep) ==
  /\ ~Clears(obs, can_sleep)
  /\ ReadsEmpty(obs) /\ obs.charging # None
  /\ Counts(empty, now)
  /\ LET e == Gathered(empty, now)
     IN  e.counted >= EmptyReads /\ Elapsed(e.first_counted, e.last_counted) >= Span(context)

Tripped(obs, context, can_sleep) ==
  /\ can_sleep
  /\ obs.charging = FALSE
  /\ obs.millivolts # None /\ obs.millivolts < CutoffMillivolts
  /\ context = "Normal" \/ VoltageWhileSearching

Decision(empty, obs, now, context, can_sleep) ==
  CASE Tripped(obs, context, can_sleep) -> "Undervoltage"
    [] Confirmed(empty, obs, now, context, can_sleep) -> "EmptyGauge"
    [] OTHER -> "Continue"

---------------------------------------------------------------------------
(* The facts *)

NotedAgain(fact, value, now) ==          \* mutant: a failed read makes the old fact new
  IF value # None THEN [value |-> value, at |-> now]
  ELSE IF fact = None THEN None ELSE [fact EXCEPT !.at = now]
Noted(fact, value, now) == IF value = None THEN fact ELSE [value |-> value, at |-> now]

Observe(policy, obs, now, can_sleep) ==
  [percent |-> Noted(policy.percent, obs.percent, now),
   charging |-> Noted(policy.charging, obs.charging, now),
   charge_complete |-> Noted(policy.charge_complete, obs.charge_complete, now),
   empty |-> EmptyAfter(policy.empty, obs, now, can_sleep)]

Current(fact, now) ==
  IF fact # None /\ Elapsed(fact.at, now) <= Expiry THEN fact.value ELSE None

ShownPercent(policy, now, vbus) ==
  IF vbus /\ Current(policy.charge_complete, now) = TRUE THEN 100
  ELSE Current(policy.percent, now)

(* The update gate, on a board with a gauge and off the cable. *)
DfuAllowed(obs, min_percent) ==
  \/ obs.charging = TRUE
  \/ obs.percent # None /\ obs.percent >= min_percent
=============================================================================
