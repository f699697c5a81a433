----------------------------- MODULE PadReport -----------------------------
(***************************************************************************)
(* What a sample of the pad becomes on its way to a host: the condition     *)
(* reply parsed (controller_state.rs), the button map and the Guide chord   *)
(* folded in (remap.rs, remapped_report), and the sixteen bytes each        *)
(* profile sends (xbox_hid.rs).                                             *)
(***************************************************************************)
EXTENDS Integers, Sequences, FiniteSetsExt

Sources == <<"c", "b", "a", "start", "up", "down", "left", "right", "z", "y", "x", "d">>

\* A bit of the condition word is low while its button is down.
FromRaw(raw) ==
  {Sources[i] : i \in {j \in DOMAIN Sources : (raw \div 2^(j-1)) % 2 = 0}}

\* A condition reply, its words as bytes in wire order.
IsController(reply) == reply.function = 1

FromPayload(reply) ==
  [buttons   |-> FromRaw(reply.word1[3] * 256 + reply.word1[4]),
   trigger_l |-> reply.word1[1], trigger_r |-> reply.word1[2],
   stick_x   |-> reply.word2[3], stick_y   |-> reply.word2[4]]

DcCenter == 128
XboxCenter == 32768

Neutral == [buttons |-> {}, trigger_l |-> 0, trigger_r |-> 0,
            stick_x |-> DcCenter, stick_y |-> DcCenter]

Away(a, b) == IF a > b THEN a - b ELSE b - a

InDeadzone(value, deadzone) == Away(value, DcCenter) < deadzone

ScaleTrigger(value) == (value * 1023) \div 255

---------------------------------------------------------------------------
(* A map: what each source feeds, and how the stick is turned. *)

Booleans == {"A", "B", "X", "Y", "LB", "RB", "BACK", "START", "L3", "R3", "GUIDE"}
Directions == {"up", "down", "left", "right"}
Axes == {"LEFT_TRIGGER", "RIGHT_TRIGGER"}
Destinations == Booleans \cup Directions \cup Axes \cup {"NONE"}

ValidMap(map) ==
  /\ map.flags \subseteq {"swap_xy", "invert_x", "invert_y"}
  /\ map.stick_dest \in {"OFF", "LEFT_STICK", "HAT"}
  /\ map.trigger_threshold \in 1..255
  /\ \A i \in DOMAIN Sources : map.buttons[Sources[i]] \in Destinations
  /\ {map.trigger_l, map.trigger_r} \subseteq Destinations

DefaultMap ==
  [flags |-> {"swap_xy"}, stick_dest |-> "LEFT_STICK", stick_deadzone |-> 5,
   buttons |-> [c |-> "NONE", b |-> "B", a |-> "A", start |-> "START",
                up |-> "up", down |-> "down", left |-> "left", right |-> "right",
                z |-> "NONE", y |-> "Y", x |-> "X", d |-> "NONE"],
   trigger_l |-> "LEFT_TRIGGER", trigger_r |-> "RIGHT_TRIGGER", trigger_threshold |-> 128]

\* Each source's contribution to its destination; a held chord takes Start and
\* both triggers out before they meet the others.
Contributions(state, map, suppress) ==
  {[code |-> map.buttons[b], pressed |-> TRUE, axis |-> ScaleTrigger(255)] :
     b \in state.buttons \ (IF suppress THEN {"start"} ELSE {})}
  \cup
  {[code |-> t.code, pressed |-> t.value >= map.trigger_threshold, axis |-> ScaleTrigger(t.value)] :
     t \in IF suppress THEN {}
           ELSE {[code |-> map.trigger_l, value |-> state.trigger_l],
                 [code |-> map.trigger_r, value |-> state.trigger_r]}}

Pressed(contributions) == {c.code : c \in {d \in contributions : d.pressed}}

AxisOf(contributions, code) ==
  Max({0} \cup {c.axis : c \in {d \in contributions : d.code = code}})

Oriented(state, map) ==
  LET swapped == IF "swap_xy" \in map.flags
                 THEN <<state.stick_y, state.stick_x>> ELSE <<state.stick_x, state.stick_y>>
      Turned(value, flag) == IF flag \in map.flags THEN 255 - value ELSE value
  IN  [x |-> Turned(swapped[1], "invert_x"), y |-> Turned(swapped[2], "invert_y")]

StickAxis(value, map) ==
  IF map.stick_dest = "LEFT_STICK" /\ ~InDeadzone(value, map.stick_deadzone)
  THEN value * 257 ELSE XboxCenter

StickHat(stick, map) ==
  LET Side(value, low, high) ==
        IF InDeadzone(value, map.stick_deadzone) THEN {}
        ELSE {IF value >= DcCenter THEN high ELSE low}
  IN  IF map.stick_dest = "HAT"
      THEN Side(stick.y, "up", "down") \cup Side(stick.x, "left", "right") ELSE {}

\* Opposing directions, and more than two, are no direction.
Compass == <<{"up"}, {"up", "right"}, {"right"}, {"right", "down"},
             {"down"}, {"down", "left"}, {"left"}, {"left", "up"}>>

HatMatch(directions) ==
  Max({0} \cup {i \in DOMAIN Compass : Compass[i] = directions})

RemappedReport(state, map, suppress, guide) ==
  LET all   == Contributions(state, map, suppress)
      stick == Oriented(state, map)
  IN  [left_x |-> StickAxis(stick.x, map), left_y |-> StickAxis(stick.y, map),
       left_trigger |-> AxisOf(all, "LEFT_TRIGGER"), right_trigger |-> AxisOf(all, "RIGHT_TRIGGER"),
       hat |-> HatMatch((Pressed(all) \cap Directions) \cup StickHat(stick, map)),
       buttons |-> (Pressed(all) \cap Booleans) \cup (IF guide THEN {"GUIDE"} ELSE {})]

---------------------------------------------------------------------------
(* The sixteen bytes of a report. *)

Le(value) == <<value % 256, value \div 256>>

Bits(pressed, places) == SumSet({2^i : i \in {j \in 0..7 : \E b \in pressed : b \in DOMAIN places /\ places[b] = j}})

Layout(profile) ==
  IF profile = "Xbox"
  THEN [first  |-> [A |-> 0, B |-> 1, X |-> 3, Y |-> 4, LB |-> 6, RB |-> 7],
        second |-> [BACK |-> 2, START |-> 3, GUIDE |-> 4, L3 |-> 5, R3 |-> 6]]
  ELSE [first  |-> [A |-> 0, B |-> 1, X |-> 2, Y |-> 3, LB |-> 4, RB |-> 5, BACK |-> 6, START |-> 7],
        second |-> [L3 |-> 0, R3 |-> 1, GUIDE |-> 2]]

ToBytes(report, profile) ==
  Le(report.left_x) \o Le(report.left_y) \o Le(XboxCenter) \o Le(XboxCenter)
  \o Le(report.left_trigger % 1024) \o Le(report.right_trigger % 1024)
  \o <<report.hat % 16, Bits(report.buttons, Layout(profile).first),
       Bits(report.buttons, Layout(profile).second), 0>>
=============================================================================
