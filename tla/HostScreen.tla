----------------------------- MODULE HostScreen -----------------------------
(***************************************************************************)
(* Who has the VMU's display: frames a host writes in chunks                 *)
(* (ble/host_lcd.rs), which the poll loop takes and shows before anything of *)
(* its own (main.rs): the profile splash, the animation, notes held for a    *)
(* while, BYE, and the disk icon of a drain over all of them.                *)
(*                                                                          *)
(* A frame's content is what the properties tell apart: "Whole", all of one  *)
(* pass of the present host's; "Torn", of several; "Old", of a host that     *)
(* left.  A step of the loop is one pass in which the controller answers.    *)
(* Writes to the card are unacknowledged: a frame sent may not land.         *)
(* Assumptions: the loop sees a session end before the next one starts, and  *)
(* start before it ends; the first chunk of a frame is not lost.             *)
(***************************************************************************)
EXTENDS Integers

CONSTANTS
  Chunks,       \* CHUNKS
  AnimEvery,    \* VMU_ANIM_INTERVAL
  HostWait,     \* VMU_HOST_INTERVAL
  HomePolls,    \* VMU_HOME_POLLS
  SettlePolls,  \* VMU_ICON_SETTLE_POLLS
  DelayPolls, SplashPolls

VARIABLES
  up,        \* a session with an admitted host
  chunk,      \* the host: which chunk of its frame comes next
  ingress,   \* host_lcd's
  phase,     \* main: "Away", "Detect" or "Poll"
  screen,    \* the poll loop's display state
  draining,  \* saves are staged
  asked,     \* GOODBYE_PENDING, SHUTDOWN_FORCED: "No", "Held", "Forced"
  present,   \* a VMU is docked, as the loop knows it
  icon,      \* it shows the disk icon, sent since it was found
  unshown    \* ghost: passes in a row whose frame would have landed while the
             \* drain went on and the icon was not on the screen

hostVars == <<up, chunk>>
screenVars == <<hostVars, ingress, phase, screen, draining, asked, present, icon, unshown>>

Index == 0 .. Chunks - 1

---------------------------------------------------------------------------
(* host_lcd: stage holds the chunks that are of the frame being sent. *)
(* `frame` is the frame that is pending, or "None". *)

NewIngress == [stage |-> {}, have |-> {}, frame |-> "None"]
Reset(i) == [i EXCEPT !.have = {}, !.frame = "None"]
AcceptWhole(i) == [i EXCEPT !.frame = "Whole", !.have = {}]

HaveOnly(i, index) == i.have \cup {index}   \* mutant: offset 0 starts nothing
HaveWith(i, index) == IF index = 0 THEN {0} ELSE i.have \cup {index}

AcceptChunk(i, index) ==
  LET stage == IF index = 0 THEN {0} ELSE i.stage \cup {index}
      have  == HaveWith(i, index)
  IN  IF have = Index
      THEN [stage |-> stage, have |-> {},
            frame |-> IF stage = Index THEN "Whole" ELSE "Torn"]
      ELSE [i EXCEPT !.stage = stage, !.have = have]

---------------------------------------------------------------------------
(* The parts of a pass, on the display state. *)

NewScreen == [buf |-> "Splash", dirty |-> TRUE, holds |-> FALSE, wait |-> 0,
              home |-> 0, splash |-> SplashPolls, delay |-> DelayPolls,
              anim |-> 0, settle |-> 0, since |-> 0, drained |-> FALSE,
              bye |-> "None", lost |-> FALSE]

(* The goodbye.  BYE is sent until its hold ends; saves that arrive meanwhile *)
(* take the display, and the goodbye, back. *)
ByeDue == asked = "Forced" \/ (asked = "Held" /\ ~draining)
Goodbye(s, elapsed) ==
  CASE s.bye = "None" /\ ByeDue -> [s EXCEPT !.buf = "Bye", !.dirty = TRUE, !.bye = "Wait"]
    [] s.bye = "Wait" /\ (~s.dirty \/ elapsed) -> [s EXCEPT !.bye = "Hold"]
    [] s.bye = "Hold" /\ elapsed -> [s EXCEPT !.bye = "None", !.holds = FALSE, !.home = 1]
    [] s.bye = "Hold" /\ ~elapsed /\ s.since >= AnimEvery -> [s EXCEPT !.dirty = TRUE]
    [] OTHER -> s

(* The link: a drop gives the host's screen back. *)
Linked(s) ==
  IF up THEN [s EXCEPT !.lost = FALSE]
  ELSE IF s.lost THEN s ELSE [s EXCEPT !.holds = FALSE, !.lost = TRUE]

(* An update refused says why, unless a host has the screen. *)
Refused(s, refused) ==
  IF ~refused \/ s.holds THEN s
  ELSE [s EXCEPT !.buf = "Note", !.dirty = TRUE, !.home = 2 * HomePolls]

(* The icon comes or goes: sent again, and again while the screen is quiet. *)
Edge(s) ==
  IF s.drained = draining THEN s
  ELSE [s EXCEPT !.drained = draining, !.dirty = TRUE, !.settle = SettlePolls]
RetriedNever(s) == s                        \* mutant: the icon is sent once
Retried(s) ==
  LET since == IF s.since < AnimEvery THEN s.since + 1 ELSE AnimEvery
      retry == s.bye = "None" /\ (draining \/ s.settle > 0)
  IN  [s EXCEPT !.since = since,
                !.settle = IF retry /\ @ > 0 THEN @ - 1 ELSE @,
                !.dirty = @ \/ (retry /\ since >= AnimEvery)]

(* A host's frame goes first. *)
Takes(s, i) == s.bye = "None" /\ s.wait = 0 /\ i.frame # "None"
HostTaken(s, i) ==
  IF Takes(s, i)
  THEN [s EXCEPT !.buf = i.frame, !.dirty = TRUE, !.wait = HostWait,
                 !.holds = TRUE, !.splash = 0, !.home = 0]
  ELSE [s EXCEPT !.wait = IF s.bye = "None" /\ @ > 0 THEN @ - 1 ELSE @]

GuideGlyph(s, guide) ==
  IF guide /\ s.bye = "None" /\ ~s.holds
  THEN [s EXCEPT !.buf = "Note", !.dirty = TRUE, !.home = HomePolls] ELSE s

Held(s) ==
  LET home == s.home - 1
      over == home = 0
  IN  [s EXCEPT !.home = home,
                !.buf = IF ~over THEN @ ELSE IF s.splash > 0 THEN "Splash" ELSE "Anim",
                !.anim = IF over /\ s.splash = 0 THEN 0 ELSE @,
                !.dirty = @ \/ home % AnimEvery = 0]
Animated(s) ==
  IF s.anim + 1 < AnimEvery THEN [s EXCEPT !.anim = @ + 1]
  ELSE [s EXCEPT !.anim = 0, !.buf = "Anim", !.dirty = TRUE]

Local(s) ==
  CASE s.bye # "None" \/ s.holds -> s
    [] OTHER ->
       CASE s.home > 0 -> Held(s)
         [] s.home = 0 /\ s.delay > 0 -> [s EXCEPT !.delay = @ - 1]
         [] s.home = 0 /\ s.delay = 0 /\ s.splash > 0 ->
              [s EXCEPT !.splash = @ - 1, !.anim = IF s.splash = 1 THEN AnimEvery ELSE @]
         [] OTHER -> Animated(s)

(* The frame that goes out: not at once, lost on the bus, or landed; without a
   card there is nothing to send it to. *)
Fates == IF present THEN {"Kept", "Lost", "Lands"} ELSE {"Kept"}
GoesOut(s, fate) == present /\ s.dirty /\ fate # "Kept"
Written(s, fate) ==
  IF GoesOut(s, fate) THEN [s EXCEPT !.dirty = FALSE, !.since = 0] ELSE s

---------------------------------------------------------------------------
(* The host and its link *)

hostOnly == <<phase, screen, draining, asked, present, icon, unshown>>

HostJoins ==
  /\ ~up /\ phase # "Detect" /\ (phase = "Poll" => screen.lost)
  /\ up' = TRUE /\ chunk' = 0
  /\ ingress' = [ingress EXCEPT !.stage = {}, !.frame = IF @ = "None" THEN @ ELSE "Old"]
  /\ screen' = IF screen.buf \in {"Whole", "Torn"}
                THEN [screen EXCEPT !.buf = "Old"] ELSE screen
  /\ UNCHANGED <<phase, draining, asked, present, icon, unshown>>

HostLeaves ==
  /\ up /\ (phase = "Poll" => ~screen.lost)
  /\ up' = FALSE
  /\ UNCHANGED <<chunk, ingress, hostOnly>>

SendWhole ==
  /\ up /\ chunk' = 0
  /\ ingress' = AcceptWhole(ingress)
  /\ UNCHANGED <<up, hostOnly>>
SendChunk ==
  /\ up /\ chunk' = (chunk + 1) % Chunks
  /\ ingress' = AcceptChunk(ingress, chunk)
  /\ UNCHANGED <<up, hostOnly>>
ChunkLost ==
  /\ up /\ chunk # 0 /\ chunk' = (chunk + 1) % Chunks
  /\ UNCHANGED <<up, ingress, hostOnly>>

---------------------------------------------------------------------------
(* The main loop *)

(* Phase 2 entry; its end, either way. *)
SessionBegins ==
  /\ phase = "Away" /\ up
  /\ phase' = "Detect" /\ ingress' = Reset(ingress)
  /\ UNCHANGED <<hostVars, screen, draining, asked, present, icon, unshown>>
Found ==
  /\ phase = "Detect"
  /\ phase' = "Poll"
  /\ UNCHANGED <<hostVars, ingress, screen, draining, asked, present, icon, unshown>>
NotFound ==
  /\ phase = "Detect" /\ ~up
  /\ phase' = "Away"
  /\ UNCHANGED <<hostVars, ingress, screen, draining, asked, present, icon, unshown>>

(* One pass; without a link it is made only to drain. *)
AtHead(s, elapsed, refused) == Refused(Linked(Goodbye(s, elapsed)), refused)
Sleeps(elapsed) == screen.bye = "Hold" /\ elapsed /\ ByeDue
Pass(elapsed, refused, guide, fate) ==
  /\ phase = "Poll" /\ (up \/ draining) /\ ~Sleeps(elapsed)
  /\ LET headed == Retried(Edge(AtHead(screen, elapsed, refused)))
         cut == ~up /\ ~screen.lost          \* the drop is seen in this pass
         held == IF cut THEN Reset(ingress) ELSE ingress
         shown == Local(GuideGlyph(HostTaken(headed, held), guide))
     IN  /\ screen' = Written(shown, fate)
         /\ ingress' = IF Takes(headed, held) THEN [held EXCEPT !.frame = "None"]
                       ELSE held
         /\ icon' = IF GoesOut(shown, fate) /\ fate = "Lands"
                    THEN draining /\ shown.bye = "None" ELSE icon
         /\ unshown' = IF /\ present /\ draining /\ shown.bye = "None"
                          /\ fate = "Lands" /\ ~icon'
                       THEN unshown + 1 ELSE 0
  /\ UNCHANGED <<hostVars, phase, draining, asked, present>>
(* A deadline passes only while a goodbye has one. *)
AnyPass ==
  \E elapsed \in {FALSE, screen.bye # "None"}, refused, guide \in BOOLEAN,
     fate \in Fates : Pass(elapsed, refused, guide, fate)

Leave ==
  /\ phase = "Poll" /\ ~up
  /\ phase' = "Away" /\ draining' = FALSE
  /\ screen' = NewScreen /\ present' = FALSE /\ icon' = FALSE
  /\ unshown' = 0
  /\ ingress' = IF screen.lost THEN ingress ELSE Reset(ingress)
  /\ UNCHANGED <<hostVars, asked>>

(* System Off and the boot after it. *)
Sleep ==
  /\ phase = "Poll" /\ Sleeps(TRUE)
  /\ up' = FALSE /\ chunk' = 0 /\ ingress' = NewIngress
  /\ phase' = "Away" /\ screen' = NewScreen
  /\ draining' = FALSE /\ asked' = "No" /\ present' = FALSE /\ icon' = FALSE
  /\ unshown' = 0

(* The probe finds the VMU docked, its display blank, or gone. *)
Dock ==
  /\ phase = "Poll" /\ ~present
  /\ present' = TRUE /\ icon' = FALSE /\ unshown' = 0
  /\ screen' = [screen EXCEPT !.dirty = TRUE]
  /\ UNCHANGED <<hostVars, ingress, phase, draining, asked>>
Undock ==
  /\ phase = "Poll" /\ present
  /\ present' = FALSE /\ draining' = FALSE
  /\ UNCHANGED <<hostVars, ingress, phase, screen, asked, icon, unshown>>

(* Saves are staged and written; a hold of the button. *)
Stage ==
  /\ phase = "Poll" /\ up /\ present /\ ~draining /\ draining' = TRUE
  /\ UNCHANGED <<hostVars, ingress, phase, screen, asked, present, icon, unshown>>
Drained ==
  /\ draining /\ draining' = FALSE
  /\ UNCHANGED <<hostVars, ingress, phase, screen, asked, present, icon, unshown>>
Hold ==
  /\ asked # "Forced" /\ asked' \in {"Held", "Forced"} \ {asked}
  /\ UNCHANGED <<hostVars, ingress, phase, screen, draining, present, icon, unshown>>

ScreenInit ==
  /\ up = FALSE /\ chunk = 0 /\ ingress = NewIngress
  /\ phase = "Away" /\ screen = NewScreen
  /\ draining = FALSE /\ asked = "No" /\ present = FALSE /\ icon = FALSE
  /\ unshown = 0

ScreenNext ==
  \/ HostJoins \/ HostLeaves \/ SendWhole \/ SendChunk \/ ChunkLost
  \/ SessionBegins \/ Found \/ NotFound \/ AnyPass \/ Leave \/ Sleep
  \/ Dock \/ Undock \/ Stage \/ Drained \/ Hold

ScreenSpec == ScreenInit /\ [][ScreenNext]_screenVars

---------------------------------------------------------------------------
(* Correctness *)

(* While a host has the screen, what the loop will send is a frame of that   *)
(* host, all of one pass of it, or BYE: no chunk of an earlier frame, no     *)
(* frame of an earlier session, no note, splash or animation over it         *)
(* (host_lcd.rs:62-64, main.rs:1571-1585). *)
HostHoldsItsArt ==
  phase = "Poll" /\ screen.holds /\ screen.bye = "None" => screen.buf = "Whole"

(* A drain that goes on is shown by its icon over whatever is on the screen, *)
(* a parked game's art included: whatever was lost before, of AnimEvery      *)
(* passes in a row one sends it (main.rs:2243, 2266-2283).                   *)
DrainIsShown == unshown < AnimEvery
=============================================================================
