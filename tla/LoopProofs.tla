----------------------------- MODULE LoopProofs -----------------------------
(***************************************************************************)
(* What the poll loop promises.  Of Pad: the notify budget and the idle      *)
(* watch, for every limit, every age, every map and whatever replies a       *)
(* controller gives.  Of HostScreen: the host's frames and the drain's icon, *)
(* for frames of any number of chunks and any intervals.  Of Bus: what is    *)
(* taken from the wire, for any replies, thresholds, capture and slices.     *)
(***************************************************************************)
EXTENDS Pad, HostScreen, Bus, FiniteSetTheorems, SequenceTheorems,
        WellFoundedInduction, TLAPS

---------------------------------------------------------------------------
(* Pad *)

(* The budget's count is never ahead of the reports that were due on a link  *)
(* never encrypted, unless one was refused; it is zero when the link is not  *)
(* there, so that a connection starts with nothing counted.                  *)
Counted ==
  /\ failures \in Nat /\ met.withheld \in Nat /\ DOMAIN link = DOMAIN Down
  /\ ~link.up => failures = 0
  /\ met.refused \/ failures <= met.withheld \/ met.withheld > Limit

BudgetInv == Counted /\ HangsUpForCause

LEMMA LimitType == Limit \in Nat
  BY PadAssumption

LEMMA BudgetInit == PadInit => BudgetInv
  BY DEF PadInit, BudgetInv, Counted, HangsUpForCause, NothingMet, Down

(* One report due. *)
LEMMA BudgetTick ==
  ASSUME BudgetInv, NEW outcome \in Outcomes, NotifyTick(outcome)
  PROVE  BudgetInv'
<1> DEFINE count == Recorded(failures, link.encrypted, outcome)
<1>1. /\ link.up
      /\ outcome = "Withheld" \/ MaySend(link.encrypted)
      /\ IF HangsUp(count) THEN failures' = 0 /\ link' = Down
                           ELSE failures' = count /\ link' = link
      /\ met' = [withheld |-> IF outcome = "Withheld" /\ met.withheld <= Limit
                              THEN met.withheld + 1 ELSE met.withheld,
                 refused |-> met.refused \/ outcome = "Refused",
                 hung_up |-> HangsUp(count)]
  BY DEF NotifyTick, Ends, OutcomesOf
<1>2. /\ count \in Nat
      /\ count <= failures \/ (count = failures + 1 /\ outcome \in {"Withheld", "Refused"})
  BY <1>1 DEF BudgetInv, Counted, Recorded, MaySend, Outcomes
<1>3. /\ met'.withheld = IF outcome = "Withheld" /\ met.withheld <= Limit
                         THEN met.withheld + 1 ELSE met.withheld
      /\ met.refused \/ outcome = "Refused" => met'.refused
      /\ met'.hung_up => HangsUp(count)
  BY <1>1
<1>4. met'.refused \/ count <= met'.withheld \/ met'.withheld > Limit
  <2> HIDE DEF count
  <2>1. CASE met.refused \/ outcome = "Refused"
    BY <1>3, <2>1
  <2>2. CASE ~met.refused /\ outcome # "Refused"
    BY <1>2, <1>3, <2>2, LimitType DEF BudgetInv, Counted
  <2> QED
    BY <2>1, <2>2
<1>5. Counted'
  <2> HIDE DEF count
  <2> QED
    BY <1>1, <1>2, <1>3, <1>4, LimitType DEF BudgetInv, Counted, Down
<1>6. HangsUpForCause'
  <2> HIDE DEF count
  <2>1. met'.hung_up => count > Limit
    BY <1>3 DEF HangsUp
  <2>2. met'.refused \/ (met'.hung_up => met'.withheld > Limit)
    BY <1>2, <1>4, <1>5, <2>1, LimitType DEF Counted
  <2> QED
    BY <2>2 DEF HangsUpForCause
<1> QED
  BY <1>5, <1>6 DEF BudgetInv

LEMMA BudgetNext == BudgetInv /\ [PadNext]_padVars => BudgetInv'
<1> SUFFICES ASSUME BudgetInv, [PadNext]_padVars
             PROVE  BudgetInv'
  OBVIOUS
<1> USE DEF BudgetInv, Counted, HangsUpForCause
<1>1. CASE Enter \/ SeesDrop \/ DrainEnds \/ Redetected \/ Polls \/ UNCHANGED padVars
  BY <1>1 DEF Enter, SeesDrop, DrainEnds, Redetected, Polls, PollFails, PollAnswered,
              padVars, notifyVars
<1>2. CASE Connect
  BY <1>2, LimitType DEF Connect, NothingMet, Down
<1>3. CASE Encrypt \/ WritesCccd
  BY <1>3 DEF Encrypt, WritesCccd, notifyVars, Down
<1>4. CASE Drop
  BY <1>4, LimitType DEF Drop, Ends, Down
<1>5. CASE Time
  BY <1>5 DEF Time
<1>6. CASE \E outcome \in Outcomes : NotifyTick(outcome)
  BY <1>6, BudgetTick
<1> QED
  BY <1>1, <1>2, <1>3, <1>4, <1>5, <1>6 DEF PadNext

\* A link is hung up on after a refusal for good, or after more reports than
\* the budget fell due while it was not encrypted, and for nothing else, in
\* whatever order failures of every kind come (notify_budget.rs:89).
THEOREM HungUpForCause == PadSpec => []HangsUpForCause
<1>1. BudgetInv => HangsUpForCause
  BY DEF BudgetInv
<1> QED
  BY <1>1, BudgetInit, BudgetNext, PTL DEF PadSpec

-----------------------------------------------------------------------------
(* Once the watch has taken a sample, its anchor is where the pad last moved. *)
Anchored ==
  /\ watch = [anchor |-> watch.anchor, since |-> watch.since, fresh |-> watch.fresh]
  /\ ~watch.fresh => rested = watch.anchor

LEMMA NotedFields ==
  ASSUME NEW state, Anchored
  PROVE  LET w == Noted(watch, state)
         IN  /\ w = [anchor |-> w.anchor, since |-> w.since, fresh |-> w.fresh]
             /\ IF watch.fresh \/ Moved(watch.anchor, state)
                THEN w.anchor = state /\ w.since = 0 ELSE w = watch
  BY DEF Noted, Anchored

LEMMA AnchoredNext == Anchored /\ [PadNext]_padVars => Anchored'
<1> SUFFICES ASSUME Anchored, [PadNext]_padVars
             PROVE  Anchored'
  OBVIOUS
<1>1. CASE Enter
  BY <1>1 DEF Enter, NewWatch, Anchored
<1>2. ASSUME NEW reply \in Replies, PollAnswered(reply)
      PROVE  Anchored'
  <2> DEFINE state == Sample[reply]
  <2>1. /\ watch' = Noted(watch, state)
        /\ rested' = IF watch.fresh \/ Moved(watch.anchor, state) THEN state ELSE rested
    BY <1>2 DEF PollAnswered
  <2> HIDE DEF state
  <2> QED
    BY <2>1, NotedFields DEF Anchored
<1>3. CASE PollFails
  BY <1>3 DEF PollFails, NewWatch, Anchored
<1>4. CASE Time
  BY <1>4 DEF Time, Anchored, mainVars
<1>5. CASE \/ SeesDrop \/ DrainEnds \/ Redetected \/ Connect \/ Encrypt \/ WritesCccd \/ Drop
           \/ (\E outcome \in Outcomes : NotifyTick(outcome)) \/ UNCHANGED padVars
  BY <1>5 DEF SeesDrop, DrainEnds, Redetected, Connect, Encrypt, WritesCccd, Drop, NotifyTick,
              padVars, mainVars, Anchored
<1> QED
  BY <1>1, <1>2, <1>3, <1>4, <1>5 DEF PadNext, Polls

\* A pad that reads idle is within rest noise of where it last counted as
\* moving, whatever lost polls, drops and new sessions came in between: many
\* small moves never add up to one that is not seen (input_idle.rs:15-22).
THEOREM SlowPushIsSeen == PadSpec => SlowPushIsInput
<1>1. PadInit => Anchored
  BY DEF PadInit, Anchored, NewWatch
<1>2. Anchored /\ [PadNext]_padVars =>
        [pad' # pad /\ loop' = loop /\ IdleAt(watch') => ~Moved(rested', pad')]_<<pad, mainVars>>
  <2> SUFFICES ASSUME Anchored, PadNext, pad' # pad, loop' = loop, IdleAt(watch')
               PROVE  ~Moved(rested', pad')
    BY DEF padVars, mainVars
  <2>1. PICK reply \in Replies : PollAnswered(reply)
    <3>1. ~(Enter \/ SeesDrop \/ DrainEnds \/ Redetected \/ PollFails)
      BY DEF Enter, SeesDrop, DrainEnds, Redetected, PollFails
    <3>2. ~(Connect \/ Encrypt \/ WritesCccd \/ Drop \/ Time)
      BY DEF Connect, Encrypt, WritesCccd, Drop, Time
    <3>3. ~ \E outcome \in Outcomes : NotifyTick(outcome)
      BY DEF NotifyTick
    <3> QED
      BY <3>1, <3>2, <3>3 DEF PadNext, Polls
  <2> DEFINE state == Sample[reply]
  <2>2. /\ pad' = state /\ watch' = Noted(watch, state)
        /\ rested' = IF watch.fresh \/ Moved(watch.anchor, state) THEN state ELSE rested
    BY <2>1 DEF PollAnswered, Publish
  <2> HIDE DEF state
  <2>3. watch'.since # 0
    BY PadAssumption DEF IdleAt
  <2>4. ~watch.fresh /\ ~Moved(watch.anchor, state)
    BY <2>2, <2>3, NotedFields
  <2> QED
    BY <2>2, <2>4 DEF Anchored
<1> QED
  BY <1>1, <1>2, AnchoredNext, PTL DEF PadSpec, SlowPushIsInput

---------------------------------------------------------------------------
(* HostScreen *)

(* The display state is a record of these fields. *)
IsScreen(s) ==
  DOMAIN s = {"buf", "dirty", "holds", "wait", "home", "splash", "delay", "anim", "settle",
              "since", "drained", "bye", "lost"}

IsIngress(i) == i = [stage |-> i.stage, have |-> i.have, frame |-> i.frame]

(* A host that has the screen has its own frame on it. *)
Own(s) == s.holds /\ s.bye = "None" => s.buf = "Whole"

-----------------------------------------------------------------------------
(* What each part of a pass leaves alone. *)

LEMMA GoodbyeKeeps ==
  ASSUME NEW s, IsScreen(s), NEW elapsed
  PROVE  LET t == Goodbye(s, elapsed)
         IN  /\ IsScreen(t) /\ t.lost = s.lost /\ t.since = s.since
             /\ Own(s) => Own(t)
             /\ t.holds \in {s.holds, FALSE}
  BY DEF IsScreen, Own, Goodbye

LEMMA LinkedKeeps ==
  ASSUME NEW s, IsScreen(s), s.lost => ~s.holds
  PROVE  LET t == Linked(s)
         IN  /\ IsScreen(t) /\ t.since = s.since /\ t.bye = s.bye
             /\ Own(s) => Own(t)
             /\ t.lost <=> ~up
             /\ t.lost => ~t.holds
  BY DEF IsScreen, Own, Linked

LEMMA RefusedKeeps ==
  ASSUME NEW s, IsScreen(s), NEW refused
  PROVE  LET t == Refused(s, refused)
         IN  /\ IsScreen(t) /\ t.since = s.since /\ t.bye = s.bye
             /\ Own(s) => Own(t)
             /\ t.lost = s.lost /\ t.holds = s.holds
  BY DEF IsScreen, Own, Refused

LEMMA EdgeKeeps ==
  ASSUME NEW s, IsScreen(s)
  PROVE  LET t == Edge(s)
         IN  /\ IsScreen(t) /\ t.since = s.since /\ t.bye = s.bye /\ t.buf = s.buf
             /\ t.lost = s.lost /\ t.holds = s.holds
  BY DEF IsScreen, Edge

(* A drain's icon is sent again when the screen has been quiet for long. *)
LEMMA RetriedKeeps ==
  ASSUME NEW s, IsScreen(s)
  PROVE  LET t == Retried(s)
         IN  /\ IsScreen(t) /\ t.bye = s.bye /\ t.buf = s.buf
             /\ t.lost = s.lost /\ t.holds = s.holds
             /\ t.since = IF s.since < AnimEvery THEN s.since + 1 ELSE AnimEvery
             /\ draining /\ s.bye = "None" /\ t.since >= AnimEvery => t.dirty
<1> DEFINE since == IF s.since < AnimEvery THEN s.since + 1 ELSE AnimEvery
           retry == s.bye = "None" /\ (draining \/ s.settle > 0)
           settle == IF retry /\ s.settle > 0 THEN s.settle - 1 ELSE s.settle
           dirty == s.dirty \/ (retry /\ since >= AnimEvery)
           t == [s EXCEPT !.since = since, !.settle = settle, !.dirty = dirty]
<1>1. Retried(s) = t
  BY DEF Retried
<1>2. draining /\ s.bye = "None" /\ since >= AnimEvery => dirty
  OBVIOUS
<1> HIDE DEF since, settle, dirty, retry
<1>3. /\ IsScreen(t) /\ t.bye = s.bye /\ t.buf = s.buf
      /\ t.lost = s.lost /\ t.holds = s.holds /\ t.since = since /\ t.dirty = dirty
  BY DEF IsScreen
<1> HIDE DEF t
<1>4. since = IF s.since < AnimEvery THEN s.since + 1 ELSE AnimEvery
  BY DEF since
<1> QED
  BY <1>1, <1>2, <1>3, <1>4

LEMMA HostTakenKeeps ==
  ASSUME NEW s, IsScreen(s), NEW i, i.frame \in {"None", "Whole"}
  PROVE  LET t == HostTaken(s, i)
         IN  /\ IsScreen(t) /\ t.since = s.since /\ t.bye = s.bye /\ t.lost = s.lost
             /\ Own(s) => Own(t)
             /\ i.frame = "None" => t.holds = s.holds
             /\ s.dirty => t.dirty
<1>1. CASE Takes(s, i)
  <2>1. i.frame = "Whole"
    BY <1>1 DEF Takes
  <2> QED
    BY <1>1, <2>1 DEF IsScreen, Own, HostTaken
<1>2. CASE ~Takes(s, i)
  BY <1>2 DEF IsScreen, Own, HostTaken
<1> QED
  BY <1>1, <1>2

LEMMA GuideKeeps ==
  ASSUME NEW s, IsScreen(s), NEW guide
  PROVE  LET t == GuideGlyph(s, guide)
         IN  /\ IsScreen(t) /\ t.since = s.since /\ t.bye = s.bye /\ t.lost = s.lost
             /\ Own(s) => Own(t)
             /\ t.holds = s.holds
             /\ s.dirty => t.dirty
  BY DEF IsScreen, Own, GuideGlyph

LEMMA LocalKeeps ==
  ASSUME NEW s, IsScreen(s)
  PROVE  LET t == Local(s)
         IN  /\ IsScreen(t) /\ t.since = s.since /\ t.bye = s.bye /\ t.lost = s.lost
             /\ Own(s) => Own(t)
             /\ t.holds = s.holds
             /\ s.dirty => t.dirty
<1>1. CASE s.bye # "None" \/ s.holds
  BY <1>1 DEF Local
<1>2. CASE ~(s.bye # "None" \/ s.holds)
  <2>1. Local(s) \in
          {Held(s), [s EXCEPT !.delay = s.delay - 1],
           [s EXCEPT !.splash = s.splash - 1, !.anim = IF s.splash = 1 THEN AnimEvery ELSE s.anim],
           Animated(s)}
    BY <1>2 DEF Local
  <2>2. /\ IsScreen(Held(s)) /\ Held(s).since = s.since /\ Held(s).bye = s.bye
        /\ Held(s).lost = s.lost /\ Held(s).holds = s.holds
        /\ s.dirty => Held(s).dirty
    <3> DEFINE home == s.home - 1
               buf == IF home # 0 THEN s.buf ELSE IF s.splash > 0 THEN "Splash" ELSE "Anim"
               anim == IF home = 0 /\ s.splash = 0 THEN 0 ELSE s.anim
               dirty == s.dirty \/ home % AnimEvery = 0
               t == [s EXCEPT !.home = home, !.buf = buf, !.anim = anim, !.dirty = dirty]
    <3>1. Held(s) = t
      BY DEF Held
    <3>2. s.dirty => dirty
      OBVIOUS
    <3> HIDE DEF home, buf, anim, dirty
    <3>3. /\ IsScreen(t) /\ t.since = s.since /\ t.bye = s.bye /\ t.lost = s.lost
          /\ t.holds = s.holds /\ t.dirty = dirty
      BY DEF IsScreen
    <3> HIDE DEF t
    <3> QED
      BY <3>1, <3>2, <3>3
  <2>3. /\ IsScreen(Animated(s)) /\ Animated(s).since = s.since /\ Animated(s).bye = s.bye
        /\ Animated(s).lost = s.lost /\ Animated(s).holds = s.holds
        /\ s.dirty => Animated(s).dirty
    BY DEF IsScreen, Animated
  <2> QED
    BY <1>2, <2>1, <2>2, <2>3 DEF IsScreen, Own
<1> QED
  BY <1>1, <1>2

LEMMA WrittenKeeps ==
  ASSUME NEW s, IsScreen(s), NEW fate
  PROVE  LET t == Written(s, fate)
         IN  /\ IsScreen(t) /\ t.bye = s.bye /\ t.lost = s.lost /\ t.holds = s.holds
             /\ t.buf = s.buf
             /\ t.since = IF GoesOut(s, fate) THEN 0 ELSE s.since
  BY DEF IsScreen, Written

(* A pass from its head to what it leaves, shown or sent. *)
LEMMA PassKeeps ==
  ASSUME IsScreen(screen), screen.lost => ~screen.holds,
         NEW elapsed, NEW refused, NEW guide, NEW fate,
         NEW held, held.frame \in {"None", "Whole"}, ~up => held.frame = "None"
  PROVE  LET headed == Retried(Edge(AtHead(screen, elapsed, refused)))
             shown  == Local(GuideGlyph(HostTaken(headed, held), guide))
             after  == Written(shown, fate)
         IN  /\ IsScreen(after)
             /\ Own(screen) => Own(after)
             /\ after.lost <=> ~up
             /\ after.lost => ~after.holds
             /\ shown.since = IF screen.since < AnimEvery THEN screen.since + 1 ELSE AnimEvery
             /\ after.since = IF GoesOut(shown, fate) THEN 0 ELSE shown.since
             /\ draining /\ shown.bye = "None" /\ shown.since >= AnimEvery => shown.dirty
<1> DEFINE a == Goodbye(screen, elapsed)
           b == Linked(a)
           c == Refused(b, refused)
           d == Edge(c)
           e == Retried(d)
           f == HostTaken(e, held)
           g == GuideGlyph(f, guide)
           h == Local(g)
           k == Written(h, fate)
<1>1. /\ IsScreen(a) /\ a.since = screen.since
      /\ Own(screen) => Own(a)
      /\ a.lost => ~a.holds
  BY GoodbyeKeeps
<1> HIDE DEF a
<1>2. /\ IsScreen(b) /\ b.since = a.since
      /\ Own(a) => Own(b)
      /\ b.lost <=> ~up
      /\ b.lost => ~b.holds
  BY <1>1, LinkedKeeps
<1> HIDE DEF b
<1>3. /\ IsScreen(c) /\ c.since = b.since
      /\ Own(b) => Own(c)
      /\ c.lost = b.lost /\ c.holds = b.holds
  BY <1>2, RefusedKeeps
<1> HIDE DEF c
<1>4. /\ IsScreen(d) /\ d.since = c.since /\ d.bye = c.bye /\ d.buf = c.buf
      /\ d.lost = c.lost /\ d.holds = c.holds
  BY <1>3, EdgeKeeps
<1> HIDE DEF d
<1>5. /\ IsScreen(e) /\ e.bye = d.bye /\ e.buf = d.buf
      /\ e.lost = d.lost /\ e.holds = d.holds
      /\ e.since = IF d.since < AnimEvery THEN d.since + 1 ELSE AnimEvery
      /\ draining /\ d.bye = "None" /\ e.since >= AnimEvery => e.dirty
  BY <1>4, RetriedKeeps
<1> HIDE DEF e
<1>6. /\ IsScreen(f) /\ f.since = e.since /\ f.bye = e.bye /\ f.lost = e.lost
      /\ Own(e) => Own(f)
      /\ held.frame = "None" => f.holds = e.holds
      /\ e.dirty => f.dirty
  BY <1>5, HostTakenKeeps
<1> HIDE DEF f
<1>7. /\ IsScreen(g) /\ g.since = f.since /\ g.bye = f.bye /\ g.lost = f.lost
      /\ Own(f) => Own(g)
      /\ g.holds = f.holds
      /\ f.dirty => g.dirty
  BY <1>6, GuideKeeps
<1> HIDE DEF g
<1>8. /\ IsScreen(h) /\ h.since = g.since /\ h.bye = g.bye /\ h.lost = g.lost
      /\ Own(g) => Own(h)
      /\ h.holds = g.holds
      /\ g.dirty => h.dirty
  BY <1>7, LocalKeeps
<1> HIDE DEF h
<1>9. /\ IsScreen(k) /\ k.bye = h.bye /\ k.lost = h.lost /\ k.holds = h.holds
      /\ k.buf = h.buf
      /\ k.since = IF GoesOut(h, fate) THEN 0 ELSE h.since
  BY <1>8, WrittenKeeps
<1> HIDE DEF k
<1>10. Own(screen) => Own(k)
  BY <1>1, <1>2, <1>3, <1>4, <1>5, <1>6, <1>7, <1>8, <1>9 DEF Own
<1>11. (k.lost <=> ~up) /\ (k.lost => ~k.holds)
  BY <1>2, <1>3, <1>4, <1>5, <1>6, <1>7, <1>8, <1>9
<1>12. /\ h.since = IF screen.since < AnimEvery THEN screen.since + 1 ELSE AnimEvery
       /\ draining /\ h.bye = "None" /\ h.since >= AnimEvery => h.dirty
  BY <1>1, <1>2, <1>3, <1>4, <1>5, <1>6, <1>7, <1>8
<1>13. h = Local(GuideGlyph(HostTaken(Retried(Edge(AtHead(screen, elapsed, refused))), held), guide))
  BY DEF a, b, c, d, e, f, g, h, AtHead
<1>14. k = Written(h, fate)
  BY DEF k
<1> QED
  BY <1>9, <1>10, <1>11, <1>12, <1>13, <1>14

-----------------------------------------------------------------------------
(* Frames *)

(* What is pending while the loop is in a session is a whole frame of it, and *)
(* the chunks counted are of the frame being sent; once the loop has seen the *)
(* link go, nothing of its host is left.                                      *)
FrameInv ==
  /\ IsScreen(screen) /\ IsIngress(ingress)
  /\ phase \in {"Away", "Detect", "Poll"} /\ chunk \in Index /\ ingress.stage \subseteq Index
  /\ phase # "Poll" => screen.holds = FALSE /\ screen.lost = FALSE
  /\ phase # "Away" => ingress.frame \in {"None", "Whole"} /\ ingress.have \subseteq ingress.stage
  /\ screen.lost => ~screen.holds
  /\ screen.lost /\ ~up => ingress.frame = "None" /\ ingress.have = {}
  /\ Own(screen)

LEMMA FrameInit == Chunks \in Nat \ {0} /\ ScreenInit => FrameInv
  BY DEF ScreenInit, FrameInv, IsScreen, IsIngress, Own, NewScreen, NewIngress, Index

(* The pass keeps all of it. *)
LEMMA FramePass ==
  ASSUME FrameInv, NEW elapsed, NEW refused, NEW guide, NEW fate,
         Pass(elapsed, refused, guide, fate)
  PROVE  FrameInv'
<1> DEFINE cut == ~up /\ ~screen.lost
           held == IF cut THEN Reset(ingress) ELSE ingress
           headed == Retried(Edge(AtHead(screen, elapsed, refused)))
           shown == Local(GuideGlyph(HostTaken(headed, held), guide))
           after == Written(shown, fate)
<1>1. /\ phase = "Poll" /\ UNCHANGED <<up, chunk, phase>>
      /\ screen' = after
      /\ ingress' = held \/ ingress' = [held EXCEPT !.frame = "None"]
  BY DEF Pass, hostVars
<1>2. /\ IsIngress(held) /\ held.frame \in {"None", "Whole"} /\ held.have \subseteq held.stage
      /\ held.stage = ingress.stage
      /\ ~up => held.frame = "None" /\ held.have = {}
  BY <1>1 DEF FrameInv, IsIngress, Reset
<1> HIDE DEF held
<1>3. /\ IsScreen(after) /\ Own(after)
      /\ after.lost <=> ~up
      /\ after.lost => ~after.holds
  BY <1>2, PassKeeps DEF FrameInv
<1> HIDE DEF after
<1>4. /\ IsIngress(ingress') /\ ingress'.frame \in {"None", "Whole"}
      /\ ingress'.have \subseteq ingress'.stage /\ ingress'.stage = ingress.stage
      /\ ~up => ingress'.frame = "None" /\ ingress'.have = {}
  BY <1>1, <1>2 DEF IsIngress
<1> QED
  BY <1>1, <1>3, <1>4 DEF FrameInv

(* So does a chunk: a frame is pending only when all its chunks came in. *)
LEMMA FrameChunk ==
  ASSUME Chunks \in Nat \ {0}, FrameInv, SendChunk \/ SendWhole \/ ChunkLost
  PROVE  FrameInv'
<1>1. UNCHANGED <<up, phase, screen>> /\ up
  BY DEF SendChunk, SendWhole, ChunkLost, hostOnly
<1>2. chunk' \in Index
  BY DEF SendChunk, SendWhole, ChunkLost, FrameInv, Index
<1>3. /\ IsIngress(ingress') /\ ingress'.stage \subseteq Index
      /\ phase # "Away" =>
           ingress'.frame \in {"None", "Whole"} /\ ingress'.have \subseteq ingress'.stage
  <2>1. CASE SendWhole
    BY <2>1 DEF SendWhole, AcceptWhole, FrameInv, IsIngress
  <2>2. CASE ChunkLost
    BY <2>2 DEF ChunkLost, FrameInv
  <2>3. CASE SendChunk
    <3> DEFINE stage == IF chunk = 0 THEN {0} ELSE ingress.stage \cup {chunk}
               have == HaveWith(ingress, chunk)
    <3>1. ingress' = IF have = Index
                     THEN [stage |-> stage, have |-> {},
                           frame |-> IF stage = Index THEN "Whole" ELSE "Torn"]
                     ELSE [ingress EXCEPT !.stage = stage, !.have = have]
      BY <2>3 DEF SendChunk, AcceptChunk
    <3>2. stage \subseteq Index /\ (ingress.have \subseteq ingress.stage => have \subseteq stage)
      BY DEF HaveWith, FrameInv
    <3> HIDE DEF stage, have
    <3>3. CASE have = Index
      <4>1. ingress' = [stage |-> stage, have |-> {},
                        frame |-> IF stage = Index THEN "Whole" ELSE "Torn"]
        BY <3>1, <3>3
      <4>2. phase # "Away" => stage = Index
        BY <3>2, <3>3 DEF FrameInv
      <4> QED
        BY <3>2, <4>1, <4>2 DEF IsIngress
    <3>4. CASE have # Index
      BY <3>1, <3>2, <3>4 DEF FrameInv, IsIngress
    <3> QED
      BY <3>3, <3>4
  <2> QED
    BY <2>1, <2>2, <2>3
<1> QED
  BY <1>1, <1>2, <1>3 DEF FrameInv

LEMMA FrameNext == Chunks \in Nat \ {0} /\ FrameInv /\ [ScreenNext]_screenVars => FrameInv'
<1> SUFFICES ASSUME Chunks \in Nat \ {0}, FrameInv, [ScreenNext]_screenVars
             PROVE  FrameInv'
  OBVIOUS
<1>1. CASE HostJoins
  <2>1. /\ ~up /\ chunk' = 0 /\ phase' = phase /\ (phase = "Poll" => screen.lost) /\ phase # "Detect"
        /\ ingress' = [ingress EXCEPT !.stage = {},
                                      !.frame = IF ingress.frame = "None" THEN "None" ELSE "Old"]
        /\ screen' = screen \/ screen' = [screen EXCEPT !.buf = "Old"]
    BY <1>1 DEF HostJoins
  <2>2. IsScreen(screen') /\ screen'.holds = screen.holds /\ screen'.lost = screen.lost
    BY <2>1 DEF FrameInv, IsScreen
  <2>3. /\ IsIngress(ingress') /\ ingress'.stage = {} /\ ingress'.have = ingress.have
        /\ ingress.frame = "None" => ingress'.frame = "None"
    BY <2>1 DEF FrameInv, IsIngress
  <2>4. ~screen.holds
    BY <2>1 DEF FrameInv
  <2>5. up' /\ 0 \in Index
    BY <1>1 DEF HostJoins, Index
  <2> QED
    BY <2>1, <2>2, <2>3, <2>4, <2>5 DEF FrameInv, Own
<1>2. CASE HostLeaves
  BY <1>2 DEF HostLeaves, hostOnly, FrameInv
<1>3. CASE SendWhole \/ SendChunk \/ ChunkLost
  BY <1>3, FrameChunk
<1>4. CASE SessionBegins
  BY <1>4 DEF SessionBegins, hostVars, Reset, FrameInv, IsIngress
<1>5. CASE Found
  BY <1>5 DEF Found, hostVars, FrameInv
<1>6. CASE NotFound
  BY <1>6 DEF NotFound, hostVars, FrameInv
<1>7. CASE AnyPass
  BY <1>7, FramePass DEF AnyPass
<1>8. CASE Leave
  BY <1>8 DEF Leave, hostVars, NewScreen, Reset, FrameInv, IsScreen, IsIngress, Own
<1>9. CASE Sleep
  BY <1>9 DEF Sleep, NewScreen, NewIngress, Index, FrameInv, IsScreen, IsIngress, Own
<1>10. CASE Dock
  <2>1. screen' = [screen EXCEPT !.dirty = TRUE] /\ UNCHANGED <<up, chunk, ingress, phase>>
    BY <1>10 DEF Dock, hostVars
  <2> QED
    BY <2>1 DEF FrameInv, IsScreen, Own
<1>11. CASE Undock \/ Stage \/ Drained \/ Hold \/ UNCHANGED screenVars
  BY <1>11 DEF Undock, Stage, Drained, Hold, screenVars, hostVars, FrameInv
<1> QED
  BY <1>1, <1>2, <1>3, <1>4, <1>5, <1>6, <1>7, <1>8, <1>9, <1>10, <1>11 DEF ScreenNext

\* What is drawn for a host is a frame that this host sent, whole, whatever was
\* lost, cut short or pending when the link went (host_lcd.rs:62-64, 113).
THEOREM HostsHoldTheirArt == ASSUME Chunks \in Nat \ {0} PROVE ScreenSpec => []HostHoldsItsArt
<1>1. ScreenInit => FrameInv
  BY FrameInit
<1>2. FrameInv /\ [ScreenNext]_screenVars => FrameInv'
  BY FrameNext
<1>3. FrameInv => HostHoldsItsArt
  BY DEF FrameInv, HostHoldsItsArt, Own
<1> QED
  BY <1>1, <1>2, <1>3, PTL DEF ScreenSpec

-----------------------------------------------------------------------------
(* The icon *)

(* Passes without the icon are passes since something was last sent. *)
IconInv ==
  /\ screen.since \in Nat /\ unshown \in Nat
  /\ unshown <= screen.since /\ unshown < AnimEvery

LEMMA IconPass ==
  ASSUME AnimEvery \in Nat \ {0}, FrameInv, IconInv,
         NEW elapsed, NEW refused, NEW guide, NEW fate,
         Pass(elapsed, refused, guide, fate)
  PROVE  IconInv'
<1> DEFINE cut == ~up /\ ~screen.lost
           held == IF cut THEN Reset(ingress) ELSE ingress
           headed == Retried(Edge(AtHead(screen, elapsed, refused)))
           shown == Local(GuideGlyph(HostTaken(headed, held), guide))
           after == Written(shown, fate)
<1>1. /\ phase = "Poll" /\ screen' = after
      /\ icon' = IF GoesOut(shown, fate) /\ fate = "Lands"
                 THEN draining /\ shown.bye = "None" ELSE icon
      /\ unshown' = IF /\ present /\ draining /\ shown.bye = "None"
                       /\ fate = "Lands" /\ ~icon'
                    THEN unshown + 1 ELSE 0
  BY DEF Pass
<1>2. /\ held.frame \in {"None", "Whole"}
      /\ ~up => held.frame = "None"
  BY <1>1 DEF FrameInv, IsIngress, Reset
<1> HIDE DEF held
<1>3. /\ shown.since = IF screen.since < AnimEvery THEN screen.since + 1 ELSE AnimEvery
      /\ after.since = IF GoesOut(shown, fate) THEN 0 ELSE shown.since
      /\ draining /\ shown.bye = "None" /\ shown.since >= AnimEvery => shown.dirty
  BY <1>2, PassKeeps DEF FrameInv
<1> HIDE DEF shown, after
<1>4. CASE present /\ draining /\ shown.bye = "None" /\ fate = "Lands" /\ ~icon'
  <2>1. ~GoesOut(shown, fate)
    BY <1>1, <1>4
  <2>2. ~shown.dirty
    BY <1>4, <2>1 DEF GoesOut
  <2>3. shown.since < AnimEvery /\ shown.since = screen.since + 1
    BY <1>3, <1>4, <2>2 DEF IconInv
  <2> QED
    BY <1>1, <1>3, <1>4, <2>1, <2>3 DEF IconInv
<1>5. CASE ~(present /\ draining /\ shown.bye = "None" /\ fate = "Lands" /\ ~icon')
  <2>1. unshown' = 0
    BY <1>1, <1>5
  <2>2. after.since \in Nat
    BY <1>3 DEF IconInv
  <2> QED
    BY <1>1, <2>1, <2>2 DEF IconInv
<1> QED
  BY <1>4, <1>5

LEMMA IconNext ==
  AnimEvery \in Nat \ {0} /\ FrameInv /\ IconInv /\ [ScreenNext]_screenVars => IconInv'
<1> SUFFICES ASSUME AnimEvery \in Nat \ {0}, FrameInv, IconInv, [ScreenNext]_screenVars
             PROVE  IconInv'
  OBVIOUS
<1>1. CASE AnyPass
  BY <1>1, IconPass DEF AnyPass
<1>2. CASE Leave \/ Sleep
  <2>1. screen' = NewScreen /\ unshown' = 0
    BY <1>2 DEF Leave, Sleep
  <2>2. screen'.since = 0
    BY <2>1 DEF NewScreen
  <2> QED
    BY <2>1, <2>2 DEF IconInv
<1>3. CASE HostJoins
  <2>1. /\ unshown' = unshown
        /\ screen' = screen \/ screen' = [screen EXCEPT !.buf = "Old"]
    BY <1>3 DEF HostJoins
  <2>2. screen'.since = screen.since
    BY <2>1 DEF FrameInv, IsScreen
  <2> QED
    BY <2>1, <2>2 DEF IconInv
<1>4. CASE Dock
  BY <1>4 DEF Dock, IconInv, FrameInv, IsScreen
<1>5. CASE \/ HostLeaves \/ SendWhole \/ SendChunk \/ ChunkLost \/ SessionBegins \/ Found \/ NotFound
           \/ Undock \/ Stage \/ Drained \/ Hold \/ UNCHANGED screenVars
  BY <1>5 DEF HostLeaves, SendWhole, SendChunk, ChunkLost, SessionBegins, Found, NotFound, Undock, Stage,
              Drained, Hold, screenVars, hostOnly, IconInv
<1> QED
  BY <1>1, <1>2, <1>3, <1>4, <1>5 DEF ScreenNext

\* While saves drain, of AnimEvery passes in a row that could have reached the
\* card one shows the icon, whatever was sent and lost before (main.rs:2278).
THEOREM DrainsAreShown ==
  ASSUME Chunks \in Nat \ {0}, AnimEvery \in Nat \ {0}
  PROVE  ScreenSpec => []DrainIsShown
<1>1. ScreenInit => FrameInv /\ IconInv
  BY FrameInit DEF ScreenInit, IconInv, NewScreen
<1>2. FrameInv /\ IconInv /\ [ScreenNext]_screenVars => FrameInv' /\ IconInv'
  BY FrameNext, IconNext
<1>3. IconInv => DrainIsShown
  BY DEF IconInv, DrainIsShown
<1> QED
  BY <1>1, <1>2, <1>3, PTL DEF ScreenSpec
---------------------------------------------------------------------------
(* Bus *)

(* A nonempty set of naturals has a least member: what an argument by
   induction rests on here. *)
LEMMA LeastExists ==
  ASSUME NEW S, S \subseteq Nat, S # {}
  PROVE  \E i \in S : \A j \in S : i <= j
<1>1. PICK i \in S : \A j \in S : ~ (<<j, i>> \in OpToRel(<, Nat))
  BY NatLessThanWellFounded, WFMin
<1>2. \A j \in S : ~ (j < i)
  BY <1>1 DEF OpToRel
<1> QED
  BY <1>2

(* A set of naturals that holds zero and, with a number, the next holds them
   all. *)
LEMMA AllNaturals ==
  ASSUME NEW S, 0 \in S, \A n \in Nat : n \in S => n + 1 \in S
  PROVE  \A n \in Nat : n \in S
<1> DEFINE Bad == {n \in Nat : n \notin S}
<1> SUFFICES ASSUME Bad # {} PROVE FALSE
  OBVIOUS
<1>1. PICK m \in Bad : \A k \in Bad : m <= k
  <2>1. Bad \subseteq Nat
    OBVIOUS
  <2> HIDE DEF Bad
  <2> QED
    BY <2>1, LeastExists
<1>2. m \in Nat /\ m \notin S /\ m # 0
  OBVIOUS
<1>3. m - 1 \in Nat /\ ~(m <= m - 1)
  BY <1>2
<1>4. m - 1 \in S
  BY <1>1, <1>3
<1> QED
  BY <1>2, <1>3, <1>4

(* What Iterated counts is a loop of F from x, inside S. *)
LoopIn(S, F, x) ==
  /\ Iterated(F, x, 0) = x
  /\ \A n \in Nat : /\ Iterated(F, x, n) \in S
                    /\ Iterated(F, x, n + 1) = F[Iterated(F, x, n)]

(* The loop that Iterated counts is a function: its values are F's, one after
   the other, and stay where F stays. *)
LEMMA IteratedSteps ==
  ASSUME NEW S, NEW F, NEW x \in S, \A y \in S : F[y] \in S
  PROVE  LoopIn(S, F, x)
<1> DEFINE Next1(f, k) == IF k = 0 THEN x ELSE F[f[k - 1]]
           Upto(m, f) == f = [k \in 0..m |-> Next1(f, k)]
           Has == {m \in Nat : \E f : Upto(m, f)}
<1>1. \A m \in Nat : m \in Has
  <2>1. 0 \in Has
    <3>1. Upto(0, [k \in 0..0 |-> x])
      OBVIOUS
    <3> QED
      BY <3>1
  <2>2. \A m \in Nat : m \in Has => m + 1 \in Has
    <3> SUFFICES ASSUME NEW m \in Nat, m \in Has PROVE m + 1 \in Has
      OBVIOUS
    <3>1. PICK f : f = [k \in 0..m |-> Next1(f, k)]
      OBVIOUS
    <3> DEFINE g == [k \in 0..(m + 1) |-> IF k <= m THEN f[k] ELSE F[f[m]]]
    <3>2. \A k \in 0..(m + 1) : g[k] = Next1(g, k)
      <4> SUFFICES ASSUME NEW k \in 0..(m + 1) PROVE g[k] = Next1(g, k)
        OBVIOUS
      <4>1. CASE k = 0
        BY <4>1, <3>1
      <4>2. CASE k # 0 /\ k <= m
        <5>1. k \in 0..m /\ k - 1 \in 0..(m + 1) /\ k - 1 <= m
          BY <4>2
        <5>2. f[k] = F[f[k - 1]]
          BY <5>1, <4>2, <3>1
        <5> QED
          BY <5>1, <5>2, <4>2
      <4>3. CASE ~(k <= m)
        <5>1. k = m + 1 /\ k - 1 = m /\ k # 0 /\ m \in 0..(m + 1)
          BY <4>3
        <5> QED
          BY <5>1, <4>3
      <4> QED
        BY <4>1, <4>2, <4>3
    <3>3. g = [k \in 0..(m + 1) |-> Next1(g, k)]
      <4> DEFINE D == 0..(m + 1)
                 next(k) == Next1(g, k)
      <4>1. g = [k \in D |-> g[k]]
        OBVIOUS
      <4>2. \A k \in D : g[k] = next(k)
        BY <3>2
      <4> HIDE DEF D, g, next
      <4>3. g = [k \in D |-> next(k)]
        BY <4>1, <4>2, Zenon
      <4> QED
        BY <4>3 DEF D, next
    <3>4. Upto(m + 1, g)
      <4> HIDE DEF g
      <4> QED
        BY <3>3
    <3> HIDE DEF g, Upto
    <3> QED
      BY <3>4
  <2> HIDE DEF Has
  <2> QED
    BY <2>1, <2>2, AllNaturals
<1>2. \A m \in Nat, n \in Nat : \A f, g :
         Upto(m, f) /\ Upto(n, g) /\ m <= n => f[m] = g[m]
  <2> SUFFICES ASSUME NEW n \in Nat, NEW g, Upto(n, g)
               PROVE  \A m \in Nat : m <= n => \A f : Upto(m, f) => f[m] = g[m]
    <3> HIDE DEF Upto
    <3> QED
      BY Zenon
  <2> DEFINE Same == {m \in Nat : m <= n => \A f : Upto(m, f) => f[m] = g[m]}
  <2>1. 0 \in Same
    <3>1. \A f : Upto(0, f) => f[0] = g[0]
      <4> SUFFICES ASSUME NEW f, Upto(0, f) PROVE f[0] = g[0]
        OBVIOUS
      <4>1. 0 \in 0..0 /\ 0 \in 0..n
        OBVIOUS
      <4>2. f[0] = x /\ g[0] = x
        BY <4>1
      <4> QED
        BY <4>2
    <3> HIDE DEF Upto
    <3> QED
      BY <3>1
  <2>2. \A m \in Nat : m \in Same => m + 1 \in Same
    <3> SUFFICES ASSUME NEW m \in Nat, m \in Same, m + 1 <= n
                 PROVE  \A f : Upto(m + 1, f) => f[m + 1] = g[m + 1]
      <4> HIDE DEF Upto
      <4> QED
        OBVIOUS
    <3> SUFFICES ASSUME NEW f, Upto(m + 1, f)
                 PROVE  f[m + 1] = g[m + 1]
      OBVIOUS
    <3> DEFINE h == [k \in 0..m |-> f[k]]
    <3>1. \A k \in 0..m : h[k] = Next1(h, k)
      <4> SUFFICES ASSUME NEW k \in 0..m PROVE h[k] = Next1(h, k)
        OBVIOUS
      <4>1. f[k] = Next1(f, k)
        OBVIOUS
      <4>2. k # 0 => k - 1 \in 0..m
        OBVIOUS
      <4> QED
        BY <4>1, <4>2
    <3>2. Upto(m, h)
      <4> HIDE DEF Next1
      <4> QED
        BY <3>1
    <3>3. h[m] = g[m]
      <4> HIDE DEF h, Upto
      <4> QED
        BY <3>2
    <3>4. f[m + 1] = F[f[m]] /\ g[m + 1] = F[g[m]] /\ h[m] = f[m]
      OBVIOUS
    <3> QED
      BY <3>3, <3>4
  <2>3. \A m \in Nat : m \in Same
    <3> HIDE DEF Same
    <3> QED
      BY <2>1, <2>2, AllNaturals
  <2> QED
    BY <2>3
<1> DEFINE all == [k \in Nat |-> (CHOOSE f : Upto(k, f))[k]]
<1>3. \A k \in Nat : Upto(k, CHOOSE f : Upto(k, f))
  <2> HIDE DEF Upto
  <2> QED
    BY <1>1
<1>4. \A k \in Nat : all[k] = Next1(all, k)
  <2> SUFFICES ASSUME NEW k \in Nat PROVE all[k] = Next1(all, k)
    OBVIOUS
  <2> DEFINE f == CHOOSE f : Upto(k, f)
  <2>1. Upto(k, f)
    BY <1>3
  <2>2. all[k] = f[k]
    OBVIOUS
  <2> HIDE DEF f
  <2>3. f[k] = Next1(f, k)
    BY <2>1
  <2>4. k # 0 => f[k - 1] = all[k - 1]
    <3> SUFFICES ASSUME k # 0 PROVE f[k - 1] = all[k - 1]
      OBVIOUS
    <3> DEFINE e == CHOOSE e : Upto(k - 1, e)
    <3>1. k - 1 \in Nat /\ k - 1 <= k
      OBVIOUS
    <3>2. Upto(k - 1, e)
      BY <3>1, <1>3
    <3>3. all[k - 1] = e[k - 1]
      BY <3>1
    <3> HIDE DEF e, Upto, all
    <3> QED
      BY <3>1, <3>2, <3>3, <2>1, <1>2
  <2> HIDE DEF all, Upto
  <2> QED
    BY <2>2, <2>3, <2>4
<1>5. all = [k \in Nat |-> Next1(all, k)]
  <2> HIDE DEF Next1
  <2> QED
    BY <1>4
<1>6. \E f : f = [k \in Nat |-> Next1(f, k)]
  <2> HIDE DEF all
  <2> QED
    BY <1>5
<1> DEFINE after == CHOOSE f : f = [k \in Nat |-> Next1(f, k)]
<1>7. after = [k \in Nat |-> Next1(after, k)]
  <2> HIDE DEF Next1
  <2> QED
    BY <1>6
<1>8. \A n : Iterated(F, x, n) = after[n]
  BY DEF Iterated
<1> HIDE DEF after
<1>9. after[0] = x /\ \A n \in Nat : after[n + 1] = F[after[n]]
  <2>1. \A n \in Nat : after[n + 1] = Next1(after, n + 1)
    <3> HIDE DEF Next1
    <3> QED
      BY <1>7
  <2>2. after[0] = Next1(after, 0)
    <3> HIDE DEF Next1
    <3> QED
      BY <1>7
  <2> QED
    BY <2>1, <2>2
<1>10. \A n \in Nat : after[n] \in S
  <2> DEFINE In == {n \in Nat : after[n] \in S}
  <2>1. 0 \in In /\ \A n \in Nat : n \in In => n + 1 \in In
    BY <1>9
  <2>2. \A n \in Nat : n \in In
    <3> HIDE DEF In
    <3> QED
      BY <2>1, AllNaturals
  <2> QED
    BY <2>2
<1> QED
  BY <1>8, <1>9, <1>10 DEF LoopIn

-----------------------------------------------------------------------------
(* Types of the operators. *)

Level == SUBSET Floating

(* Captures. *)
Samplings == Seq(Level)

(* The number of samples. *)
Size(s) == Len(s)

(* Where a pattern is found, there is a sample before it and one at it. *)
LEMMA StartInside ==
  ASSUME NEW s \in Samplings, FindDataStart(s) # NoStart
  PROVE  FindDataStart(s) \in 1..(Len(s) - 1)
<1> DEFINE falls == FallsOfA(s)
           first(i) == /\ IsDataStart(s, i)
                       /\ \A j \in falls : j < i => ~IsDataStart(s, j)
<1>1. PICK i \in falls : IsDataStart(s, i)
  BY DEF FindDataStart
<1>2. falls \subseteq Nat
  BY DEF FallsOfA
<1>3. PICK m \in falls : first(m)
  <2> DEFINE Those == {j \in falls : IsDataStart(s, j)}
  <2>1. Those \subseteq Nat /\ Those # {}
    BY <1>1, <1>2
  <2>2. PICK m \in Those : \A j \in Those : m <= j
    <3> HIDE DEF Those
    <3> QED
      BY <2>1, LeastExists
  <2>3. \A j \in falls : j < m => ~IsDataStart(s, j)
    BY <2>2, <1>2
  <2> QED
    BY <2>2, <2>3
<1> DEFINE fall == CHOOSE j \in falls : first(j)
<1>4. fall \in falls /\ IsDataStart(s, fall)
  <2> HIDE DEF falls
  <2> QED
    BY <1>3
<1>5. FindDataStart(s) = RiseOfA(s, fall)
  BY <1>1 DEF FindDataStart
<1>6. fall \in Nat /\ Rises(s, fall)
  BY <1>2, <1>4 DEF IsDataStart
<1> HIDE DEF fall
<1>7. \E j \in (fall + 1)..(Len(s) - 1) :
        "A" \in At(s, j) /\ \A k \in (fall + 1)..(j - 1) : "A" \notin At(s, k)
  <2> DEFINE R == {j \in (fall + 1)..(Len(s) - 1) : "A" \in At(s, j)}
  <2>1. R \subseteq Nat /\ R # {}
    BY <1>6 DEF Rises
  <2>2. PICK j \in R : \A k \in R : j <= k
    <3> HIDE DEF R
    <3> QED
      BY <2>1, LeastExists
  <2> QED
    BY <2>2, <1>6
<1>8. RiseOfA(s, fall) \in (fall + 1)..(Len(s) - 1)
  BY <1>7 DEF RiseOfA
<1> QED
  BY <1>5, <1>6, <1>8

(* Samples are levels. *)
LEMMA AtType ==
  ASSUME NEW s \in Samplings, NEW i \in Nat, i < Len(s)
  PROVE  At(s, i) \in Level
BY DEF At, Samplings

(* An edge clocks in one bit, or none. *)
LEMMA BitAtType ==
  ASSUME NEW from, NEW to, NEW seen
  PROVE  BitAt(from, to, seen) \in {<<>>, <<0>>, <<1>>}
BY DEF BitAt

(* And so bits stay bits. *)
LEMMA BitsGrow ==
  ASSUME NEW bits \in Seq(Bit), NEW from, NEW to, NEW seen
  PROVE  bits \o BitAt(from, to, seen) \in Seq(Bit)
<1>1. <<0>> \in Seq(Bit) /\ <<1>> \in Seq(Bit) /\ <<>> \in Seq(Bit)
  BY DEF Bit
<1> QED
  BY <1>1, BitAtType, ConcatProperties

(* Eight bits are a byte, whatever else is known of them. *)
LEMMA ByteOfBits ==
  ASSUME NEW b, b[1] \in 0..1, b[2] \in 0..1, b[3] \in 0..1, b[4] \in 0..1,
         b[5] \in 0..1, b[6] \in 0..1, b[7] \in 0..1, b[8] \in 0..1
  PROVE  ByteOf(b) \in Byte
BY DEF ByteOf, Byte

(* The first eight of a sequence of bits are a byte. *)
LEMMA ByteOfType ==
  ASSUME NEW b \in Seq(Bit), Len(b) >= 8
  PROVE  ByteOf(b) \in Byte
<1>1. \A i \in 1..8 : b[i] \in 0..1
  BY DEF Bit
<1>2. /\ b[1] \in 0..1 /\ b[2] \in 0..1 /\ b[3] \in 0..1 /\ b[4] \in 0..1
      /\ b[5] \in 0..1 /\ b[6] \in 0..1 /\ b[7] \in 0..1 /\ b[8] \in 0..1
  BY <1>1
<1> QED
  BY <1>2, ByteOfBits

(* The bytes of the bits, one for every whole eight of them. *)
LEMMA BytesOfType ==
  ASSUME NEW bits \in Seq(Bit)
  PROVE  /\ BytesOf(bits) \in Seq(Byte)
         /\ Len(BytesOf(bits)) = Len(bits) \div 8
         /\ \A i \in 1..(Len(bits) \div 8) :
              BytesOf(bits)[i] = ByteOf(SubSeq(bits, 8 * i - 7, 8 * i))
<1> DEFINE n == Len(bits) \div 8
<1>1. n \in Nat /\ 8 * n <= Len(bits)
  OBVIOUS
<1>2. \A i \in 1..n : ByteOf(SubSeq(bits, 8 * i - 7, 8 * i)) \in Byte
  <2> SUFFICES ASSUME NEW i \in 1..n
               PROVE  ByteOf(SubSeq(bits, 8 * i - 7, 8 * i)) \in Byte
    OBVIOUS
  <2>1. 8 * i - 7 \in 1..Len(bits) /\ 8 * i \in 1..Len(bits)
    BY <1>1
  <2> DEFINE b == SubSeq(bits, 8 * i - 7, 8 * i)
  <2>2. b \in Seq(Bit) /\ Len(b) >= 8
    BY <2>1
  <2> HIDE DEF b
  <2>3. ByteOf(b) \in Byte
    BY <2>2, ByteOfType, Zenon
  <2> QED
    BY <2>3 DEF b
<1> HIDE DEF n
<1>3. BytesOf(bits) = [i \in 1..n |-> ByteOf(SubSeq(bits, 8 * i - 7, 8 * i))]
  BY DEF BytesOf, n
<1> QED
  BY <1>1, <1>2, <1>3 DEF n

(* A sample leaves an accumulator. *)
LEMMA BulkNextType ==
  ASSUME NEW s \in Samplings, NEW acc \in Accumulator
  PROVE  BulkNext(acc, s) \in Accumulator
<1>1. CASE acc.over \/ acc.at >= Len(s)
  BY <1>1 DEF BulkNext
<1>2. CASE ~(acc.over \/ acc.at >= Len(s))
  <2> DEFINE level == At(s, acc.at)
  <2>1. level \in Level
    BY <1>2, AtType DEF Accumulator, Samplings
  <2>2. BulkNext(acc, s) = BulkSample(acc, level)
    BY <1>2 DEF BulkNext
  <2> HIDE DEF level
  <2>3. BulkSample(acc, level) \in Accumulator
    <3> DEFINE quiet == IF level = acc.last THEN acc.quiet + 1 ELSE 0
               seen == acc.seen /\ ~(level # Idle /\ acc.idle > Gap)
               clocked == seen \/ "A" \in acc.last \ level
               idle == IF level = Idle THEN acc.idle + 1 ELSE 0
               bits == acc.bits \o BitAt(acc.last, level, seen)
    <3>1. quiet \in Nat /\ idle \in Nat /\ acc.at + 1 \in Nat
      BY DEF Accumulator
    <3>2. bits \in Seq(Bit)
      BY BitsGrow DEF Accumulator
    <3>3. clocked \in BOOLEAN
      BY Zenon
    <3>4. BulkSample(acc, level) =
            IF quiet > EndIdle /\ acc.bits # <<>> THEN [acc EXCEPT !.over = TRUE]
            ELSE [at |-> acc.at + 1, last |-> level, quiet |-> quiet,
                  over |-> FALSE, idle |-> idle, seen |-> clocked, bits |-> bits]
      BY DEF BulkSample
    <3> HIDE DEF quiet, idle, clocked, bits
    <3>5. [acc EXCEPT !.over = TRUE] \in Accumulator
      BY DEF Accumulator
    <3>6. [at |-> acc.at + 1, last |-> level, quiet |-> quiet, over |-> FALSE,
           idle |-> idle, seen |-> clocked, bits |-> bits] \in Accumulator
      <4> HIDE DEF seen
      <4> QED
        BY <2>1, <3>1, <3>2, <3>3 DEF Accumulator, Level
    <3> QED
      BY <3>4, <3>5, <3>6
  <2> QED
    BY <2>2, <2>3
<1> QED
  BY <1>1, <1>2

(* A byte that came in, and then the decoder. *)
LEMMA WholeByteType ==
  ASSUME NEW d \in Decoder
  PROVE  WholeByte(d) \in Decoder
<1>1. CASE Len(d.cur) # 8
  BY <1>1 DEF WholeByte
<1>2. CASE Len(d.cur) = 8
  <2> DEFINE byte == BytesOf(d.cur)[1]
             out == Append(d.out, byte)
  <2>1. byte \in Byte
    <3>1. d.cur \in Seq(Bit) /\ Len(d.cur) \div 8 = 1
      BY <1>2 DEF Decoder
    <3>2. BytesOf(d.cur) \in Seq(Byte) /\ Len(BytesOf(d.cur)) = 1
      BY <3>1, BytesOfType
    <3> QED
      BY <3>2
  <2>2. out \in Seq(Byte)
    BY <2>1 DEF Decoder
  <2>3. WholeByte(d) = Took(d, out)
    BY <1>2 DEF WholeByte
  <2> HIDE DEF out
  <2>4. Took(d, out) \in Decoder
    <3>1. /\ [d EXCEPT !.done = "TooLong"] \in Decoder
          /\ [d EXCEPT !.out = out, !.cur = <<>>] \in Decoder
          /\ [[d EXCEPT !.out = out, !.cur = <<>>] EXCEPT !.done = "TooLong"]
               \in Decoder
          /\ [[d EXCEPT !.out = out, !.cur = <<>>] EXCEPT !.done = "Complete"]
               \in Decoder
      <4> HIDE DEF byte
      <4>0. <<>> \in Seq(Bit)
        OBVIOUS
      <4>1. [d EXCEPT !.out = out, !.cur = <<>>] \in Decoder
        BY <2>2, <4>0 DEF Decoder
      <4>2. \A e \in Decoder : \A o \in Outcome : [e EXCEPT !.done = o] \in Decoder
        BY DEF Decoder, Verdict
      <4>3. "TooLong" \in Outcome /\ "Complete" \in Outcome
        BY DEF Outcome
      <4> QED
        BY <4>1, <4>2, <4>3, Zenon
    <3> QED
      BY <3>1, Zenon DEF Took
  <2> QED
    BY <2>3, <2>4
<1> QED
  BY <1>1, <1>2

(* What a search from `cursor` that gives up at `reach` returns. *)
Finding(s, cursor, last, stop, reach, next) ==
  /\ reach \in Nat /\ reach >= stop /\ reach >= cursor
  /\ cursor < stop => reach <= Len(s)
  /\ stop <= cursor => reach = cursor
  /\ next.edge \in BOOLEAN
  /\ ~next.edge => /\ next.at = reach
                   /\ \A j \in cursor..(reach - 1) : At(s, j) = last
  /\ next.edge => /\ next.at \in cursor..(reach - 1)
                  /\ At(s, next.at) # last
                  /\ \A j \in cursor..(next.at - 1) : At(s, j) = last

(* A search gives up inside the capture, and what it finds is an edge. *)
LEMMA SearchFinds ==
  ASSUME NEW s \in Samplings, NEW cursor \in Nat, NEW last \in Level,
         NEW stop \in Nat, stop <= Len(s)
  PROVE  Finding(s, cursor, last, stop, Reach(s, cursor, stop),
                 Search(s, cursor, last, stop))
<1> DEFINE reach == Reach(s, cursor, stop)
           next == Search(s, cursor, last, stop)
<1> SUFFICES Finding(s, cursor, last, stop, reach, next)
  OBVIOUS
<1>1. /\ reach \in Nat /\ reach >= stop /\ reach >= cursor
      /\ cursor < stop => reach <= Len(s)
      /\ stop <= cursor => reach = cursor
  BY DEF Reach, Samplings
<1>2. CASE \A j \in cursor..(reach - 1) : At(s, j) = last
  <2>1. next = [edge |-> FALSE, at |-> reach]
    BY <1>2 DEF Search
  <2> HIDE DEF reach, next
  <2> QED
    BY <1>1, <1>2, <2>1 DEF Finding
<1>3. CASE ~ \A j \in cursor..(reach - 1) : At(s, j) = last
  <2> DEFINE P(i) == At(s, i) # last /\ \A j \in cursor..(i - 1) : At(s, j) = last
             R == {i \in cursor..(reach - 1) : At(s, i) # last}
  <2>1. R \subseteq Nat /\ R # {}
    BY <1>3
  <2>2. PICK m \in R : \A k \in R : m <= k
    <3> HIDE DEF R
    <3> QED
      BY <2>1, LeastExists
  <2>3. m \in cursor..(reach - 1) /\ P(m)
    BY <2>2, <1>1
  <2> HIDE DEF reach
  <2> DEFINE found == CHOOSE i \in cursor..(reach - 1) : P(i)
  <2>4. next = [edge |-> TRUE, at |-> found]
    BY <1>3 DEF Search, reach
  <2>5. found \in cursor..(reach - 1) /\ P(found)
    <3> HIDE DEF P
    <3> QED
      BY <2>3
  <2> HIDE DEF found, next
  <2>6. next.edge = TRUE /\ next.at = found
    BY <2>4
  <2> QED
    BY <1>1, <2>5, <2>6 DEF Finding
<1> QED
  BY <1>2, <1>3

(* When a reply ends. *)
LEMMA EndedAtType ==
  ASSUME NEW s \in Samplings, NEW d \in Decoder
  PROVE  EndedAt(d, s) \in Nat
BY MapleWireAssumption DEF EndedAt, Decoder, Samplings

(* An edge, and then the decoder. *)
LEMMA AtEdgeType ==
  ASSUME NEW d \in Decoder, NEW level \in Level, NEW at \in Nat
  PROVE  AtEdge(d, level, at) \in Decoder
<1> DEFINE seen == d.seen /\ ~(d.last = Idle /\ at - d.prev > Gap)
           bits == d.cur \o BitAt(d.last, level, seen)
           clocked == seen \/ "A" \in d.last \ level
           n == at + 1
           e == [d EXCEPT !.cursor = n, !.prev = at, !.last = level,
                          !.seen = clocked, !.cur = bits]
<1>1. bits \in Seq(Bit)
  BY BitsGrow DEF Decoder
<1>2. AtEdge(d, level, at) = WholeByte(e)
  BY DEF AtEdge, Decoder
<1>4. clocked \in BOOLEAN
  BY Zenon
<1>5. n \in Nat
  OBVIOUS
<1> HIDE DEF bits, clocked, seen, n
<1>3. e \in Decoder
  BY <1>1, <1>4, <1>5 DEF Decoder, Level
<1> HIDE DEF e
<1> QED
  BY <1>2, <1>3, WholeByteType

(* A hop leaves a decoder. *)
LEMMA HopType ==
  ASSUME NEW s \in Samplings, NEW d \in Decoder, NEW limit \in Nat,
         limit <= Len(s)
  PROVE  Hop(d, s, limit) \in Decoder
<1> DEFINE stop == SmallerOf(limit, EndedAt(d, s))
           next == Search(s, d.cursor, d.last, stop)
           reach == Reach(s, d.cursor, stop)
<1>1. stop \in Nat /\ stop <= Len(s)
  BY EndedAtType DEF SmallerOf, Samplings
<1>2. d.cursor \in Nat /\ d.last \in Level
  BY DEF Decoder, Level
<1>9. Finding(s, d.cursor, d.last, stop, reach, next)
  BY <1>1, <1>2, SearchFinds
<1> HIDE DEF stop, next, reach
<1>3. /\ reach \in Nat /\ reach >= d.cursor
      /\ d.cursor < stop => reach <= Len(s)
      /\ stop <= d.cursor => reach = d.cursor
      /\ ~next.edge => next.at = reach
      /\ next.edge => next.at \in d.cursor..(reach - 1)
  BY <1>9 DEF Finding
<1>4. next = NextEdge(d, s, limit)
  BY DEF NextEdge, stop, next
<1>5. CASE d.done # None
  BY <1>5 DEF Hop
<1>6. CASE d.done = None /\ ~next.edge
  <2>1. Hop(d, s, limit) = WithoutEdge(d, s, next.at)
    BY <1>4, <1>6 DEF Hop
  <2>2. next.at \in Nat
    BY <1>3, <1>6
  <2>3. EndedAt(d, s) \in Nat /\ "Ended" \in Verdict
    BY EndedAtType DEF Outcome, Verdict
  <2> HIDE DEF next
  <2>4. \A i \in Nat : /\ [d EXCEPT !.cursor = i] \in Decoder
                        /\ [d EXCEPT !.cursor = i, !.done = "Ended"] \in Decoder
    BY <2>3 DEF Decoder
  <2>5. Hop(d, s, limit) = [d EXCEPT !.cursor = EndedAt(d, s), !.done = "Ended"]
          \/ Hop(d, s, limit) = [d EXCEPT !.cursor = next.at]
    BY <2>1, Zenon DEF WithoutEdge
  <2> QED
    BY <2>2, <2>3, <2>4, <2>5, Zenon
<1>7. CASE d.done = None /\ next.edge /\ next.at >= EndedAt(d, s)
  <2>1. Hop(d, s, limit) = [d EXCEPT !.cursor = EndedAt(d, s), !.done = "Ended"]
    BY <1>4, <1>7 DEF Hop
  <2>2. EndedAt(d, s) \in Nat /\ "Ended" \in Verdict
    BY EndedAtType DEF Outcome, Verdict
  <2> HIDE DEF next
  <2>3. \A i \in Nat : [d EXCEPT !.cursor = i, !.done = "Ended"] \in Decoder
    BY <2>2 DEF Decoder
  <2> QED
    BY <2>1, <2>2, <2>3, Zenon
<1>8. CASE d.done = None /\ next.edge /\ ~(next.at >= EndedAt(d, s))
  <2>1. Hop(d, s, limit) = AtEdge(d, At(s, next.at), next.at)
    BY <1>4, <1>8 DEF Hop
  <2>2. next.at \in Nat /\ next.at < Len(s)
    BY <1>2, <1>3, <1>8, <1>1 DEF Samplings
  <2>3. At(s, next.at) \in Level
    BY <2>2, AtType
  <2> QED
    BY <2>1, <2>2, <2>3, AtEdgeType
<1> QED
  BY <1>5, <1>6, <1>7, <1>8

-----------------------------------------------------------------------------
(* The one pass, sample by sample. *)

(* Its accumulators follow one another. *)
LEMMA BulkSteps ==
  ASSUME NEW s \in Samplings, NEW start \in 1..Size(s)
  PROVE  /\ BulkAfter(s, start, 0) = BulkStart(s, start)
         /\ \A n \in Nat :
              /\ BulkAfter(s, start, n) \in Accumulator
              /\ BulkAfter(s, start, n + 1) = BulkNext(BulkAfter(s, start, n), s)
<1> DEFINE F == [acc \in Accumulator |-> BulkNext(acc, s)]
           x == BulkStart(s, start)
<1>1. x \in Accumulator
  <2>1. At(s, start - 1) \in Level
    BY AtType DEF Samplings, Size
  <2>2. <<>> \in Seq(Bit)
    OBVIOUS
  <2> QED
    BY <2>1, <2>2 DEF BulkStart, Accumulator, Level
<1>2. \A acc \in Accumulator : F[acc] \in Accumulator /\ F[acc] = BulkNext(acc, s)
  BY BulkNextType
<1>3. \A n : BulkAfter(s, start, n) = Iterated(F, x, n)
  BY DEF BulkAfter
<1> HIDE DEF F, x
<1>4. LoopIn(Accumulator, F, x)
  <2>1. \A acc \in Accumulator : F[acc] \in Accumulator
    BY <1>2
  <2> QED
    BY <1>1, <2>1, IteratedSteps
<1> QED
  BY <1>2, <1>3, <1>4 DEF x, LoopIn

(* A quiet sample. *)
LEMMA QuietSample ==
  ASSUME NEW s \in Samplings, NEW acc \in Accumulator, ~acc.over,
         acc.at < Len(s), At(s, acc.at) = acc.last,
         acc.last # Idle => acc.idle = 0,
         acc.bits # <<>> => acc.quiet + 1 <= EndIdle,
         NEW next, next = BulkNext(acc, s)
  PROVE  /\ next.at = acc.at + 1 /\ next.last = acc.last /\ next.over = FALSE
         /\ next.seen = acc.seen /\ next.bits = acc.bits
         /\ next.idle = (IF acc.last = Idle THEN acc.idle + 1 ELSE 0)
         /\ next.quiet = acc.quiet + 1
<1>1. next = BulkSample(acc, acc.last)
  BY DEF BulkNext, Accumulator, Samplings
<1>2. BitAt(acc.last, acc.last, acc.seen) = <<>>
  BY DEF BitAt
<1>3. ~(acc.last # Idle /\ acc.idle > Gap)
  BY MapleWireAssumption
<1>4. (acc.seen /\ ~(acc.last # Idle /\ acc.idle > Gap)) = acc.seen
  BY <1>3 DEF Accumulator
<1>5. (acc.seen \/ "A" \in acc.last \ acc.last) = acc.seen
  BY DEF Accumulator
<1>6. acc.bits \o <<>> = acc.bits
  BY DEF Accumulator
<1>7. ~(acc.quiet + 1 > EndIdle /\ acc.bits # <<>>)
  BY MapleWireAssumption DEF Accumulator
<1>8. next = [at |-> acc.at + 1, last |-> acc.last, quiet |-> acc.quiet + 1,
              over |-> FALSE, idle |-> IF acc.last = Idle THEN acc.idle + 1 ELSE 0,
              seen |-> acc.seen, bits |-> acc.bits]
  BY <1>1, <1>2, <1>4, <1>5, <1>6, <1>7 DEF BulkSample
<1> QED
  BY <1>8

(* What a sample at an edge makes of an accumulator. *)
Clocks(acc, level, seen, next) ==
  /\ next.at = acc.at + 1 /\ next.last = level /\ next.over = FALSE
  /\ next.seen = (seen \/ "A" \in acc.last \ level)
  /\ next.bits = acc.bits \o BitAt(acc.last, level, seen)
  /\ next.idle = (IF level = Idle THEN acc.idle + 1 ELSE 0)
  /\ next.quiet = 0

(* The sample at an edge is such a clocked one. *)
LEMMA EdgeSample ==
  ASSUME NEW s \in Samplings, NEW acc \in Accumulator, ~acc.over,
         acc.at < Len(s), NEW level, level = At(s, acc.at), level # acc.last,
         NEW seen, seen = (acc.seen /\ ~(level # Idle /\ acc.idle > Gap)),
         NEW next, next = BulkNext(acc, s)
  PROVE  Clocks(acc, level, seen, next)
<1>1. next = BulkSample(acc, level)
  BY DEF BulkNext, Accumulator, Samplings
<1>2. ~(0 > EndIdle /\ acc.bits # <<>>)
  BY MapleWireAssumption
<1> DEFINE clocked == seen \/ "A" \in acc.last \ level
           idle == IF level = Idle THEN acc.idle + 1 ELSE 0
           bits == acc.bits \o BitAt(acc.last, level, seen)
           at == acc.at + 1
<1>3. next = [at |-> at, last |-> level, quiet |-> 0, over |-> FALSE,
              idle |-> idle, seen |-> clocked, bits |-> bits]
  BY <1>1, <1>2, Zenon DEF BulkSample
<1> HIDE DEF clocked, idle, bits, at
<1>4. /\ next.at = at /\ next.last = level /\ next.over = FALSE
      /\ next.seen = clocked /\ next.bits = bits /\ next.idle = idle
      /\ next.quiet = 0
  BY <1>3
<1> QED
  BY <1>4, Zenon DEF clocked, idle, bits, at, Clocks

(* The sample at which a reply is over. *)
LEMMA EndSample ==
  ASSUME NEW s \in Samplings, NEW acc \in Accumulator, ~acc.over,
         acc.at < Len(s), At(s, acc.at) = acc.last, acc.bits # <<>>,
         acc.quiet + 1 > EndIdle,
         NEW next, next = BulkNext(acc, s)
  PROVE  next.over = TRUE /\ next.bits = acc.bits
<1>1. next = BulkSample(acc, acc.last)
  BY DEF BulkNext, Accumulator, Samplings
<1>2. next = [acc EXCEPT !.over = TRUE]
  BY <1>1 DEF BulkSample
<1> QED
  BY <1>2 DEF Accumulator

(* Once over, or out of samples, it stays as it is. *)
LEMMA BulkStays ==
  ASSUME NEW s \in Samplings, NEW start \in 1..Size(s), NEW n \in Nat,
         NEW acc, acc = BulkAfter(s, start, n), acc.over \/ acc.at >= Size(s)
  PROVE  \A k \in Nat : BulkAfter(s, start, n + k) = acc
<1> DEFINE Same == {k \in Nat : BulkAfter(s, start, n + k) = acc}
<1>1. 0 \in Same
  OBVIOUS
<1>2. \A k \in Nat : k \in Same => k + 1 \in Same
  <2> SUFFICES ASSUME NEW k \in Nat, BulkAfter(s, start, n + k) = acc
               PROVE  BulkAfter(s, start, n + (k + 1)) = acc
    OBVIOUS
  <2>1. n + k \in Nat /\ n + (k + 1) = (n + k) + 1
    OBVIOUS
  <2>2. BulkAfter(s, start, n + (k + 1)) = BulkNext(acc, s)
    BY <2>1, BulkSteps
  <2> QED
    BY <2>2 DEF BulkNext, Size
<1>3. \A k \in Nat : k \in Same
  <2> HIDE DEF Same
  <2> QED
    BY <1>1, <1>2, AllNaturals
<1> QED
  BY <1>3

(* What it has of the bits it keeps. *)
Begins(bits, more) ==
  Len(bits) <= Len(more) /\ \A i \in 1..Len(bits) : bits[i] = more[i]

(* A sample adds bits behind those that are there. *)
LEMMA SampleExtends ==
  ASSUME NEW s \in Samplings, NEW acc \in Accumulator
  PROVE  Begins(acc.bits, BulkNext(acc, s).bits)
<1>1. acc.bits \in Seq(Bit)
  BY DEF Accumulator
<1>2. CASE acc.over \/ acc.at >= Len(s)
  BY <1>1, <1>2 DEF BulkNext, Begins
<1>3. CASE ~(acc.over \/ acc.at >= Len(s))
  <2> DEFINE level == At(s, acc.at)
             quiet == IF level = acc.last THEN acc.quiet + 1 ELSE 0
             seen == acc.seen /\ ~(level # Idle /\ acc.idle > Gap)
             bit == BitAt(acc.last, level, seen)
             next == BulkNext(acc, s)
  <2>1. next = BulkSample(acc, level)
    BY <1>3 DEF BulkNext
  <2>2. CASE quiet > EndIdle /\ acc.bits # <<>>
    <3>1. next = [acc EXCEPT !.over = TRUE]
      BY <2>1, <2>2 DEF BulkSample
    <3>2. next.bits = acc.bits
      BY <3>1 DEF Accumulator
    <3> QED
      BY <1>1, <3>2 DEF Begins
  <2>3. CASE ~(quiet > EndIdle /\ acc.bits # <<>>)
    <3>1. next.bits = acc.bits \o bit
      <4> DEFINE clocked == seen \/ "A" \in acc.last \ level
                 idle == IF level = Idle THEN acc.idle + 1 ELSE 0
                 bits == acc.bits \o bit
      <4>1. next = [at |-> acc.at + 1, last |-> level, quiet |-> quiet,
                    over |-> FALSE, idle |-> idle, seen |-> clocked,
                    bits |-> bits]
        BY <2>1, <2>3, Zenon DEF BulkSample
      <4> HIDE DEF next, clocked, idle, bits, quiet
      <4>2. next.bits = bits
        BY <4>1
      <4> QED
        BY <4>2 DEF bits
    <3>2. bit \in Seq(Bit)
      <4>1. <<0>> \in Seq(Bit) /\ <<1>> \in Seq(Bit) /\ <<>> \in Seq(Bit)
        BY DEF Bit
      <4> QED
        BY <4>1, BitAtType
    <3> HIDE DEF bit, next
    <3>3. Begins(acc.bits, acc.bits \o bit)
      BY <1>1, <3>2 DEF Begins
    <3> QED
      BY <3>1, <3>3 DEF next
  <2> QED
    BY <2>2, <2>3
<1> QED
  BY <1>2, <1>3

(* So the bits it has are the first of those it ends with. *)
LEMMA BulkExtends ==
  ASSUME NEW s \in Samplings, NEW start \in 1..Size(s), NEW n \in Nat
  PROVE  \A k \in Nat : Begins(BulkAfter(s, start, n).bits,
                               BulkAfter(s, start, n + k).bits)
<1> DEFINE bits(m) == BulkAfter(s, start, m).bits
           Good == {k \in Nat : Begins(bits(n), bits(n + k))}
<1>1. \A m \in Nat : bits(m) \in Seq(Bit)
  BY BulkSteps DEF Accumulator
<1>2. 0 \in Good
  BY <1>1 DEF Begins
<1>3. \A k \in Nat : k \in Good => k + 1 \in Good
  <2> SUFFICES ASSUME NEW k \in Nat, Begins(bits(n), bits(n + k))
               PROVE  Begins(bits(n), bits(n + (k + 1)))
    OBVIOUS
  <2>1. n + k \in Nat /\ n + (k + 1) = (n + k) + 1
    OBVIOUS
  <2>2. Begins(bits(n + k), bits(n + (k + 1)))
    BY <2>1, BulkSteps, SampleExtends
  <2>3. bits(n) \in Seq(Bit) /\ bits(n + k) \in Seq(Bit) /\ bits(n + (k + 1)) \in Seq(Bit)
    BY <1>1, <2>1
  <2> HIDE DEF bits
  <2> QED
    BY <2>2, <2>3 DEF Begins
<1>4. \A k \in Nat : k \in Good
  <2> HIDE DEF Good
  <2> QED
    BY <1>2, <1>3, AllNaturals
<1> QED
  BY <1>4

(* What a run of k quiet samples makes of an accumulator. *)
Quieter(acc, k, next) ==
  /\ next.at = acc.at + k /\ next.last = acc.last /\ next.over = FALSE
  /\ next.seen = acc.seen /\ next.bits = acc.bits
  /\ next.idle = (IF acc.last = Idle THEN acc.idle + k ELSE 0)
  /\ acc.bits # <<>> => next.quiet = acc.quiet + k

(* One quiet sample more. *)
LEMMA QuietAgain ==
  ASSUME NEW acc, acc.at \in Nat, acc.idle \in Nat, acc.quiet \in Nat,
         NEW k \in Nat, NEW mid, Quieter(acc, k, mid), NEW next,
         Quieter(mid, 1, next)
  PROVE  Quieter(acc, k + 1, next)
<1>1. acc.at + (k + 1) = (acc.at + k) + 1 /\ acc.idle + (k + 1) = (acc.idle + k) + 1
      /\ acc.quiet + (k + 1) = (acc.quiet + k) + 1
  OBVIOUS
<1>2. /\ next.at = (acc.at + k) + 1 /\ next.last = acc.last /\ next.over = FALSE
      /\ next.seen = acc.seen /\ next.bits = acc.bits
  BY DEF Quieter
<1>3. next.idle = (IF acc.last = Idle THEN acc.idle + (k + 1) ELSE 0)
  BY <1>1 DEF Quieter
<1>4. acc.bits # <<>> => next.quiet = acc.quiet + (k + 1)
  BY <1>1 DEF Quieter
<1> QED
  BY <1>1, <1>2, <1>3, <1>4 DEF Quieter

(* The samples before `to` are all the same. *)
Still(s, from, to, level) == \A i \in from..(to - 1) : At(s, i) = level

(* A run of quiet samples, not as long as ends a reply, changes nothing but
   the two counts. *)
LEMMA QuietRun ==
  ASSUME NEW s \in Samplings, NEW start \in 1..Size(s), NEW n \in Nat,
         NEW acc, acc = BulkAfter(s, start, n), ~acc.over,
         NEW length \in Nat, acc.at + length <= Size(s),
         Still(s, acc.at, acc.at + length, acc.last),
         acc.last # Idle => acc.idle = 0,
         acc.bits # <<>> => acc.quiet + length <= EndIdle
  PROVE  Quieter(acc, length, BulkAfter(s, start, n + length))
<1>1. acc \in Accumulator
  BY BulkSteps
<1> DEFINE Good == {k \in Nat : k <= length =>
                      Quieter(acc, k, BulkAfter(s, start, n + k))}
<1>9. \A i \in acc.at..((acc.at + length) - 1) : At(s, i) = acc.last
  BY DEF Still
<1>2. 0 \in Good
  <2>1. n + 0 = n
    OBVIOUS
  <2>2. Quieter(acc, 0, acc)
    BY <1>1 DEF Quieter, Accumulator
  <2> QED
    BY <2>1, <2>2
<1>3. \A k \in Nat : k \in Good => k + 1 \in Good
  <2> SUFFICES ASSUME NEW k \in Nat, k + 1 <= length,
                      Quieter(acc, k, BulkAfter(s, start, n + k))
               PROVE  Quieter(acc, k + 1, BulkAfter(s, start, n + (k + 1)))
    OBVIOUS
  <2>1. n + k \in Nat /\ n + (k + 1) = (n + k) + 1
    OBVIOUS
  <2> DEFINE mid == BulkAfter(s, start, n + k)
             next == BulkAfter(s, start, n + (k + 1))
  <2>2. mid \in Accumulator /\ next = BulkNext(mid, s)
    BY <2>1, BulkSteps
  <2>3. Quieter(acc, k, mid)
    OBVIOUS
  <2> HIDE DEF mid, next
  <2>4. /\ acc.at \in Nat /\ acc.idle \in Nat /\ acc.quiet \in Nat
        /\ mid.quiet \in Nat
    BY <1>1, <2>2 DEF Accumulator
  <2>5. /\ mid.at = acc.at + k /\ mid.last = acc.last /\ ~mid.over
        /\ mid.seen = acc.seen /\ mid.bits = acc.bits
        /\ mid.idle = (IF acc.last = Idle THEN acc.idle + k ELSE 0)
        /\ acc.bits # <<>> => mid.quiet = acc.quiet + k
    BY <2>3 DEF Quieter
  <2>6. Size(s) \in Nat
    BY DEF Samplings, Size
  <2>7. mid.at < Size(s) /\ At(s, mid.at) = mid.last
    <3>1. acc.at + k \in acc.at..((acc.at + length) - 1) /\ acc.at + k < Size(s)
      <4> DEFINE a == acc.at
                 z == Size(s)
      <4>1. a \in Nat /\ z \in Nat /\ a + length <= z
        BY <2>4, <2>6
      <4> HIDE DEF a, z
      <4>2. a + k \in a..((a + length) - 1) /\ a + k < z
        BY <4>1
      <4> QED
        BY <4>2 DEF a, z
    <3>2. At(s, acc.at + k) = acc.last
      BY <1>9, <3>1
    <3> QED
      BY <3>1, <3>2, <2>5
  <2>8. mid.last # Idle => mid.idle = 0
    BY <2>5
  <2>9. mid.bits # <<>> => mid.quiet + 1 <= EndIdle
    <3> SUFFICES ASSUME mid.bits # <<>> PROVE mid.quiet + 1 <= EndIdle
      OBVIOUS
    <3>1. acc.bits # <<>>
      BY <2>5
    <3>2. mid.quiet = acc.quiet + k /\ acc.quiet + length <= EndIdle
      BY <2>5, <3>1
    <3> QED
      BY <2>4, <3>2, MapleWireAssumption
  <2>10. Quieter(mid, 1, next)
    <3>1. /\ next.at = mid.at + 1 /\ next.last = mid.last /\ next.over = FALSE
          /\ next.seen = mid.seen /\ next.bits = mid.bits
          /\ next.idle = (IF mid.last = Idle THEN mid.idle + 1 ELSE 0)
          /\ next.quiet = mid.quiet + 1
      <4>1. mid.at < Len(s)
        BY <2>7 DEF Size
      <4> QED
        BY <2>2, <2>5, <2>7, <2>8, <2>9, <4>1, QuietSample
    <3> QED
      BY <3>1, Zenon DEF Quieter
  <2>11. Quieter(acc, k + 1, next)
    BY <2>3, <2>4, <2>10, QuietAgain
  <2> QED
    BY <2>11 DEF next
<1>4. \A k \in Nat : k \in Good
  <2> HIDE DEF Good
  <2> QED
    BY <1>2, <1>3, AllNaturals
<1> QED
  BY <1>4

-----------------------------------------------------------------------------
(* The bits of the one pass and the bytes of the slices. *)

(* Bits are those of the bytes in `out`, followed by `cur`. *)
Holds(bits, out, cur) ==
  /\ Len(bits) = 8 * Len(out) + Len(cur)
  /\ \A i \in 1..Len(out) : out[i] = ByteOf(SubSeq(bits, 8 * i - 7, 8 * i))
  /\ \A j \in 1..Len(cur) : cur[j] = bits[8 * Len(out) + j]

(* Eight bits of one sequence are eight of another. *)
SameEight(bits, first, more, base) ==
  \A j \in 1..8 : bits[first + j] = more[base + j]

(* The byte from bit k on. *)
OctetAt(q, k) == ByteOf(SubSeq(q, k + 1, k + 8))

(* They are the same byte. *)
LEMMA SameByte ==
  ASSUME NEW bits \in Seq(Bit), NEW more \in Seq(Bit), NEW first \in Nat,
         NEW base \in Nat, first + 8 <= Len(bits), base + 8 <= Len(more),
         SameEight(bits, first, more, base)
  PROVE  OctetAt(bits, first) = OctetAt(more, base)
<1> DEFINE p == SubSeq(bits, first + 1, first + 8)
           q == SubSeq(more, base + 1, base + 8)
<1>1. \A j \in 1..8 : p[j] = bits[first + j]
  OBVIOUS
<1>2. \A j \in 1..8 : q[j] = more[base + j]
  OBVIOUS
<1> HIDE DEF p, q
<1>3. \A j \in 1..8 : p[j] = q[j]
  BY <1>1, <1>2 DEF SameEight
<1>4. /\ p[1] = q[1] /\ p[2] = q[2] /\ p[3] = q[3] /\ p[4] = q[4]
      /\ p[5] = q[5] /\ p[6] = q[6] /\ p[7] = q[7] /\ p[8] = q[8]
  BY <1>3
<1>5. ByteOf(p) = ByteOf(q)
  BY <1>4 DEF ByteOf
<1> QED
  BY <1>5 DEF p, q, OctetAt

(* With less than a byte behind them, the bytes are those of the bits. *)
LEMMA HeldBytes ==
  ASSUME NEW bits \in Seq(Bit), NEW out \in Seq(Byte), NEW cur \in Seq(Bit),
         Holds(bits, out, cur), Len(cur) < 8
  PROVE  BytesOf(bits) = out
<1>1. Len(bits) \div 8 = Len(out)
  <2> DEFINE m == Len(out)
             k == Len(cur)
  <2>1. m \in Nat /\ k \in Nat /\ k < 8
    OBVIOUS
  <2>2. Len(bits) = 8 * m + k
    BY DEF Holds
  <2> HIDE DEF m, k
  <2>3. (8 * m + k) \div 8 = m
    BY <2>1
  <2> QED
    BY <2>2, <2>3 DEF m
<1>2. \A i \in 1..Len(out) : BytesOf(bits)[i] = out[i]
  BY <1>1, BytesOfType DEF Holds
<1>3. BytesOf(bits) \in Seq(Byte) /\ Len(BytesOf(bits)) = Len(out)
  BY <1>1, BytesOfType
<1> QED
  BY <1>2, <1>3, SeqEqual

(* And whatever comes after, the first of its bytes. *)
LEMMA HeldFirst ==
  ASSUME NEW bits \in Seq(Bit), NEW out \in Seq(Byte), NEW cur \in Seq(Bit),
         Holds(bits, out, cur), NEW more \in Seq(Bit), Begins(bits, more)
  PROVE  /\ Len(out) <= Len(BytesOf(more))
         /\ SubSeq(BytesOf(more), 1, Len(out)) = out
         /\ \A i \in 1..Len(out) : BytesOf(more)[i] = out[i]
<1>1. Len(out) <= Len(more) \div 8
  BY DEF Holds, Begins
<1>2. BytesOf(more) \in Seq(Byte) /\ Len(BytesOf(more)) = Len(more) \div 8
  BY BytesOfType
<1>3. \A i \in 1..Len(out) : BytesOf(more)[i] = out[i]
  <2> SUFFICES ASSUME NEW i \in 1..Len(out) PROVE BytesOf(more)[i] = out[i]
    OBVIOUS
  <2>1. BytesOf(more)[i] = ByteOf(SubSeq(more, 8 * i - 7, 8 * i))
    BY <1>1, BytesOfType
  <2>2. out[i] = ByteOf(SubSeq(bits, 8 * i - 7, 8 * i))
    BY DEF Holds
  <2>3. PICK first \in Nat : first + 1 = 8 * i - 7 /\ first + 8 = 8 * i
    <3>1. 8 * i - 8 \in Nat /\ (8 * i - 8) + 1 = 8 * i - 7 /\ (8 * i - 8) + 8 = 8 * i
      OBVIOUS
    <3> QED
      BY <3>1
  <2>4. first + 8 <= Len(bits) /\ first + 8 <= Len(more)
    BY <2>3 DEF Holds, Begins
  <2>5. SameEight(bits, first, more, first)
    BY <2>4 DEF Begins, SameEight
  <2>6. ByteOf(SubSeq(bits, first + 1, first + 8))
          = ByteOf(SubSeq(more, first + 1, first + 8))
    BY <2>4, <2>5, SameByte DEF OctetAt
  <2> QED
    BY <2>1, <2>2, <2>3, <2>6
<1>4. SubSeq(BytesOf(more), 1, Len(out)) = out
  <2> DEFINE q == SubSeq(BytesOf(more), 1, Len(out))
  <2>1. q \in Seq(Byte) /\ Len(q) = Len(out)
        /\ \A i \in 1..Len(out) : q[i] = BytesOf(more)[i]
    BY <1>1, <1>2
  <2> HIDE DEF q
  <2>2. q = out
    BY <1>3, <2>1, SeqEqual
  <2> QED
    BY <2>2 DEF q
<1> QED
  BY <1>1, <1>2, <1>3, <1>4

(* A bit more. *)
LEMMA HoldsBit ==
  ASSUME NEW bits \in Seq(Bit), NEW out \in Seq(Byte), NEW cur \in Seq(Bit),
         Holds(bits, out, cur), NEW bit \in Seq(Bit)
  PROVE  Holds(bits \o bit, out, cur \o bit)
<1> DEFINE more == bits \o bit
           next == cur \o bit
<1>1. /\ more \in Seq(Bit) /\ Len(more) = Len(bits) + Len(bit)
      /\ next \in Seq(Bit) /\ Len(next) = Len(cur) + Len(bit)
      /\ \A i \in 1..Len(bits) : more[i] = bits[i]
      /\ \A i \in 1..Len(bit) : more[Len(bits) + i] = bit[i]
      /\ \A i \in 1..Len(cur) : next[i] = cur[i]
      /\ \A i \in 1..Len(bit) : next[Len(cur) + i] = bit[i]
  OBVIOUS
<1> HIDE DEF more, next
<1>2. Begins(bits, more)
  BY <1>1 DEF Begins
<1>3. \A i \in 1..Len(out) : out[i] = ByteOf(SubSeq(more, 8 * i - 7, 8 * i))
  <2>1. \A i \in 1..Len(out) : BytesOf(more)[i] = out[i]
    BY <1>1, <1>2, HeldFirst
  <2>2. Len(out) <= Len(more) \div 8
    BY <1>1 DEF Holds
  <2> SUFFICES ASSUME NEW i \in 1..Len(out)
               PROVE  out[i] = ByteOf(SubSeq(more, 8 * i - 7, 8 * i))
    OBVIOUS
  <2>3. BytesOf(more)[i] = ByteOf(SubSeq(more, 8 * i - 7, 8 * i))
    <3> DEFINE m == Len(more) \div 8
    <3>1. m \in Nat
      BY <1>1
    <3> HIDE DEF m
    <3>2. i \in 1..m
      BY <2>2, <3>1 DEF m
    <3> QED
      BY <1>1, <3>2, BytesOfType DEF m
  <2> QED
    BY <2>1, <2>3
<1>4. Len(more) = 8 * Len(out) + Len(next)
  BY <1>1 DEF Holds
<1>5. \A j \in 1..Len(next) : next[j] = more[8 * Len(out) + j]
  <2> SUFFICES ASSUME NEW j \in 1..Len(next) PROVE next[j] = more[8 * Len(out) + j]
    OBVIOUS
  <2>1. CASE j <= Len(cur)
    <3>1. 8 * Len(out) + j \in 1..Len(bits)
      BY <2>1 DEF Holds
    <3> QED
      BY <1>1, <2>1, <3>1 DEF Holds
  <2>2. CASE ~(j <= Len(cur))
    <3> DEFINE i == j - Len(cur)
    <3>1. i \in 1..Len(bit)
      BY <1>1, <2>2
    <3>2. 8 * Len(out) + j = Len(bits) + i /\ j = Len(cur) + i
      BY DEF Holds
    <3> HIDE DEF i
    <3>3. more[Len(bits) + i] = bit[i] /\ next[Len(cur) + i] = bit[i]
      BY <1>1, <3>1
    <3> QED
      BY <3>2, <3>3, Zenon
  <2> QED
    BY <2>1, <2>2
<1>6. Holds(more, out, next)
  BY <1>3, <1>4, <1>5 DEF Holds
<1> QED
  BY <1>6 DEF more, next

(* Eight bits have one byte. *)
LEMMA FirstByte ==
  ASSUME NEW cur \in Seq(Bit), Len(cur) = 8
  PROVE  /\ BytesOf(cur)[1] \in Byte
         /\ BytesOf(cur)[1] = ByteOf(SubSeq(cur, 0 + 1, 0 + 8))
<1>1. Len(cur) \div 8 = 1
  OBVIOUS
<1>2. BytesOf(cur)[1] \in Byte
  <2>1. BytesOf(cur) \in Seq(Byte) /\ Len(BytesOf(cur)) = 1
    BY <1>1, BytesOfType
  <2>2. 1 \in 1..Len(BytesOf(cur))
    BY <2>1
  <2> QED
    BY <2>1, <2>2, ElementOfSeq, Zenon
<1> DEFINE i == 1
<1>3. i \in 1..(Len(cur) \div 8) /\ 8 * i - 7 = 0 + 1 /\ 8 * i = 0 + 8
  BY <1>1
<1> HIDE DEF i
<1>4. BytesOf(cur)[i] = ByteOf(SubSeq(cur, 8 * i - 7, 8 * i))
  BY <1>3, BytesOfType
<1>5. BytesOf(cur)[i] = ByteOf(SubSeq(cur, 0 + 1, 0 + 8))
  BY <1>3, <1>4
<1> QED
  BY <1>2, <1>5 DEF i

(* Eight of them are a byte more. *)
LEMMA HoldsByte ==
  ASSUME NEW bits \in Seq(Bit), NEW out \in Seq(Byte), NEW cur \in Seq(Bit),
         Holds(bits, out, cur), Len(cur) = 8
  PROVE  Holds(bits, Append(out, BytesOf(cur)[1]), <<>>)
<1> DEFINE byte == BytesOf(cur)[1]
           more == Append(out, byte)
<1>1. byte \in Byte /\ byte = ByteOf(SubSeq(cur, 0 + 1, 0 + 8))
  BY FirstByte
<1>2. PICK n \in Nat : n = Len(out)
  OBVIOUS
<1>3. PICK first \in Nat : /\ first = 8 * n /\ first + 1 = 8 * (n + 1) - 7
                           /\ first + 8 = 8 * (n + 1)
  <2>1. 8 * n \in Nat /\ 8 * n + 1 = 8 * (n + 1) - 7 /\ 8 * n + 8 = 8 * (n + 1)
    OBVIOUS
  <2> QED
    BY <2>1
<1>4. first + 8 = Len(bits)
  BY <1>2, <1>3 DEF Holds
<1>5. SameEight(cur, 0, bits, first)
  <2>1. \A j \in 1..8 : 0 + j = j
    OBVIOUS
  <2> QED
    BY <1>2, <1>3, <2>1 DEF Holds, SameEight
<1>6. byte = ByteOf(SubSeq(bits, first + 1, first + 8))
  <2> DEFINE z == 0
  <2>1. /\ z \in Nat /\ z + 8 <= Len(cur) /\ first + 8 <= Len(bits)
        /\ SameEight(cur, z, bits, first)
        /\ byte = OctetAt(cur, z)
    BY <1>1, <1>4, <1>5 DEF OctetAt
  <2> HIDE DEF byte, more, z
  <2>2. OctetAt(cur, z) = OctetAt(bits, first)
    BY <1>3, <2>1, SameByte, ZenonT(60)
  <2> QED
    BY <2>1, <2>2, Zenon DEF OctetAt
<1> HIDE DEF byte
<1>7. /\ more \in Seq(Byte) /\ Len(more) = n + 1 /\ more[n + 1] = byte
      /\ \A i \in 1..n : more[i] = out[i]
  BY <1>1, <1>2
<1> HIDE DEF more
<1>8. \A i \in 1..Len(more) : more[i] = ByteOf(SubSeq(bits, 8 * i - 7, 8 * i))
  <2> SUFFICES ASSUME NEW i \in 1..(n + 1)
               PROVE  more[i] = ByteOf(SubSeq(bits, 8 * i - 7, 8 * i))
    BY <1>7
  <2>1. CASE i <= n
    <3>1. i \in 1..Len(out)
      BY <1>2, <2>1
    <3> QED
      BY <1>2, <1>7, <2>1, <3>1 DEF Holds
  <2>2. CASE i = n + 1
    BY <2>2, <1>3, <1>6, <1>7
  <2> QED
    BY <2>1, <2>2
<1>9. Len(bits) = 8 * Len(more) + Len(<<>>)
  BY <1>2, <1>7 DEF Holds
<1>10. Holds(bits, more, <<>>)
  BY <1>8, <1>9 DEF Holds
<1> QED
  BY <1>10 DEF more, byte

-----------------------------------------------------------------------------
(* The slices follow the one pass. *)

(* No frame yet, or one that has room and is not whole. *)
Fits(out) ==
  Len(out) >= 4 => Len(out) < FrameLen(out[1]) /\ FrameLen(out[1]) <= OutBytes

(* A decoder and the pass that has come as far: the last edge gives the two
   counts of the pass. *)
Alike(d, a) ==
  /\ a.over = FALSE /\ a.at = d.cursor /\ a.last = d.last /\ a.seen = d.seen
  /\ a.idle = IF d.last = Idle THEN d.cursor - d.prev ELSE 0
  /\ HasBits(d) => a.quiet = d.cursor - 1 - d.prev /\ a.quiet <= EndIdle

(* The decoder is under way, at the pass's place and with its bits. *)
InStep(d, s, start, a) ==
  /\ d \in Decoder /\ d.done = None
  /\ start <= d.prev /\ d.prev <= d.cursor /\ d.cursor <= Size(s)
  /\ Alike(d, a)
  /\ Holds(a.bits, d.out, d.cur) /\ Len(d.cur) < 8 /\ Fits(d.out)

(* A decode that is not over is in step with the pass. *)
Tracks(d, s, start) ==
  InStep(d, s, start, BulkAfter(s, start, d.cursor - start))

(* One that is has come to what the whole pass comes to. *)
Judged(d, s, start) ==
  /\ d \in Decoder /\ d.done # None
  /\ SameAsWhole(d, BulkOf(DecodeBulk(s, start)), start)

(* There are bits in the pass when there are in the decoder. *)
LEMMA HeldSome ==
  ASSUME NEW bits \in Seq(Bit), NEW out \in Seq(Byte), NEW cur \in Seq(Bit),
         Holds(bits, out, cur)
  PROVE  bits # <<>> <=> out # <<>> \/ cur # <<>>
<1>1. Len(bits) = 8 * Len(out) + Len(cur)
  BY DEF Holds
<1>2. /\ bits # <<>> <=> Len(bits) # 0
      /\ out # <<>> <=> Len(out) # 0
      /\ cur # <<>> <=> Len(cur) # 0
  BY EmptySeq
<1>3. Len(bits) \in Nat /\ Len(out) \in Nat /\ Len(cur) \in Nat
  OBVIOUS
<1> QED
  BY <1>1, <1>2, <1>3

(* What is known of a decoder in step. *)
Known(d, s, start, n, a) ==
  /\ start \in Nat /\ Size(s) \in Nat /\ n \in Nat /\ start + n = d.cursor
  /\ a \in Accumulator
  /\ d.cursor \in Nat /\ d.prev \in Nat /\ d.last \in Level
  /\ d.seen \in BOOLEAN /\ d.cur \in Seq(Bit) /\ d.out \in Seq(Byte)
  /\ (a.bits # <<>>) = HasBits(d)

(* A decoder in step gives them all. *)
LEMMA TracksKnown ==
  ASSUME NEW s \in Samplings, NEW start \in 1..Size(s), NEW d,
         Tracks(d, s, start), NEW n, n = d.cursor - start,
         NEW a, a = BulkAfter(s, start, n)
  PROVE  Known(d, s, start, n, a)
<1>1. InStep(d, s, start, a)
  BY DEF Tracks
<1>2. /\ d.cursor \in Nat /\ d.prev \in Nat /\ d.last \in Level
      /\ d.seen \in BOOLEAN /\ d.cur \in Seq(Bit) /\ d.out \in Seq(Byte)
  BY <1>1 DEF InStep, Decoder, Level
<1>3. start \in Nat /\ Size(s) \in Nat /\ n \in Nat /\ start + n = d.cursor
  BY <1>1, <1>2 DEF InStep, Samplings, Size
<1>4. a \in Accumulator
  BY <1>3, BulkSteps
<1>5. (a.bits # <<>>) = HasBits(d)
  <2>1. a.bits \in Seq(Bit) /\ Holds(a.bits, d.out, d.cur)
    BY <1>1, <1>4 DEF Accumulator, InStep
  <2> QED
    BY <1>2, <2>1, HeldSome, Zenon DEF HasBits
<1> QED
  BY <1>2, <1>3, <1>4, <1>5 DEF Known

(* Counting from the start and from the cursor. *)
Gone(c, start, n, at) ==
  at - c \in Nat /\ c + (at - c) = at /\ n + (at - c) = at - start

(* Any index not behind the cursor is one. *)
LEMMA Ahead ==
  \A c \in Nat, start \in Nat, n \in Nat, at \in Nat :
    start + n = c /\ c <= at => Gone(c, start, n, at)
BY DEF Gone

(* Along quiet samples, short of the reply's end, they stay in step. *)
LEMMA TrackQuiet ==
  ASSUME NEW s \in Samplings, NEW start \in 1..Size(s), NEW d,
         Tracks(d, s, start), NEW at \in Nat, d.cursor <= at, at <= Size(s),
         Still(s, d.cursor, at, d.last),
         at < EndedAt(d, s)
  PROVE  Tracks([d EXCEPT !.cursor = at], s, start)
<1> DEFINE n == d.cursor - start
           a == BulkAfter(s, start, n)
           length == at - d.cursor
           b == BulkAfter(s, start, n + length)
           e == [d EXCEPT !.cursor = at]
<1>1. Known(d, s, start, n, a) /\ InStep(d, s, start, a)
  BY TracksKnown DEF Tracks
<1>2. /\ e.cursor = at /\ e.prev = d.prev /\ e.last = d.last /\ e.seen = d.seen
      /\ e.cur = d.cur /\ e.out = d.out /\ e.done = d.done /\ e \in Decoder
  BY <1>1 DEF InStep, Decoder
<1>3. a = BulkAfter(s, start, n) /\ b = BulkAfter(s, start, n + length)
  OBVIOUS
<1>4. length \in Nat /\ d.cursor + length = at /\ n + length = at - start
  <2>1. d.cursor \in Nat /\ n \in Nat /\ start \in Nat /\ start + n = d.cursor
    BY <1>1 DEF Known
  <2>2. d.cursor <= at
    OBVIOUS
  <2> HIDE DEF n
  <2>3. Gone(d.cursor, start, n, at)
    BY <2>1, <2>2, Ahead, Zenon
  <2> QED
    BY <2>3, Zenon DEF Gone
<1>5. BulkAfter(s, start, e.cursor - start) = b
  BY <1>2, <1>4
<1> HIDE DEF n, length, a, b, e
<1>6. n \in Nat /\ a \in Accumulator
  BY <1>1 DEF Known
<1>7. /\ a.over = FALSE /\ a.at = d.cursor /\ a.last = d.last /\ a.seen = d.seen
      /\ a.idle = IF d.last = Idle THEN d.cursor - d.prev ELSE 0
      /\ HasBits(d) => a.quiet = d.cursor - 1 - d.prev /\ a.quiet <= EndIdle
  BY <1>1 DEF InStep, Alike
<1>8. HasBits(d) => a.quiet + length <= EndIdle
  <2> SUFFICES ASSUME HasBits(d) PROVE a.quiet + length <= EndIdle
    OBVIOUS
  <2>1. a.quiet = d.cursor - 1 - d.prev /\ EndedAt(d, s) = d.prev + EndIdle + 2
    BY <1>7 DEF EndedAt
  <2>2. d.cursor \in Nat /\ d.prev \in Nat
    BY <1>1 DEF Known
  <2> QED
    BY <1>4, <2>1, <2>2, MapleWireAssumption
<1>9. Quieter(a, length, b)
  <2>1. a.at + length <= Size(s)
    BY <1>4, <1>7
  <2>2. Still(s, a.at, a.at + length, a.last)
    BY <1>4, <1>7
  <2>3. ~a.over /\ (a.last # Idle => a.idle = 0)
    BY <1>7
  <2>4. a.bits # <<>> => a.quiet + length <= EndIdle
    BY <1>1, <1>8 DEF Known
  <2> QED
    BY <1>3, <1>4, <1>6, <2>1, <2>2, <2>3, <2>4, QuietRun
<1>10. /\ b.at = at /\ b.last = d.last /\ b.over = FALSE
       /\ b.seen = d.seen /\ b.bits = a.bits
  BY <1>4, <1>7, <1>9 DEF Quieter
<1>11. b.idle = IF d.last = Idle THEN at - d.prev ELSE 0
  <2>1. d.last = Idle => b.idle = a.idle + length
    BY <1>7, <1>9 DEF Quieter
  <2>2. d.last # Idle => b.idle = 0
    BY <1>7, <1>9 DEF Quieter
  <2>3. d.cursor \in Nat /\ d.prev \in Nat
    BY <1>1 DEF Known
  <2>4. d.last = Idle => a.idle + length = at - d.prev
    BY <1>4, <1>7, <2>3
  <2> QED
    BY <2>1, <2>2, <2>4
<1>12. HasBits(d) => b.quiet = at - 1 - d.prev /\ b.quiet <= EndIdle
  <2> SUFFICES ASSUME HasBits(d)
               PROVE  b.quiet = at - 1 - d.prev /\ b.quiet <= EndIdle
    OBVIOUS
  <2>1. b.quiet = a.quiet + length
    BY <1>1, <1>9 DEF Known, Quieter
  <2>2. d.cursor \in Nat /\ d.prev \in Nat
    BY <1>1 DEF Known
  <2>3. a.quiet = d.cursor - 1 - d.prev
    BY <1>7
  <2> QED
    BY <1>4, <1>8, <2>1, <2>2, <2>3
<1>13. HasBits(e) = HasBits(d)
  BY <1>2 DEF HasBits
<1>14. Alike(e, b)
  BY <1>2, <1>10, <1>11, <1>12, <1>13 DEF Alike
<1>15. InStep(e, s, start, b)
  <2>1. /\ d.done = None /\ start <= d.prev /\ d.prev <= d.cursor
        /\ Holds(a.bits, d.out, d.cur) /\ Len(d.cur) < 8 /\ Fits(d.out)
    BY <1>1 DEF InStep
  <2>2. d.prev <= at
    BY <2>1, <1>1 DEF Known
  <2> QED
    BY <1>2, <1>10, <1>14, <2>1, <2>2 DEF InStep
<1> QED
  BY <1>5, <1>15 DEF Tracks, e

(* Along quiet samples to the reply's end, the pass is over too. *)
LEMMA TrackEnd ==
  ASSUME NEW s \in Samplings, NEW start \in 1..Size(s), NEW d,
         Tracks(d, s, start), EndedAt(d, s) <= Size(s),
         Still(s, d.cursor, EndedAt(d, s), d.last)
  PROVE  Judged([d EXCEPT !.cursor = EndedAt(d, s), !.done = "Ended"], s, start)
<1> DEFINE n == d.cursor - start
           a == BulkAfter(s, start, n)
           at == d.prev + EndIdle + 1
           length == at - d.cursor
           m == n + length
           b == BulkAfter(s, start, m)
           c == BulkAfter(s, start, m + 1)
           e == [d EXCEPT !.cursor = EndedAt(d, s), !.done = "Ended"]
           whole == DecodeBulk(s, start)
<1>1. Known(d, s, start, n, a) /\ InStep(d, s, start, a)
  BY TracksKnown DEF Tracks
<1>2. HasBits(d) /\ EndedAt(d, s) = at + 1
  BY <1>1, MapleWireAssumption DEF EndedAt, Known, Samplings, Size
<1>3. e \in Decoder /\ e.out = d.out /\ e.done = "Ended"
  <2>1. at + 1 \in Nat
    BY <1>1, MapleWireAssumption DEF Known
  <2>2. "Ended" \in Verdict /\ "Ended" # None
    BY BlockDecodeAssumption DEF Verdict, Outcome
  <2> QED
    BY <1>1, <1>2, <2>1, <2>2 DEF InStep, Decoder
<1>4. a = BulkAfter(s, start, n) /\ b = BulkAfter(s, start, n + length)
  OBVIOUS
<1>5. /\ a.over = FALSE /\ a.at = d.cursor /\ a.last = d.last /\ a.seen = d.seen
      /\ a.idle = IF d.last = Idle THEN d.cursor - d.prev ELSE 0
      /\ a.quiet = d.cursor - 1 - d.prev /\ a.quiet <= EndIdle
  BY <1>1, <1>2 DEF InStep, Alike
<1>6. /\ length \in Nat /\ d.cursor + length = at /\ at \in Nat
      /\ a.quiet + length = EndIdle /\ n \in Nat /\ a \in Accumulator
      /\ start + m = at /\ m \in Nat /\ at + 1 <= Size(s)
  <2>1. d.cursor \in Nat /\ d.prev \in Nat /\ n \in Nat /\ a \in Accumulator
        /\ start + n = d.cursor /\ start \in Nat /\ Size(s) \in Nat
    BY <1>1 DEF Known
  <2> HIDE DEF n, a
  <2>2. length \in Nat /\ d.cursor + length = at /\ at \in Nat
        /\ a.quiet + length = EndIdle
    <3>1. a.quiet = d.cursor - 1 - d.prev /\ a.quiet <= EndIdle
      BY <1>5
    <3>2. EndIdle \in Nat
      BY MapleWireAssumption
    <3> QED
      BY <2>1, <3>1, <3>2
  <2>3. start + m = at /\ m \in Nat /\ at + 1 <= Size(s)
    <3> HIDE DEF length, at
    <3> QED
      BY <1>2, <2>1, <2>2
  <2> QED
    BY <2>1, <2>2, <2>3
<1>7. m + 1 \in Nat /\ \E k \in Nat : Size(s) - start = (m + 1) + k
  <2>1. Size(s) \in Nat /\ start \in Nat
    BY <1>1 DEF Known
  <2> HIDE DEF m, at
  <2> DEFINE k == Size(s) - start - (m + 1)
  <2>2. k \in Nat /\ Size(s) - start = (m + 1) + k
    BY <1>6, <2>1
  <2> HIDE DEF k
  <2> QED
    BY <1>6, <2>2
<1>8. b = BulkAfter(s, start, m) /\ c = BulkAfter(s, start, m + 1)
      /\ whole = BulkAfter(s, start, Size(s) - start)
  BY DEF DecodeBulk, Size
<1> HIDE DEF n, a, b, c, m, at, length, e, whole
<1>9. Quieter(a, length, b)
  <2>1. a.at + length <= Size(s)
    <3>1. \A i \in Nat : i + 1 <= Size(s) => i <= Size(s)
      BY <1>1 DEF Known
    <3>2. at <= Size(s)
      BY <1>6, <3>1, Zenon
    <3> QED
      BY <1>5, <1>6, <3>2, Zenon
  <2>2. Still(s, a.at, a.at + length, a.last)
    <3>1. Still(s, d.cursor, at, d.last)
      BY <1>1, <1>2, <1>6 DEF Still, Known
    <3> QED
      BY <1>5, <1>6, <3>1
  <2>3. ~a.over /\ (a.last # Idle => a.idle = 0)
    BY <1>5
  <2>4. a.bits # <<>> => a.quiet + length <= EndIdle
    BY <1>6, MapleWireAssumption
  <2> QED
    BY <1>4, <1>6, <2>1, <2>2, <2>3, <2>4, QuietRun
<1>10. c.over = TRUE /\ c.bits = a.bits
  <2>1. b \in Accumulator /\ c = BulkNext(b, s)
    BY <1>6, <1>8, BulkSteps
  <2>2. /\ b.at = at /\ b.last = d.last /\ ~b.over
        /\ b.bits = a.bits /\ a.bits # <<>> /\ b.quiet = EndIdle
    BY <1>1, <1>2, <1>5, <1>6, <1>9 DEF Quieter, Known
  <2>3. b.at < Size(s) /\ At(s, b.at) = b.last
    <3>1. /\ d.cursor \in Nat /\ length \in Nat /\ d.cursor + length = at
          /\ Size(s) \in Nat /\ at + 1 <= Size(s)
      BY <1>1, <1>6 DEF Known
    <3>2. d.cursor <= at /\ at < Size(s) /\ at \in Nat
      BY <3>1
    <3>3. EndedAt(d, s) - 1 = at
      BY <1>2, <3>2
    <3>4. at \in d.cursor..(EndedAt(d, s) - 1)
      BY <3>1, <3>2, <3>3
    <3>5. At(s, at) = d.last
      BY <3>4 DEF Still
    <3> QED
      BY <2>2, <3>2, <3>5, Zenon
  <2>4. b.quiet + 1 > EndIdle
    BY <2>2, MapleWireAssumption
  <2> QED
    BY <2>1, <2>2, <2>3, <2>4, EndSample DEF Size
<1>11. whole = c
  <2>1. \A k \in Nat : BulkAfter(s, start, (m + 1) + k) = c
    <3> DEFINE m1 == m + 1
    <3>1. c = BulkAfter(s, start, m1) /\ m1 \in Nat
      BY <1>7, <1>8
    <3> HIDE DEF m1
    <3>2. c.over \/ c.at >= Size(s)
      BY <1>10
    <3>3. \A k \in Nat : BulkAfter(s, start, m1 + k) = c
      BY <3>1, <3>2, BulkStays
    <3> QED
      BY <3>3 DEF m1
  <2> QED
    BY <1>7, <1>8, <2>1
<1>12. BytesOf(a.bits) = d.out
  <2>1. /\ a.bits \in Seq(Bit) /\ d.out \in Seq(Byte) /\ d.cur \in Seq(Bit)
        /\ Holds(a.bits, d.out, d.cur) /\ Len(d.cur) < 8
    BY <1>1 DEF InStep, Known, Accumulator
  <2> QED
    BY <2>1, HeldBytes
<1>13. BulkOf(whole).bytes = d.out /\ BulkOf(whole).over = TRUE
  BY <1>10, <1>11, <1>12 DEF BulkOf
<1>14. SameAsWhole(e, BulkOf(whole), start)
  <2>1. Len(d.out) >= 4 => Len(d.out) < FrameLen(d.out[1])
    BY <1>1 DEF InStep, Fits
  <2> QED
    BY <1>3, <1>13, <2>1 DEF SameAsWhole
<1> QED
  BY <1>3, <1>14, BlockDecodeAssumption DEF Judged, Outcome, e, whole

(* In step at an edge, with a whole byte perhaps still to be taken. *)
Edged(d, s, start, a) ==
  /\ d \in Decoder /\ d.done = None
  /\ start <= d.prev /\ d.prev <= d.cursor /\ d.cursor <= Size(s)
  /\ Alike(d, a)
  /\ Holds(a.bits, d.out, d.cur) /\ Len(d.cur) <= 8 /\ Fits(d.out)

(* A frame in the bytes the slices hold is one in those of the whole pass. *)
Reached(s, start, n, a, out, cur) ==
  /\ n \in Nat /\ start + n <= Size(s) /\ a = BulkAfter(s, start, n)
  /\ out \in Seq(Byte) /\ cur \in Seq(Bit) /\ Holds(a.bits, out, cur)

(* `out` is how `whole` begins. *)
Opens(whole, out) ==
  /\ Len(out) <= Len(whole) /\ SubSeq(whole, 1, Len(out)) = out
  /\ Len(out) >= 1 => whole[1] = out[1]

(* The bytes of the pass open with those the decoder holds. *)
LEMMA WholeHolds ==
  ASSUME NEW s \in Samplings, NEW start \in 1..Size(s), NEW n, NEW a, NEW out,
         NEW cur, Reached(s, start, n, a, out, cur)
  PROVE  Opens(BulkOf(DecodeBulk(s, start)).bytes, out)
<1> DEFINE last == DecodeBulk(s, start)
           whole == BulkOf(last).bytes
<1>1. start \in Nat /\ Size(s) \in Nat
  BY DEF Samplings, Size
<1>0. /\ n \in Nat /\ start + n <= Size(s) /\ a = BulkAfter(s, start, n)
      /\ out \in Seq(Byte) /\ cur \in Seq(Bit) /\ Holds(a.bits, out, cur)
  BY DEF Reached
<1>2. PICK k \in Nat : Size(s) - start = n + k
  <2> DEFINE k == Size(s) - start - n
  <2>1. k \in Nat /\ Size(s) - start = n + k
    BY <1>0, <1>1
  <2> HIDE DEF k
  <2> QED
    BY <2>1
<1>3. last = BulkAfter(s, start, n + k)
  BY <1>2 DEF DecodeBulk, Size
<1>4. a.bits \in Seq(Bit) /\ last.bits \in Seq(Bit)
  <2>1. a \in Accumulator
    BY <1>0, BulkSteps
  <2>2. n + k \in Nat
    BY <1>0, <1>2
  <2>3. last \in Accumulator
    BY <1>3, <2>2, BulkSteps
  <2> HIDE DEF last
  <2> QED
    BY <2>1, <2>3 DEF Accumulator
<1>5. Begins(a.bits, last.bits)
  BY <1>0, <1>2, <1>3, BulkExtends
<1>6. whole = BytesOf(last.bits)
  BY DEF BulkOf
<1> HIDE DEF last, whole
<1>7. /\ Len(out) <= Len(whole) /\ SubSeq(whole, 1, Len(out)) = out
      /\ \A i \in 1..Len(out) : whole[i] = out[i]
  BY <1>0, <1>4, <1>5, <1>6, HeldFirst
<1>8. Len(out) >= 1 => 1 \in 1..Len(out)
  BY <1>0
<1> QED
  BY <1>7, <1>8 DEF whole, last, Opens

(* A frame's length. *)
LEMMA FrameLenIs ==
  ASSUME NEW byte \in Byte
  PROVE  FrameLen(byte) \in Nat /\ FrameLen(byte) >= 5
BY DEF FrameLen, Byte

(* A byte more leaves room for the frame, unless it is whole or too long. *)
LEMMA FitsMore ==
  ASSUME NEW out \in Seq(Byte), Fits(out), NEW byte \in Byte,
         NEW more, more = Append(out, byte)
  PROVE  /\ Len(more) <= OutBytes
         /\ Len(more) >= 4 => FrameLen(more[1]) \in Nat /\ FrameLen(more[1]) >= 5
         /\ Len(more) >= 4 /\ ~(Len(more) = 4 /\ FrameLen(more[1]) > OutBytes)
              /\ Len(more) # FrameLen(more[1])
              => Len(more) < FrameLen(more[1]) /\ FrameLen(more[1]) <= OutBytes
<1>1. /\ more \in Seq(Byte) /\ Len(more) = Len(out) + 1
      /\ Len(out) >= 1 => more[1] = out[1]
  OBVIOUS
<1>2. Len(more) >= 1 => more[1] \in Byte
  BY <1>1
<1>3. Len(more) >= 4 => FrameLen(more[1]) \in Nat /\ FrameLen(more[1]) >= 5
  BY <1>1, <1>2, FrameLenIs
<1>4. OutBytes \in Nat /\ OutBytes >= 4
  BY BlockDecodeAssumption
<1>5. PICK m \in Nat, n \in Nat : m = Len(more) /\ n = Len(out) /\ m = n + 1
  BY <1>1
<1>6. CASE n >= 4
  <2>1. PICK f \in Nat : f = FrameLen(out[1]) /\ f = FrameLen(more[1])
    BY <1>1, <1>3, <1>5, <1>6
  <2>2. n < f /\ f <= OutBytes
    BY <1>5, <1>6, <2>1 DEF Fits
  <2> HIDE DEF Fits
  <2>3. m <= OutBytes /\ (m # f => m < f)
    BY <1>4, <1>5, <2>1, <2>2
  <2> QED
    BY <1>3, <1>5, <2>1, <2>2, <2>3
<1>7. CASE n < 4
  <2>1. m <= OutBytes
    BY <1>4, <1>5, <1>7
  <2>2. m >= 4 => m = 4
    BY <1>5, <1>7
  <2> QED
    BY <1>3, <1>4, <1>5, <2>1, <2>2
<1> QED
  BY <1>5, <1>6, <1>7

(* Counting bits and bytes. *)
Short(q) == Len(q) < 8

(* Not yet a header's, and not none. *)
Few(q) == Len(q) < 4 /\ Len(q) # 4 /\ Len(q) # 0

(* When a sequence is one or the other. *)
LEMMA SmallCounts ==
  /\ \A q : Len(q) \in Nat /\ Len(q) <= 8 /\ Len(q) # 8 => Short(q)
  /\ \A q : Len(q) \in Nat /\ ~(Len(q) >= 4) /\ Len(q) >= 1 => Few(q)
<1>1. ASSUME NEW q, Len(q) \in Nat, Len(q) <= 8, Len(q) # 8
      PROVE  Short(q)
  <2> DEFINE k == Len(q)
  <2>1. k \in Nat /\ k <= 8 /\ k # 8
    BY <1>1
  <2> HIDE DEF k
  <2>2. k < 8
    BY <2>1
  <2> QED
    BY <2>2 DEF k, Short
<1>2. ASSUME NEW q, Len(q) \in Nat, ~(Len(q) >= 4), Len(q) >= 1
      PROVE  Few(q)
  <2> DEFINE k == Len(q)
  <2>1. k \in Nat /\ ~(k >= 4) /\ k >= 1
    BY <1>2
  <2> HIDE DEF k
  <2>2. k < 4 /\ k # 4 /\ k # 0
    BY <2>1
  <2> QED
    BY <2>2, Zenon DEF k, Few
<1> QED
  BY <1>1, <1>2, Zenon

(* Eight bits are not none. *)
LEMMA EightIsSome ==
  ASSUME NEW q, Len(q) = 8
  PROVE  q # <<>>
OBVIOUS

(* A whole byte keeps the slices in step, or its frame is what the whole pass
   has. *)
LEMMA WholeByteTracks ==
  ASSUME NEW s \in Samplings, NEW start \in 1..Size(s), NEW d,
         Edged(d, s, start, BulkAfter(s, start, d.cursor - start)),
         NEW e, e = WholeByte(d)
  PROVE  Judged(e, s, start) \/ (Tracks(e, s, start) /\ e.cursor = d.cursor)
<1> DEFINE n == d.cursor - start
           a == BulkAfter(s, start, n)
           bulk == BulkOf(DecodeBulk(s, start))
           whole == bulk.bytes
<1>1. Edged(d, s, start, a)
  OBVIOUS
<1>2. /\ d.cursor \in Nat /\ d.prev \in Nat /\ d.out \in Seq(Byte)
      /\ d.cur \in Seq(Bit) /\ d \in Decoder /\ d.done = None
  BY <1>1 DEF Edged, Decoder
<1>3. n \in Nat /\ start + n <= Size(s) /\ start + n = d.cursor
  <2>1. start \in Nat /\ Size(s) \in Nat
    BY DEF Samplings, Size
  <2>2. start <= d.cursor /\ d.cursor <= Size(s)
    BY <1>1, <1>2, <2>1 DEF Edged
  <2> QED
    BY <1>2, <2>1, <2>2
<1>4. a \in Accumulator /\ a = BulkAfter(s, start, n)
  BY <1>3, BulkSteps
<1>5. a.bits \in Seq(Bit)
  BY <1>4 DEF Accumulator
<1>6. whole = BulkOf(DecodeBulk(s, start)).bytes
  OBVIOUS
<1> HIDE DEF n, a, bulk, whole
<1>7. CASE Len(d.cur) # 8
  <2>1. e = d
    BY <1>7 DEF WholeByte
  <2>2. Len(d.cur) < 8
    <3>1. Len(d.cur) \in Nat
      BY <1>2
    <3>2. Len(d.cur) <= 8
      BY <1>1 DEF Edged
    <3>3. Short(d.cur)
      BY <1>7, <3>1, <3>2, SmallCounts, Zenon
    <3> QED
      BY <3>3, Zenon DEF Short
  <2>3. InStep(d, s, start, a)
    BY <1>1, <2>2 DEF Edged, InStep
  <2> QED
    BY <2>1, <2>3 DEF Tracks, a, n
<1>8. CASE Len(d.cur) = 8
  <2> DEFINE byte == BytesOf(d.cur)[1]
             out == Append(d.out, byte)
             into == [d EXCEPT !.out = out, !.cur = <<>>]
  <2>1. byte \in Byte
    BY <1>2, <1>8, FirstByte
  <2>2. out \in Seq(Byte)
    BY <1>2, <2>1
  <2>3. e = Took(d, out)
    BY <1>8 DEF WholeByte
  <2>4. Holds(a.bits, out, <<>>)
    BY <1>1, <1>2, <1>5, <1>8, HoldsByte DEF Edged
  <2>5. /\ Len(out) <= OutBytes
        /\ Len(out) >= 4 => FrameLen(out[1]) \in Nat /\ FrameLen(out[1]) >= 5
        /\ Len(out) >= 4 /\ ~(Len(out) = 4 /\ FrameLen(out[1]) > OutBytes)
              /\ Len(out) # FrameLen(out[1])
              => Len(out) < FrameLen(out[1]) /\ FrameLen(out[1]) <= OutBytes
    <3>1. Fits(d.out)
      BY <1>1 DEF Edged
    <3> QED
      BY <1>2, <2>1, <3>1, FitsMore
  <2>6. Len(out) >= 1 /\ Len(out) \in Nat
    BY <1>2, <2>1
  <2>7. Len(out) <= Len(whole) /\ SubSeq(whole, 1, Len(out)) = out /\ whole[1] = out[1]
    <3>1. <<>> \in Seq(Bit)
      OBVIOUS
    <3>2. Reached(s, start, n, a, out, <<>>)
      BY <1>3, <1>4, <2>2, <2>4, <3>1, Zenon DEF Reached
    <3>3. Opens(whole, out)
      BY <1>6, <3>2, WholeHolds
    <3> HIDE DEF out
    <3> QED
      BY <2>6, <3>3 DEF Opens
  <2> HIDE DEF byte, out
  <2>8. /\ into \in Decoder /\ into.cursor = d.cursor /\ into.prev = d.prev
        /\ into.last = d.last /\ into.seen = d.seen /\ into.cur = <<>>
        /\ into.out = out /\ into.done = None
    <3>1. <<>> \in Seq(Bit)
      OBVIOUS
    <3> QED
      BY <1>2, <2>2, <3>1 DEF Decoder
  <2>9. /\ "TooLong" \in Verdict /\ "TooLong" # None
        /\ "Complete" \in Verdict /\ "Complete" # None
    BY BlockDecodeAssumption DEF Verdict, Outcome
  <2> DEFINE full == Len(out) >= 4
  <2>10. OutBytes \in Nat /\ OutBytes >= 4
    BY BlockDecodeAssumption
  <2>11. CASE Len(out) = 4 /\ FrameLen(out[1]) > OutBytes
    <3> DEFINE long == [into EXCEPT !.done = "TooLong"]
    <3>1. ~(Len(out) > OutBytes) /\ ~(Len(out) < 4)
      BY <2>5, <2>6, <2>10, <2>11
    <3>2. e = long
      BY <2>3, <2>11, <3>1 DEF Took
    <3>3. long \in Decoder /\ long.done = "TooLong" /\ long.out = out
      BY <2>8, <2>9 DEF Decoder
    <3> HIDE DEF long, into
    <3>4. SameAsWhole(long, bulk, start)
      BY <2>7, <2>11, <3>3 DEF SameAsWhole, whole
    <3> QED
      BY <2>9, <3>2, <3>3, <3>4 DEF Judged, bulk
  <2>12. CASE /\ ~(Len(out) = 4 /\ FrameLen(out[1]) > OutBytes)
              /\ full /\ Len(out) = FrameLen(out[1])
    <3> DEFINE done == [into EXCEPT !.done = "Complete"]
    <3>1. ~(Len(out) > OutBytes) /\ ~(Len(out) < 4)
      BY <2>5, <2>6, <2>10, <2>12
    <3>2. e = done
      BY <2>3, <2>12, <3>1 DEF Took
    <3>3. done \in Decoder /\ done.done = "Complete" /\ done.out = out
      BY <2>8, <2>9 DEF Decoder
    <3> HIDE DEF done, into
    <3>4. SameAsWhole(done, bulk, start)
      BY <2>7, <2>12, <3>3 DEF SameAsWhole, whole
    <3> QED
      BY <2>9, <3>2, <3>3, <3>4 DEF Judged, bulk
  <2>13. CASE full => /\ ~(Len(out) = 4 /\ FrameLen(out[1]) > OutBytes)
                      /\ Len(out) # FrameLen(out[1])
    <3>1. ~(Len(out) > OutBytes)
      BY <2>5, <2>6, <2>10
    <3>2. e = into
      <4> DEFINE expected == IF Len(out) < 4 THEN 0 ELSE FrameLen(out[1])
      <4>1. ~(Len(out) = 4 /\ expected > OutBytes) /\ Len(out) # expected
        <5>1. CASE full
          <6>1. expected = FrameLen(out[1])
            BY <2>6, <5>1
          <6> HIDE DEF expected
          <6> QED
            BY <2>13, <5>1, <6>1
        <5>2. CASE ~full
          <6>1. Len(out) < 4 /\ Len(out) # 4 /\ Len(out) # 0
            <7>1. Few(out)
              BY <2>6, <5>2, SmallCounts, Zenon
            <7> QED
              BY <7>1, Zenon DEF Few
          <6>2. expected = 0
            BY <6>1
          <6> HIDE DEF expected
          <6> QED
            BY <6>1, <6>2
        <5> QED
          BY <5>1, <5>2
      <4>2. e = IF Len(out) > OutBytes THEN [d EXCEPT !.done = "TooLong"]
                ELSE IF Len(out) = 4 /\ expected > OutBytes
                     THEN [into EXCEPT !.done = "TooLong"]
                ELSE IF Len(out) = expected THEN [into EXCEPT !.done = "Complete"]
                ELSE into
        BY <2>3, Zenon DEF Took
      <4> HIDE DEF expected, into
      <4> QED
        BY <3>1, <4>1, <4>2
    <3>3. Fits(out)
      BY <2>5, <2>13 DEF Fits
    <3>4. HasBits(d)
      <4>1. d.cur # <<>>
        BY <1>8, EightIsSome
      <4> QED
        BY <4>1 DEF HasBits
    <3>5. Alike(into, a)
      <4>1. Alike(d, a)
        BY <1>1 DEF Edged
      <4> HIDE DEF into
      <4> QED
        BY <2>8, <3>4, <4>1 DEF Alike
    <3>6. Len(into.cur) < 8
      BY <2>8
    <3>7. Holds(a.bits, into.out, into.cur) /\ Fits(into.out)
      BY <2>4, <2>8, <3>3, Zenon
    <3> HIDE DEF into
    <3>8. InStep(into, s, start, a)
      BY <1>1, <2>8, <3>5, <3>6, <3>7 DEF Edged, InStep
    <3> QED
      BY <2>8, <3>2, <3>8 DEF Tracks, a, n
  <2> QED
    BY <2>11, <2>12, <2>13
<1> QED
  BY <1>7, <1>8

(* The two ways to forget the clock's phase are one: the count of idle samples
   is the time since the last edge. *)
LEMMA SamePhase ==
  ASSUME NEW seen \in BOOLEAN, NEW last, NEW level, level # last,
         NEW since \in Nat, NEW idle, idle = IF last = Idle THEN since ELSE 0
  PROVE  (seen /\ ~(last = Idle /\ since > Gap))
           = (seen /\ ~(level # Idle /\ idle > Gap))
<1>1. CASE last = Idle
  BY <1>1
<1>2. CASE last # Idle
  <2>1. ~(idle > Gap)
    BY <1>2, MapleWireAssumption
  <2> QED
    BY <1>2, <2>1
<1> QED
  BY <1>1, <1>2

(* One bit, or none, to less than eight. *)
LEMMA BitsBelow ==
  ASSUME NEW cur \in Seq(Bit), Len(cur) < 8, NEW from, NEW to, NEW seen
  PROVE  /\ cur \o BitAt(from, to, seen) \in Seq(Bit)
         /\ Len(cur \o BitAt(from, to, seen)) <= 8
         /\ BitAt(from, to, seen) \in Seq(Bit)
<1> DEFINE bit == BitAt(from, to, seen)
<1>1. bit \in Seq(Bit) /\ Len(bit) \in 0..1
  <2>1. /\ <<0>> \in Seq(Bit) /\ <<1>> \in Seq(Bit) /\ <<>> \in Seq(Bit)
        /\ Len(<<0>>) = 1 /\ Len(<<1>>) = 1 /\ Len(<<>>) = 0
    BY DEF Bit
  <2>2. bit = <<>> \/ bit = <<0>> \/ bit = <<1>>
    BY BitAtType
  <2> HIDE DEF bit
  <2>3. CASE bit = <<>>
    BY <2>1, <2>3
  <2>4. CASE bit = <<0>>
    BY <2>1, <2>4
  <2>5. CASE bit = <<1>>
    BY <2>1, <2>5
  <2> QED
    BY <2>2, <2>3, <2>4, <2>5
<1> HIDE DEF bit
<1>2. Len(cur \o bit) = Len(cur) + Len(bit) /\ cur \o bit \in Seq(Bit)
  BY <1>1
<1>3. Len(cur \o bit) <= 8
  <2> DEFINE k == Len(cur)
             l == Len(bit)
  <2>1. k \in Nat /\ k < 8 /\ l \in 0..1
    BY <1>1
  <2> HIDE DEF k, l
  <2>2. k + l <= 8
    BY <2>1
  <2> QED
    BY <1>2, <2>2 DEF k, l
<1> QED
  BY <1>1, <1>2, <1>3 DEF bit

(* At an edge before the reply's end, what the pass samples is what the
   decoder takes. *)
LEMMA TrackEdge ==
  ASSUME NEW s \in Samplings, NEW start \in 1..Size(s), NEW d,
         Tracks(d, s, start), NEW at \in Nat, d.cursor <= at, at < Size(s),
         Still(s, d.cursor, at, d.last), At(s, at) # d.last,
         at < EndedAt(d, s),
         NEW e, e = AtEdge(d, At(s, at), at)
  PROVE  Judged(e, s, start) \/ (Tracks(e, s, start) /\ e.cursor = at + 1)
<1> DEFINE q == [d EXCEPT !.cursor = at]
           level == At(s, at)
           m == at - start
           m1 == (at + 1) - start
           b == BulkAfter(s, start, m)
           c == BulkAfter(s, start, m1)
           seen == d.seen /\ ~(d.last = Idle /\ at - d.prev > Gap)
           clocked == seen \/ "A" \in d.last \ level
           bit == BitAt(d.last, level, seen)
           n == at + 1
           cur == d.cur \o bit
           f == [d EXCEPT !.cursor = n, !.prev = at, !.last = level,
                          !.seen = clocked, !.cur = cur]
<1>1. d \in Decoder /\ d.done = None /\ d.prev <= at
  <2>1. d \in Decoder /\ d.done = None /\ d.prev <= d.cursor
    BY DEF Tracks, InStep
  <2> QED
    BY <2>1 DEF Decoder
<1>2. /\ q.cursor = at /\ q.prev = d.prev /\ q.last = d.last /\ q.seen = d.seen
      /\ q.cur = d.cur /\ q.out = d.out
  BY <1>1 DEF Decoder
<1>3. Size(s) \in Nat /\ start \in Nat
  BY DEF Samplings, Size
<1>4. Tracks(q, s, start)
  <2>1. at <= Size(s)
    BY <1>3
  <2> QED
    BY <2>1, TrackQuiet
<1>5. b = BulkAfter(s, start, m) /\ c = BulkAfter(s, start, m1)
  OBVIOUS
<1>6. m = q.cursor - start
  BY <1>2
<1>7. level \in Level /\ level # d.last
  <2>1. at < Len(s)
    BY DEF Size
  <2> QED
    BY <2>1, AtType
<1>8. e = WholeByte(f)
  BY DEF AtEdge
<1>9. clocked \in BOOLEAN /\ seen \in BOOLEAN
  BY Zenon
<1>10. n \in Nat /\ n = at + 1
  OBVIOUS
<1> HIDE DEF q, m, b, c
<1>11. Known(q, s, start, m, b)
  BY <1>4, <1>5, <1>6, TracksKnown
<1>12. InStep(q, s, start, b)
  BY <1>4, <1>5, <1>6 DEF Tracks
<1>13. m1 = m + 1 /\ m \in Nat /\ n - start = m1
  <2>1. m \in Nat /\ start + m = at
    BY <1>2, <1>11 DEF Known
  <2> QED
    BY <1>3, <2>1 DEF m
<1>14. b \in Accumulator /\ c = BulkNext(b, s)
  <2>1. c = BulkAfter(s, start, m + 1)
    BY <1>5, <1>13
  <2> QED
    BY <1>5, <1>13, <2>1, BulkSteps
<1> HIDE DEF m1, n
<1>15. /\ b.over = FALSE /\ b.at = at /\ b.last = d.last /\ b.seen = d.seen
       /\ b.idle = IF d.last = Idle THEN at - d.prev ELSE 0
  BY <1>2, <1>12 DEF InStep, Alike
<1>16. seen = (b.seen /\ ~(level # Idle /\ b.idle > Gap))
  <2>1. at - d.prev \in Nat /\ d.seen \in BOOLEAN
    BY <1>1 DEF Decoder
  <2> HIDE DEF level
  <2> QED
    BY <1>7, <1>15, <2>1, SamePhase
<1> HIDE DEF level, seen
<1>17. /\ c.at = b.at + 1 /\ c.last = level /\ c.over = FALSE
       /\ c.seen = (seen \/ "A" \in b.last \ level)
       /\ c.bits = b.bits \o BitAt(b.last, level, seen)
       /\ c.idle = (IF level = Idle THEN b.idle + 1 ELSE 0)
       /\ c.quiet = 0
  <2>1. b.at < Len(s) /\ level = At(s, b.at) /\ level # b.last /\ ~b.over
    BY <1>7, <1>15 DEF level, Size
  <2> QED
    <3>1. Clocks(b, level, seen, c)
      BY <1>14, <1>16, <2>1, EdgeSample
    <3> QED
      BY <3>1, Zenon DEF Clocks
<1>18. /\ cur \in Seq(Bit) /\ Len(cur) <= 8 /\ bit \in Seq(Bit)
       /\ d.cur \in Seq(Bit) /\ d.out \in Seq(Byte)
  <2>1. d.cur \in Seq(Bit) /\ Len(d.cur) < 8 /\ d.out \in Seq(Byte)
    BY <1>2, <1>11, <1>12 DEF Known, InStep
  <2> QED
    BY <2>1, BitsBelow
<1>19. Holds(c.bits, d.out, cur)
  <2>1. Holds(b.bits, d.out, d.cur) /\ b.bits \in Seq(Bit)
    BY <1>2, <1>12, <1>14 DEF InStep, Accumulator
  <2>2. c.bits = b.bits \o bit
    BY <1>15, <1>17
  <2> HIDE DEF bit
  <2> QED
    BY <1>18, <2>1, <2>2, HoldsBit
<1> HIDE DEF cur, bit, clocked
<1>20. /\ f \in Decoder /\ f.cursor = n /\ f.prev = at /\ f.last = level
       /\ f.seen = clocked /\ f.cur = cur /\ f.out = d.out /\ f.done = None
  BY <1>1, <1>7, <1>9, <1>10, <1>18 DEF Decoder, Level
<1> HIDE DEF f
<1>21. Alike(f, c)
  <2>1. c.seen = clocked
    BY <1>15, <1>17 DEF clocked
  <2>2. c.at = n
    BY <1>10, <1>15, <1>17
  <2>3. c.idle = IF level = Idle THEN n - at ELSE 0
    <3>1. CASE level = Idle
      <4>1. d.last # Idle
        BY <1>7, <3>1
      <4>2. b.idle = 0
        BY <1>15, <4>1
      <4> QED
        BY <1>10, <1>17, <3>1, <4>2
    <3>2. CASE level # Idle
      BY <1>17, <3>2
    <3> QED
      BY <3>1, <3>2
  <2>4. c.quiet = n - 1 - at /\ c.quiet <= EndIdle
    BY <1>10, <1>17, MapleWireAssumption
  <2> QED
    BY <1>17, <1>20, <2>1, <2>2, <2>3, <2>4 DEF Alike
<1>22. Edged(f, s, start, c)
  <2>1. start <= at /\ at <= n /\ n <= Size(s)
    <3>1. start + m = at /\ m \in Nat
      BY <1>2, <1>11 DEF Known
    <3> QED
      BY <1>3, <1>10, <3>1
  <2>2. Fits(d.out)
    BY <1>2, <1>12 DEF InStep
  <2> QED
    BY <1>18, <1>19, <1>20, <1>21, <2>1, <2>2 DEF Edged
<1>23. c = BulkAfter(s, start, f.cursor - start)
  BY <1>5, <1>13, <1>20
<1>24. Judged(e, s, start) \/ (Tracks(e, s, start) /\ e.cursor = f.cursor)
  <2>1. Edged(f, s, start, BulkAfter(s, start, f.cursor - start))
    BY <1>22, <1>23
  <2>2. e = WholeByte(f)
    BY <1>8 DEF f
  <2> QED
    BY <2>1, <2>2, WholeByteTracks
<1> QED
  BY <1>10, <1>20, <1>24

(* Fewer samples are as still. *)
LEMMA StillLess ==
  ASSUME NEW s, NEW from \in Nat, NEW to \in Nat, NEW level,
         \A i \in from..(to - 1) : At(s, i) = level,
         NEW less \in Nat, less <= to
  PROVE  Still(s, from, less, level)
<1>1. \A i \in from..(less - 1) : i \in from..(to - 1)
  OBVIOUS
<1> QED
  BY <1>1 DEF Still

(* One more, or as far as the slice goes. *)
Onward(d, limit, e) ==
  /\ e.cursor \in Nat /\ e.cursor >= d.cursor
  /\ e.cursor >= d.cursor + 1 \/ e.cursor >= limit

(* Every hop keeps the slices in step and makes way, or is the last. *)
LEMMA HopTracks ==
  ASSUME NEW s \in Samplings, NEW start \in 1..Size(s), NEW d,
         Tracks(d, s, start), NEW limit \in Nat, limit <= Size(s),
         NEW e, e = Hop(d, s, limit)
  PROVE  Judged(e, s, start) \/ (Tracks(e, s, start) /\ Onward(d, limit, e))
<1> DEFINE ended == EndedAt(d, s)
           stop == SmallerOf(limit, ended)
           next == Search(s, d.cursor, d.last, stop)
           reach == Reach(s, d.cursor, stop)
           cursor == d.cursor
           size == Size(s)
<1>1. /\ d \in Decoder /\ d.done = None /\ cursor \in Nat /\ d.last \in Level
      /\ cursor <= size /\ size \in Nat
  BY DEF Tracks, InStep, Decoder, Level, Samplings, Size
<1>2. ended \in Nat
  BY <1>1, EndedAtType
<1>3. next = NextEdge(d, s, limit)
  BY DEF NextEdge
<1>4. e = IF ~next.edge THEN WithoutEdge(d, s, next.at)
          ELSE IF next.at >= ended
               THEN [d EXCEPT !.cursor = ended, !.done = "Ended"]
          ELSE AtEdge(d, At(s, next.at), next.at)
  BY <1>1, <1>3 DEF Hop
<1>5. limit <= size
  OBVIOUS
<1> HIDE DEF ended, cursor, size
<1>6. /\ stop \in Nat /\ stop <= size
      /\ stop = limit \/ (stop = ended /\ ended <= limit)
  BY <1>1, <1>2, <1>5 DEF SmallerOf
<1>7. Finding(s, cursor, d.last, stop, reach, next)
  <2>1. stop <= Len(s)
    BY <1>6 DEF size, Size
  <2> HIDE DEF stop
  <2> QED
    BY <1>1, <1>6, <2>1, SearchFinds DEF cursor
<1>8. /\ reach \in Nat /\ reach >= stop /\ reach >= cursor
      /\ cursor < stop => reach <= size
      /\ stop <= cursor => reach = cursor
      /\ next.edge \in BOOLEAN
      /\ ~next.edge => /\ next.at = reach
                       /\ \A j \in cursor..(reach - 1) : At(s, j) = d.last
      /\ next.edge => /\ next.at \in cursor..(reach - 1)
                      /\ At(s, next.at) # d.last
                      /\ \A j \in cursor..(next.at - 1) : At(s, j) = d.last
  BY <1>7, Zenon DEF Finding, size, Size
<1> HIDE DEF stop, next, reach
<1>9. reach <= size
  BY <1>1, <1>6, <1>8
<1>10. CASE ~next.edge /\ ended <= reach
  <2>1. e = [d EXCEPT !.cursor = ended, !.done = "Ended"]
    BY <1>4, <1>8, <1>10 DEF WithoutEdge, ended
  <2>2. ended <= size
    BY <1>1, <1>2, <1>8, <1>9, <1>10
  <2>3. Still(s, cursor, ended, d.last)
    BY <1>1, <1>2, <1>8, <1>10, StillLess
  <2>4. Judged([d EXCEPT !.cursor = EndedAt(d, s), !.done = "Ended"], s, start)
    BY <2>2, <2>3, TrackEnd DEF ended, cursor, size
  <2> QED
    BY <2>1, <2>4 DEF ended
<1>11. CASE ~next.edge /\ ~(ended <= reach)
  <2>1. e = [d EXCEPT !.cursor = reach]
    BY <1>4, <1>8, <1>11 DEF WithoutEdge, ended
  <2>2. reach < ended /\ cursor <= reach /\ reach >= limit
    BY <1>1, <1>2, <1>6, <1>8, <1>11
  <2>3. Still(s, cursor, reach, d.last)
    BY <1>8, <1>11 DEF Still
  <2>4. Tracks([d EXCEPT !.cursor = reach], s, start)
    BY <1>8, <1>9, <2>2, <2>3, TrackQuiet DEF ended, cursor, size
  <2>5. e.cursor = reach
    BY <1>1, <2>1 DEF Decoder
  <2>6. Onward(d, limit, e)
    BY <1>8, <2>2, <2>5 DEF Onward, cursor
  <2> QED
    BY <2>1, <2>4, <2>6
<1>12. CASE next.edge
  <2>1. PICK at \in Nat : at = next.at
    <3>1. next.at \in cursor..(reach - 1)
      BY <1>8, <1>12
    <3> QED
      BY <1>1, <1>8, <3>1
  <2>2. at \in cursor..(reach - 1) /\ At(s, at) # d.last
        /\ \A j \in cursor..(at - 1) : At(s, j) = d.last
    BY <1>8, <1>12, <2>1
  <2>3. cursor <= at /\ at < size /\ at <= size
    BY <1>1, <1>8, <1>9, <2>1, <2>2
  <2>4. CASE at >= ended
    <3>1. e = [d EXCEPT !.cursor = ended, !.done = "Ended"]
      BY <1>4, <1>12, <2>1, <2>4
    <3>2. ended <= size /\ ended <= at
      BY <1>1, <1>2, <2>1, <2>3, <2>4
    <3>3. Still(s, cursor, ended, d.last)
      BY <1>1, <1>2, <2>1, <2>2, <3>2, StillLess
    <3>4. Judged([d EXCEPT !.cursor = EndedAt(d, s), !.done = "Ended"], s, start)
      BY <3>2, <3>3, TrackEnd DEF ended, cursor, size
    <3> QED
      BY <3>1, <3>4 DEF ended
  <2>5. CASE ~(at >= ended)
    <3>1. e = AtEdge(d, At(s, at), at)
      BY <1>4, <1>12, <2>1, <2>5
    <3>2. at < ended
      BY <1>2, <2>1, <2>5
    <3>3. Still(s, cursor, at, d.last)
      BY <2>2 DEF Still
    <3>4. Judged(e, s, start) \/ (Tracks(e, s, start) /\ e.cursor = at + 1)
      BY <2>1, <2>2, <2>3, <3>1, <3>2, <3>3, TrackEdge DEF ended, cursor, size
    <3>5. e.cursor = at + 1 => Onward(d, limit, e)
      BY <1>1, <2>1, <2>3 DEF Onward, cursor
    <3> QED
      BY <3>4, <3>5
  <2> QED
    BY <2>4, <2>5
<1> QED
  BY <1>8, <1>10, <1>11, <1>12

(* Over as the whole pass, or in step and past a mark. *)
Past(e, s, start, mark) ==
  Judged(e, s, start) \/ (Tracks(e, s, start) /\ e.cursor >= mark)

(* The hops of a slice. *)
Hops(d, s, limit, k) == Iterated([e \in Decoder |-> Hop(e, s, limit)], d, k)

(* Each is the hop of the one before. *)
LEMMA HopsFollow ==
  ASSUME NEW s \in Samplings, NEW limit \in Nat, limit <= Size(s),
         NEW d \in Decoder
  PROVE  /\ Hops(d, s, limit, 0) = d
         /\ \A k \in Nat :
              /\ Hops(d, s, limit, k) \in Decoder
              /\ Hops(d, s, limit, k + 1) = Hop(Hops(d, s, limit, k), s, limit)
<1> DEFINE F == [e \in Decoder |-> Hop(e, s, limit)]
<1>1. \A e \in Decoder : F[e] = Hop(e, s, limit) /\ F[e] \in Decoder
  BY HopType DEF Size
<1>2. \A k : Hops(d, s, limit, k) = Iterated(F, d, k)
  BY DEF Hops
<1> HIDE DEF F
<1>3. LoopIn(Decoder, F, d)
  <2>1. \A e \in Decoder : F[e] \in Decoder
    BY <1>1
  <2> QED
    BY <2>1, IteratedSteps
<1> QED
  BY <1>1, <1>2, <1>3 DEF LoopIn

(* A hop from a decoder that is past a limit, or not yet. *)
LEMMA HopPast ==
  ASSUME NEW s \in Samplings, NEW start \in 1..Size(s), NEW d,
         NEW limit \in Nat, limit <= Size(s), NEW mark \in Nat,
         Past(d, s, start, limit) \/ Past(d, s, start, mark),
         NEW e, e = Hop(d, s, limit)
  PROVE  Past(e, s, start, limit) \/ Past(e, s, start, mark + 1)
<1>1. CASE Judged(d, s, start)
  <2>1. e = d
    BY <1>1 DEF Judged, Hop
  <2> QED
    BY <1>1, <2>1 DEF Past
<1>2. CASE ~Judged(d, s, start)
  <2>1. Tracks(d, s, start) /\ (d.cursor >= limit \/ d.cursor >= mark)
    BY <1>2 DEF Past
  <2>2. d.cursor \in Nat
    BY <2>1 DEF Tracks, InStep, Decoder
  <2>3. Judged(e, s, start) \/ (Tracks(e, s, start) /\ Onward(d, limit, e))
    BY <2>1, HopTracks
  <2>4. Onward(d, limit, e) => e.cursor >= limit \/ e.cursor >= mark + 1
    BY <2>1, <2>2 DEF Onward
  <2> QED
    BY <2>3, <2>4 DEF Past
<1> QED
  BY <1>1, <1>2

(* A slice goes as far as its limit, or to the end. *)
LEMMA ScanTracks ==
  ASSUME NEW s \in Samplings, NEW start \in 1..Size(s), NEW d,
         Tracks(d, s, start), NEW limit \in Nat, limit <= Size(s),
         d.cursor <= limit
  PROVE  Past(Scanned(d, s, limit), s, start, limit)
<1> DEFINE hops(k) == Hops(d, s, limit, k)
           n == limit - d.cursor + 1
           mark(k) == d.cursor + k
           Good == {k \in Nat : \/ Past(hops(k), s, start, limit)
                                \/ Past(hops(k), s, start, mark(k))}
<1>1. d \in Decoder /\ d.cursor \in Nat
  BY DEF Tracks, InStep, Decoder
<1>2. hops(0) = d /\ \A k \in Nat : hops(k + 1) = Hop(hops(k), s, limit)
  BY <1>1, HopsFollow
<1>3. \A k \in Nat : mark(k) \in Nat /\ mark(k + 1) = mark(k) + 1
  BY <1>1
<1>4. 0 \in Good
  <2>1. d.cursor >= mark(0)
    BY <1>1
  <2> QED
    BY <1>2, <2>1 DEF Past
<1>5. \A k \in Nat : k \in Good => k + 1 \in Good
  <2> HIDE DEF hops, mark
  <2> SUFFICES ASSUME NEW k \in Nat, k \in Good
               PROVE  k + 1 \in Good
    OBVIOUS
  <2>1. \/ Past(hops(k), s, start, limit)
        \/ Past(hops(k), s, start, mark(k))
    OBVIOUS
  <2>2. mark(k) \in Nat
    BY <1>3
  <2>3. \/ Past(hops(k + 1), s, start, limit)
        \/ Past(hops(k + 1), s, start, mark(k) + 1)
    BY <1>2, <2>1, <2>2, HopPast
  <2>4. mark(k + 1) = mark(k) + 1
    BY <1>3
  <2> QED
    BY <2>3, <2>4
<1>6. n \in Nat /\ mark(n) >= limit
  BY <1>1
<1>7. n \in Good
  <2> HIDE DEF Good, n
  <2> QED
    BY <1>4, <1>5, <1>6, AllNaturals
<1>8. Scanned(d, s, limit) = hops(n)
  BY DEF Scanned, Hops
<1>9. Past(hops(n), s, start, mark(n)) => Past(hops(n), s, start, limit)
  <2> SUFFICES ASSUME Tracks(hops(n), s, start), hops(n).cursor >= mark(n)
               PROVE  hops(n).cursor >= limit
    BY DEF Past
  <2>1. hops(n).cursor \in Nat
    BY DEF Tracks, InStep, Decoder
  <2> HIDE DEF hops, n
  <2> QED
    BY <1>3, <1>6, <2>1
<1> HIDE DEF hops, n, mark
<1> QED
  BY <1>7, <1>8, <1>9

(* Where a decode in slices is: over as the whole pass, or in step, past a mark
   and short of the capture's end. *)
Sliced(e, s, start, mark) ==
  \/ Judged(e, s, start)
  \/ Tracks(e, s, start) /\ e.cursor >= mark /\ e.cursor < Size(s)

(* A decoder in step that is out of samples ends as the whole pass. *)
LEMMA TrackExhausted ==
  ASSUME NEW s \in Samplings, NEW start \in 1..Size(s), NEW d,
         Tracks(d, s, start), d.cursor = Size(s)
  PROVE  Judged([d EXCEPT !.done = "Exhausted"], s, start)
<1> DEFINE n == d.cursor - start
           a == BulkAfter(s, start, n)
           e == [d EXCEPT !.done = "Exhausted"]
           bulk == BulkOf(DecodeBulk(s, start))
<1>1. Known(d, s, start, n, a) /\ InStep(d, s, start, a)
  BY TracksKnown DEF Tracks
<1>2. bulk = BulkOf(a)
  BY DEF DecodeBulk, Size
<1>3. "Exhausted" \in Verdict /\ "Exhausted" # None
  BY BlockDecodeAssumption DEF Verdict, Outcome
<1>4. e \in Decoder /\ e.done = "Exhausted" /\ e.out = d.out
  BY <1>1, <1>3 DEF InStep, Decoder
<1> HIDE DEF n, a, e, bulk
<1>5. BytesOf(a.bits) = d.out
  <2>1. /\ a.bits \in Seq(Bit) /\ d.out \in Seq(Byte) /\ d.cur \in Seq(Bit)
        /\ Holds(a.bits, d.out, d.cur) /\ Len(d.cur) < 8
    BY <1>1 DEF InStep, Known, Accumulator
  <2> QED
    BY <2>1, HeldBytes
<1>6. bulk.bytes = d.out /\ bulk.over = FALSE
  BY <1>1, <1>2, <1>5 DEF BulkOf, InStep, Alike
<1>7. Len(d.out) >= 4 => Len(d.out) < FrameLen(d.out[1])
  BY <1>1 DEF InStep, Fits
<1>8. SameAsWhole(e, bulk, start)
  BY <1>4, <1>6, <1>7 DEF SameAsWhole
<1> QED
  BY <1>3, <1>4, <1>8 DEF Judged, e, bulk

(* One slice. *)
LEMMA StepTracks ==
  ASSUME NEW s \in Samplings, NEW start \in 1..Size(s), NEW d, NEW mark \in Nat,
         Sliced(d, s, start, mark), NEW quota \in Nat
  PROVE  Sliced(Step(d, s, quota), s, start, mark + quota)
<1>1. CASE Judged(d, s, start)
  <2>1. Step(d, s, quota) = d
    BY <1>1 DEF Judged, Step
  <2> QED
    BY <1>1, <2>1 DEF Sliced
<1>2. CASE ~Judged(d, s, start)
  <2> DEFINE size == Size(s)
             limit == SmallerOf(size, d.cursor + quota)
             e == Scanned(d, s, limit)
  <2>1. /\ Tracks(d, s, start) /\ d.cursor >= mark /\ d.cursor < size
        /\ d.cursor \in Nat /\ d.done = None /\ size \in Nat
    BY <1>2 DEF Sliced, Tracks, InStep, Decoder, Samplings, Size
  <2>2. Step(d, s, quota) = Exhausted(e, s)
    BY <2>1 DEF Step, Size
  <2> HIDE DEF size
  <2>3. /\ limit \in Nat /\ limit <= size /\ d.cursor <= limit
        /\ limit < size => limit >= mark + quota
    BY <2>1 DEF SmallerOf
  <2> HIDE DEF limit, e
  <2>4. Past(e, s, start, limit)
    BY <2>1, <2>3, ScanTracks DEF e, size
  <2>5. CASE Judged(e, s, start)
    <3>1. Exhausted(e, s) = e
      BY <2>5 DEF Judged, Exhausted
    <3> QED
      BY <2>2, <2>5, <3>1 DEF Sliced
  <2>6. CASE ~Judged(e, s, start)
    <3>1. /\ Tracks(e, s, start) /\ e.cursor >= limit /\ e.cursor <= size
          /\ e.cursor \in Nat /\ e.done = None
      BY <2>4, <2>6 DEF Past, Tracks, InStep, Decoder, size
    <3>2. CASE e.cursor = size
      <4>1. Exhausted(e, s) = [e EXCEPT !.done = "Exhausted"]
        <5>1. e.cursor >= Len(s)
          BY <2>1, <3>2 DEF size, Size
        <5> QED
          BY <3>1, <5>1 DEF Exhausted
      <4> QED
        BY <2>2, <3>1, <3>2, <4>1, TrackExhausted DEF Sliced, size
    <3>3. CASE e.cursor # size
      <4>1. e.cursor < size
        BY <2>1, <3>1, <3>3
      <4>2. Exhausted(e, s) = e
        <5>1. ~(e.cursor >= size)
          BY <2>1, <3>1, <4>1
        <5> QED
          BY <3>1, <5>1 DEF Exhausted, size, Size
      <4>3. e.cursor >= mark + quota
        BY <2>1, <2>3, <3>1, <4>1
      <4> QED
        BY <2>2, <3>1, <4>1, <4>2, <4>3 DEF Sliced, size
    <3> QED
      BY <3>2, <3>3
  <2> QED
    BY <2>5, <2>6
<1> QED
  BY <1>1, <1>2

(* A decode begins in step with the pass. *)
LEMMA BeginTracks ==
  ASSUME NEW s \in Samplings, NEW start, start = FindDataStart(s),
         start # NoStart
  PROVE  start \in 1..Size(s) /\ Sliced(Begin(s), s, start, start)
<1> DEFINE d == Begin(s)
           a == BulkAfter(s, start, 0)
<1>1. Len(s) \in Nat /\ start \in 1..(Len(s) - 1)
  BY StartInside DEF Samplings
<1>2. start \in 1..Size(s) /\ start < Size(s) /\ Size(s) \in Nat /\ start \in Nat
  BY <1>1 DEF Size
<1>3. a = BulkStart(s, start)
  BY <1>2, BulkSteps
<1> DEFINE level == At(s, start - 1)
<1>4. level \in Level
  BY <1>1, AtType
<1>5. d = [NewDecoder EXCEPT !.cursor = start, !.prev = start, !.last = level]
  BY DEF Begin, BeginAt
<1> HIDE DEF d, a
<1>6. /\ a.at = start /\ a.last = level /\ a.idle = 0 /\ a.seen = FALSE
      /\ a.over = FALSE /\ a.bits = <<>>
  BY <1>3 DEF BulkStart
<1>7. /\ d.cursor = start /\ d.prev = start /\ d.last = level /\ d.seen = FALSE
      /\ d.cur = <<>> /\ d.out = <<>> /\ d.done = None
  BY <1>5 DEF NewDecoder
<1>8. d \in Decoder
  <2>1. <<>> \in Seq(Bit) /\ <<>> \in Seq(Byte) /\ None \in Verdict
    BY DEF Verdict
  <2> HIDE DEF level
  <2>2. NewDecoder \in Decoder
    BY <2>1 DEF NewDecoder, Decoder
  <2> QED
    BY <1>2, <1>4, <1>5, <2>2 DEF Decoder, Level
<1> HIDE DEF level
<1>9. start - start = 0
  BY <1>2
<1>10. Alike(d, a)
  <2>1. ~HasBits(d)
    BY <1>7 DEF HasBits
  <2> QED
    BY <1>6, <1>7, <1>9, <2>1 DEF Alike
<1>11. Holds(a.bits, d.out, d.cur) /\ Len(d.cur) < 8 /\ Fits(d.out)
  BY <1>6, <1>7 DEF Holds, Fits
<1>12. InStep(d, s, start, a)
  BY <1>2, <1>7, <1>8, <1>10, <1>11 DEF InStep
<1>13. Tracks(d, s, start)
  BY <1>7, <1>9, <1>12 DEF Tracks, a
<1> QED
  BY <1>2, <1>7, <1>13 DEF Sliced, d

(* A decode in slices, slice by slice, where a pattern was found. *)
LEMMA DecodedTracks ==
  ASSUME NEW s \in Samplings, NEW start, start = FindDataStart(s),
         start # NoStart
  PROVE  \A n \in Nat : Sliced(Decoded(s, n), s, start, start + n * SliceSamples)
<1> DEFINE F == [d \in Decoder |-> Step(d, s, SliceSamples)]
           S == {d \in Decoder : Sliced(d, s, start, 0)}
           x == Begin(s)
           mark(n) == start + n * SliceSamples
<1>1. start \in 1..Size(s) /\ Sliced(x, s, start, start)
  BY BeginTracks
<1>2. SliceSamples \in Nat /\ start \in Nat
  BY <1>1, BusAssumption DEF Samplings, Size
<1>3. \A d : \A m \in Nat : Sliced(d, s, start, m) => d \in S
  <2> SUFFICES ASSUME NEW d, NEW m \in Nat, Sliced(d, s, start, m)
               PROVE  d \in Decoder /\ Sliced(d, s, start, 0)
    OBVIOUS
  <2>1. CASE Judged(d, s, start)
    BY <2>1 DEF Judged, Sliced
  <2>2. CASE ~Judged(d, s, start)
    <3>1. Tracks(d, s, start) /\ d.cursor < Size(s) /\ d \in Decoder
      BY <2>2 DEF Sliced, Tracks, InStep
    <3>2. d.cursor >= 0
      BY <3>1 DEF Decoder
    <3> QED
      BY <3>1, <3>2 DEF Sliced
  <2> QED
    BY <2>1, <2>2
<1>4. \A d \in S : F[d] = Step(d, s, SliceSamples) /\ F[d] \in S
  <2> SUFFICES ASSUME NEW d \in S
               PROVE  Step(d, s, SliceSamples) \in S
    OBVIOUS
  <2>1. Sliced(d, s, start, 0) /\ 0 \in Nat
    OBVIOUS
  <2> HIDE DEF S
  <2>2. Sliced(Step(d, s, SliceSamples), s, start, 0 + SliceSamples)
    BY <1>1, <1>2, <2>1, StepTracks
  <2>3. 0 + SliceSamples \in Nat
    BY <1>2
  <2> QED
    BY <1>3, <2>2, <2>3
<1>5. x \in S
  BY <1>1, <1>2, <1>3
<1>6. \A n : Decoded(s, n) = Iterated(F, x, n)
  BY DEF Decoded
<1> HIDE DEF F, S, x
<1>7. LoopIn(S, F, x)
  BY <1>4, <1>5, IteratedSteps
<1>8. /\ Decoded(s, 0) = x
      /\ \A n \in Nat : Decoded(s, n + 1) = Step(Decoded(s, n), s, SliceSamples)
  BY <1>4, <1>6, <1>7 DEF LoopIn
<1> DEFINE Good == {n \in Nat : Sliced(Decoded(s, n), s, start, mark(n))}
<1>9. mark(0) = start /\ \A n \in Nat : mark(n) \in Nat
      /\ mark(n + 1) = mark(n) + SliceSamples
  BY <1>2
<1> HIDE DEF mark
<1>10. 0 \in Good
  BY <1>1, <1>8, <1>9
<1>11. \A n \in Nat : n \in Good => n + 1 \in Good
  <2> SUFFICES ASSUME NEW n \in Nat, Sliced(Decoded(s, n), s, start, mark(n))
               PROVE  Sliced(Decoded(s, n + 1), s, start, mark(n + 1))
    OBVIOUS
  <2>1. Decoded(s, n + 1) = Step(Decoded(s, n), s, SliceSamples)
    BY <1>8
  <2>2. Sliced(Step(Decoded(s, n), s, SliceSamples), s, start,
               mark(n) + SliceSamples)
    BY <1>1, <1>2, <1>9, StepTracks
  <2>3. mark(n + 1) = mark(n) + SliceSamples
    BY <1>9
  <2> QED
    BY <2>1, <2>2, <2>3
<1>12. \A n \in Nat : n \in Good
  <2> HIDE DEF Good
  <2> QED
    BY <1>10, <1>11, AllNaturals
<1> QED
  BY <1>12 DEF mark

(* Where none was found it is over at once. *)
LEMMA DecodedNone ==
  ASSUME NEW s \in Samplings, FindDataStart(s) = NoStart
  PROVE  \A n \in Nat : Decoded(s, n) \in Decoder /\ Decoded(s, n).done = "NoStart"
<1> DEFINE F == [d \in Decoder |-> Step(d, s, SliceSamples)]
           S == {d \in Decoder : d.done = "NoStart"}
           x == Begin(s)
<1>1. "NoStart" \in Verdict /\ "NoStart" # None
  BY BlockDecodeAssumption DEF Verdict, Outcome
<1>2. x \in S
  <2>1. <<>> \in Seq(Bit) /\ <<>> \in Seq(Byte)
    OBVIOUS
  <2>2. x = [NewDecoder EXCEPT !.done = "NoStart"]
    BY DEF Begin, BeginAt
  <2>3. x = [cursor |-> 0, last |-> {}, prev |-> 0, seen |-> FALSE, cur |-> <<>>,
             out |-> <<>>, done |-> "NoStart"]
    BY <2>2 DEF NewDecoder
  <2> HIDE DEF x
  <2>4. x \in Decoder /\ x.done = "NoStart"
    BY <1>1, <2>1, <2>3 DEF Decoder
  <2> QED
    BY <2>4
<1>3. \A d \in S : F[d] \in S
  BY <1>1 DEF Step
<1>4. \A n : Decoded(s, n) = Iterated(F, x, n)
  BY DEF Decoded
<1> HIDE DEF F, S, x
<1>5. LoopIn(S, F, x)
  BY <1>2, <1>3, IteratedSteps
<1> QED
  BY <1>4, <1>5 DEF LoopIn, S

(* The slices are more than the capture has samples for. *)
LEMMA StepsSuffice ==
  Steps \in Nat /\ Steps * SliceSamples > Samples
<1>1. Samples \in Nat /\ SliceSamples \in Nat /\ SliceSamples # 0
  BY BusAssumption
<1>2. \A m \in Nat, k \in Nat : k # 0 => m \div k \in Nat /\ (m \div k + 1) * k > m
  OBVIOUS
<1> QED
  BY <1>1, <1>2 DEF Steps

(* A decode in slices of a capture: what it ends with is what the whole pass
   has, and it ends. *)
Whole(s, d) ==
  /\ d \in Decoder
  /\ d.done # None
       => SameAsWhole(d, BulkAt(s, FindDataStart(s)), FindDataStart(s))

(* A decode of a whole capture is such a one after any number of slices, and is
   over when the slices have covered it. *)
LEMMA DecodedWhole ==
  ASSUME NEW s \in Samplings, Len(s) = Samples
  PROVE  /\ \A n \in Nat : Whole(s, Decoded(s, n))
         /\ Decoded(s, Steps).done # None
<1> DEFINE start == FindDataStart(s)
<1>1. CASE start = NoStart
  <2>1. \A n \in Nat : Decoded(s, n) \in Decoder /\ Decoded(s, n).done = "NoStart"
    BY <1>1, DecodedNone
  <2>2. \A n \in Nat : Whole(s, Decoded(s, n))
    BY <1>1, <2>1 DEF Whole, SameAsWhole
  <2>3. Decoded(s, Steps).done # None
    BY <2>1, StepsSuffice, BlockDecodeAssumption DEF Outcome
  <2> QED
    BY <2>2, <2>3
<1>2. CASE start # NoStart
  <2> HIDE DEF start
  <2>1. start \in 1..Size(s)
    BY <1>2, BeginTracks DEF start
  <2>2. \A n \in Nat : Sliced(Decoded(s, n), s, start, start + n * SliceSamples)
    BY <1>2, DecodedTracks DEF start
  <2>3. \A n \in Nat : Whole(s, Decoded(s, n))
    <3> SUFFICES ASSUME NEW n \in Nat PROVE Whole(s, Decoded(s, n))
      OBVIOUS
    <3> DEFINE d == Decoded(s, n)
    <3>1. BulkAt(s, start) = BulkOf(DecodeBulk(s, start))
      BY <1>2 DEF BulkAt
    <3>2. Sliced(d, s, start, start + n * SliceSamples)
      BY <2>2
    <3> HIDE DEF d
    <3>3. CASE Judged(d, s, start)
      BY <3>1, <3>3 DEF Judged, Whole, start, d
    <3>4. CASE ~Judged(d, s, start)
      <4>1. d \in Decoder /\ d.done = None
        BY <3>2, <3>4 DEF Sliced, Tracks, InStep
      <4> QED
        BY <4>1 DEF Whole, d
    <3> QED
      BY <3>3, <3>4
  <2>4. Decoded(s, Steps).done # None
    <3> DEFINE d == Decoded(s, Steps)
               far == Steps * SliceSamples
    <3>1. Sliced(d, s, start, start + far)
      BY <2>2, StepsSuffice
    <3>2. far > Samples /\ far \in Nat /\ Samples \in Nat /\ Size(s) = Samples
      <4>1. far \in Nat
        BY StepsSuffice, BusAssumption
      <4> QED
        BY <4>1, StepsSuffice, BusAssumption DEF Size
    <3> HIDE DEF d, far
    <3>3. CASE Judged(d, s, start)
      BY <3>3 DEF Judged, d
    <3>4. CASE ~Judged(d, s, start)
      <4>1. d.cursor >= start + far /\ d.cursor < Samples /\ d.cursor \in Nat
        BY <3>1, <3>2, <3>4 DEF Sliced, Tracks, InStep, Decoder
      <4>2. start \in Nat
        BY <2>1, <3>2
      <4> QED
        BY <3>2, <4>1, <4>2
    <3> QED
      BY <3>3, <3>4
  <2> QED
    BY <2>3, <2>4
<1> QED
  BY <1>1, <1>2

-----------------------------------------------------------------------------
(* Waveforms. *)

(* The sequences of `seqs` up to the k-th, one behind the other. *)
Joined(S, seqs, f) ==
  /\ f[0] = <<>>
  /\ \A i \in 0..Len(seqs) : f[i] \in Seq(S)
  /\ \A i \in 1..Len(seqs) : f[i] = f[i - 1] \o seqs[i]
  /\ f[Len(seqs)] = FlattenSeq(seqs)

(* There is such a function, for sequences of any length. *)
LEMMA Flattening ==
  ASSUME NEW S, NEW seqs \in Seq(Seq(S))
  PROVE  \E f : Joined(S, seqs, f)
<1> DEFINE n == Len(seqs)
           P == Nat \X Seq(S)
           F == [p \in P |-> <<p[1] + 1, IF p[1] + 1 <= n THEN p[2] \o seqs[p[1] + 1]
                                         ELSE p[2]>>]
           x == <<0, <<>>>>
           h(k) == Iterated(F, x, k)
           Next1(f, i) == IF i = 1 THEN seqs[i] ELSE f[i - 1] \o seqs[i]
           f0 == [i \in 1..n |-> h(i)[2]]
           Is(f) == f = [i \in 1..n |-> Next1(f, i)]
           flat == CHOOSE f : Is(f)
           all == [i \in 0..n |-> IF i = 0 THEN <<>> ELSE flat[i]]
<1>1. n \in Nat /\ \A i \in 1..n : seqs[i] \in Seq(S)
  OBVIOUS
<1>2. x \in P
  <2>1. <<>> \in Seq(S) /\ 0 \in Nat
    OBVIOUS
  <2> QED
    BY <2>1
<1>3. \A p \in P : F[p] \in P
  <2> SUFFICES ASSUME NEW k \in Nat, NEW q \in Seq(S) PROVE F[<<k, q>>] \in P
    OBVIOUS
  <2> DEFINE r == IF k + 1 <= n THEN q \o seqs[k + 1] ELSE q
  <2>1. F[<<k, q>>] = <<k + 1, r>>
    OBVIOUS
  <2>2. r \in Seq(S)
    <3>1. CASE k + 1 <= n
      <4>1. k + 1 \in 1..n
        BY <1>1, <3>1
      <4>2. q \o seqs[k + 1] \in Seq(S)
        BY <1>1, <4>1, ConcatProperties
      <4> QED
        BY <3>1, <4>2
    <3>2. CASE ~(k + 1 <= n)
      BY <3>2
    <3> QED
      BY <3>1, <3>2
  <2> HIDE DEF r, F
  <2> QED
    BY <2>1, <2>2
<1>a. LoopIn(P, F, x)
  <2> HIDE DEF F, x, P
  <2> QED
    BY <1>2, <1>3, IteratedSteps
<1>4. \A k \in Nat : h(k) \in P /\ h(k + 1) = F[h(k)]
  <2> HIDE DEF F, x, P
  <2> QED
    BY <1>a DEF LoopIn
<1>5. h(0) = x
  <2> HIDE DEF F, x, P
  <2> QED
    BY <1>a DEF LoopIn
<1>6. \A k \in Nat : h(k)[1] = k
  <2> HIDE DEF h
  <2> DEFINE Good == {k \in Nat : h(k)[1] = k}
  <2>1. 0 \in Good
    BY <1>5
  <2>2. \A k \in Nat : k \in Good => k + 1 \in Good
    <3> SUFFICES ASSUME NEW k \in Nat, h(k)[1] = k PROVE h(k + 1)[1] = k + 1
      OBVIOUS
    <3>1. h(k + 1) = F[h(k)] /\ h(k) \in P
      BY <1>4
    <3> QED
      BY <3>1
  <2>3. \A k \in Nat : k \in Good
    <3> HIDE DEF Good
    <3> QED
      BY <2>1, <2>2, AllNaturals
  <2> QED
    BY <2>3
<1>7. \A k \in Nat : k + 1 <= n => h(k + 1)[2] = h(k)[2] \o seqs[k + 1]
  <2> SUFFICES ASSUME NEW k \in Nat, k + 1 <= n
               PROVE  h(k + 1)[2] = h(k)[2] \o seqs[k + 1]
    OBVIOUS
  <2>1. h(k + 1) = F[h(k)] /\ h(k) \in P /\ h(k)[1] = k
    BY <1>4, <1>6
  <2> HIDE DEF h
  <2>2. F[h(k)] = <<k + 1, h(k)[2] \o seqs[k + 1]>>
    BY <2>1
  <2> HIDE DEF F
  <2> QED
    BY <2>1, <2>2
<1>8. \A k \in Nat : h(k)[2] \in Seq(S)
  BY <1>4 DEF P
<1> HIDE DEF h
<1>9. Is(f0)
  <2>1. \A i \in 1..n : f0[i] = Next1(f0, i)
    <3> SUFFICES ASSUME NEW i \in 1..n PROVE f0[i] = Next1(f0, i)
      OBVIOUS
    <3>1. PICK k \in Nat : k + 1 = i /\ k = i - 1
      <4>1. i - 1 \in Nat /\ (i - 1) + 1 = i
        BY <1>1
      <4> QED
        BY <4>1
    <3>2. h(i)[2] = h(k)[2] \o seqs[i]
      <4>1. k + 1 <= n
        BY <1>1, <3>1
      <4> QED
        BY <1>7, <3>1, <4>1
    <3>3. CASE i = 1
      <4>1. h(k)[2] = <<>>
        BY <1>5, <3>1, <3>3
      <4>2. seqs[i] \in Seq(S)
        BY <1>1
      <4>3. <<>> \o seqs[i] = seqs[i]
        BY <4>2, ConcatEmptySeq
      <4> QED
        BY <3>2, <3>3, <4>1, <4>3
    <3>4. CASE i # 1
      <4>1. k \in 1..n
        BY <1>1, <3>1, <3>4
      <4>2. f0[k] = h(k)[2]
        BY <4>1
      <4> QED
        BY <3>1, <3>2, <3>4, <4>2
    <3> QED
      BY <3>3, <3>4
  <2>2. f0 = [i \in 1..n |-> f0[i]]
    OBVIOUS
  <2> HIDE DEF f0, Next1
  <2> QED
    BY <2>1, <2>2
<1>10. Is(flat)
  <2> HIDE DEF Is, f0
  <2> QED
    BY <1>9
<1>11. n # 0 => FlattenSeq(seqs) = flat[n]
  BY DEF FlattenSeq
<1>12. n = 0 => FlattenSeq(seqs) = <<>>
  BY EmptySeq DEF FlattenSeq
<1> HIDE DEF flat
<1>13. \A i \in 1..n : all[i] = all[i - 1] \o seqs[i]
  <2> SUFFICES ASSUME NEW i \in 1..n PROVE all[i] = all[i - 1] \o seqs[i]
    OBVIOUS
  <2>1. flat[i] = Next1(flat, i)
    <3> HIDE DEF Next1
    <3> QED
      BY <1>10
  <2>2. all[i] = flat[i]
    BY <1>1
  <2>3. CASE i = 1
    <3>1. all[i - 1] = <<>>
      BY <1>1, <2>3
    <3>2. seqs[i] \in Seq(S)
      BY <1>1
    <3>3. <<>> \o seqs[i] = seqs[i]
      BY <3>2, ConcatEmptySeq
    <3> HIDE DEF all
    <3> QED
      BY <2>1, <2>2, <2>3, <3>1, <3>3
  <2>4. CASE i # 1
    <3>1. i - 1 \in 1..n
      BY <1>1, <2>4
    <3>2. all[i - 1] = flat[i - 1]
      BY <1>1, <3>1
    <3> HIDE DEF all
    <3> QED
      BY <2>1, <2>2, <2>4, <3>2
  <2> QED
    BY <2>3, <2>4
<1>14. all[0] = <<>> /\ (n # 0 => all[n] = flat[n])
  BY <1>1
<1> HIDE DEF all
<1>15. \A i \in 0..n : all[i] \in Seq(S)
  <2> DEFINE Good == {k \in Nat : k <= n => all[k] \in Seq(S)}
  <2>1. 0 \in Good
    <3>1. <<>> \in Seq(S)
      OBVIOUS
    <3>2. all[0] \in Seq(S)
      BY <1>14, <3>1
    <3> QED
      BY <3>2
  <2>2. \A k \in Nat : k \in Good => k + 1 \in Good
    <3> SUFFICES ASSUME NEW k \in Nat, k + 1 <= n, all[k] \in Seq(S)
                 PROVE  all[k + 1] \in Seq(S)
      BY <1>1
    <3>1. k + 1 \in 1..n /\ (k + 1) - 1 = k
      BY <1>1
    <3>2. all[k + 1] = all[k] \o seqs[k + 1] /\ seqs[k + 1] \in Seq(S)
      BY <1>1, <1>13, <3>1
    <3> QED
      BY <3>2, ConcatProperties
  <2>3. \A k \in Nat : k \in Good
    <3> HIDE DEF Good
    <3> QED
      BY <2>1, <2>2, AllNaturals
  <2> QED
    BY <1>1, <2>3
<1>16. all[n] = FlattenSeq(seqs)
  BY <1>11, <1>12, <1>14
<1>17. Joined(S, seqs, all)
  BY <1>13, <1>14, <1>15, <1>16 DEF Joined
<1> QED
  BY <1>17

(* The sequences of S behind one another are a sequence of S. *)
LEMMA FlattenType ==
  ASSUME NEW S, NEW seqs \in Seq(Seq(S))
  PROVE  FlattenSeq(seqs) \in Seq(S)
<1>1. PICK f : Joined(S, seqs, f)
  BY Flattening
<1>2. Len(seqs) \in Nat
  OBVIOUS
<1> QED
  BY <1>1, <1>2 DEF Joined

(* Eight bits. *)
Octet(b) == \A i \in 1..8 : b[i] \in Bit

(* Eight bits make a byte. *)
LEMMA OctetByte ==
  ASSUME NEW b, Octet(b)
  PROVE  ByteOf(b) \in Byte
<1>1. /\ b[1] \in {0, 1} /\ b[2] \in {0, 1} /\ b[3] \in {0, 1} /\ b[4] \in {0, 1}
      /\ b[5] \in {0, 1} /\ b[6] \in {0, 1} /\ b[7] \in {0, 1} /\ b[8] \in {0, 1}
  BY DEF Bit, Octet
<1>2. \A p, q, r, s, t, u, v, w \in {0, 1} :
        128 * p + 64 * q + 32 * r + 16 * s + 8 * t + 4 * u + 2 * v + w \in 0..255
  OBVIOUS
<1> QED
  BY <1>1, <1>2 DEF ByteOf, Byte

(* The checksum of a frame is a byte. *)
LEMMA CrcType ==
  ASSUME NEW bytes \in Seq(Byte)
  PROVE  Crc(bytes) \in Byte
<1> DEFINE column(i) == {j \in DOMAIN bytes : BitsOf(bytes[j])[i] = 1}
           b == [i \in 1..8 |-> Cardinality(column(i)) % 2]
<1>1. \A i \in 1..8 : b[i] \in Bit
  <2> SUFFICES ASSUME NEW i \in 1..8 PROVE b[i] \in Bit
    OBVIOUS
  <2>1. IsFiniteSet(1..Len(bytes))
    <3>1. Len(bytes) \in Nat
      OBVIOUS
    <3> QED
      BY <3>1, FS_Interval
  <2>2. column(i) \subseteq 1..Len(bytes)
    OBVIOUS
  <2> HIDE DEF column
  <2>3. Cardinality(column(i)) \in Nat
    BY <2>1, <2>2, FS_Subset, FS_CardinalityType
  <2>4. \A n \in Nat : n % 2 \in {0, 1}
    OBVIOUS
  <2>5. b[i] = Cardinality(column(i)) % 2
    OBVIOUS
  <2> QED
    BY <2>3, <2>4, <2>5 DEF Bit
<1>2. Crc(bytes) = ByteOf(b)
  BY DEF Crc
<1>3. ByteOf(b) \in Byte
  <2> HIDE DEF b
  <2>1. Octet(b)
    BY <1>1 DEF Octet
  <2> QED
    BY <2>1, OctetByte
<1> HIDE DEF b
<1> QED
  BY <1>2, <1>3

(* A packet's frame is a sequence of bytes. *)
LEMMA FrameType ==
  ASSUME NEW p \in Packets, Len(p.payload) <= MaxWords
  PROVE  FrameBytes(p) \in Seq(Byte)
<1>1. /\ p.sender \in Byte /\ p.recipient \in Byte /\ p.command \in Byte
      /\ p.payload \in Seq([1..4 -> Byte])
  BY DEF Packets
<1>2. Len(p.payload) \in Byte
  <2>1. Len(p.payload) \in Nat
    BY <1>1
  <2> DEFINE n == Len(p.payload)
  <2>2. n \in Nat /\ n <= MaxWords
    BY <2>1
  <2> HIDE DEF n
  <2>3. n \in 0..255
    BY <2>2, MapleWireAssumption
  <2> QED
    BY <2>3 DEF Byte, n
<1>3. FrameWord(p) \in Seq(Byte)
  <2> DEFINE n == Len(p.payload)
  <2>1. n \in Byte
    BY <1>2
  <2> HIDE DEF n
  <2>2. <<n, p.sender, p.recipient, p.command>> \in Seq(Byte)
    BY <1>1, <2>1
  <2> QED
    BY <2>2 DEF FrameWord, n
<1>4. FlattenSeq(p.payload) \in Seq(Byte)
  <2>1. [1..4 -> Byte] \subseteq Seq(Byte)
    <3> SUFFICES ASSUME NEW w \in [1..4 -> Byte] PROVE w \in Seq(Byte)
      OBVIOUS
    <3> DEFINE e(i) == w[i]
    <3>1. w = [i \in 1..4 |-> e(i)] /\ \A i \in 1..4 : e(i) \in Byte
      OBVIOUS
    <3> HIDE DEF e
    <3>2. [i \in 1..4 |-> e(i)] \in Seq(Byte)
      BY <3>1, IsASeq
    <3> QED
      BY <3>1, <3>2
  <2>2. p.payload \in Seq(Seq(Byte))
    BY <1>1, <2>1, SeqMonotonic
  <2> QED
    BY <2>2, FlattenType
<1> DEFINE body == FrameWord(p) \o FlattenSeq(p.payload)
<1>5. body \in Seq(Byte)
  BY <1>3, <1>4, ConcatProperties
<1>6. FrameBytes(p) = Append(body, Crc(body))
  BY DEF FrameBytes, WithCrc
<1> HIDE DEF body
<1> QED
  BY <1>5, <1>6, CrcType, AppendProperties

(* So it is with a bit of it wrong. *)
LEMMA InvertedType ==
  ASSUME NEW x \in Byte, NEW at
  PROVE  Inverted(x, at) \in Byte
<1> DEFINE b == [BitsOf(x) EXCEPT ![at] = 1 - @]
<1>1. \A j \in 1..8 : BitsOf(x)[j] \in {0, 1}
  <2> SUFFICES ASSUME NEW j \in 1..8 PROVE BitsOf(x)[j] \in {0, 1}
    OBVIOUS
  <2>1. \A m \in Int : m % 2 \in {0, 1}
    OBVIOUS
  <2>2. x \in Int /\ Weight[j] \in Nat \ {0}
    BY DEF Byte, Weight
  <2>3. \A m \in Int, n \in Nat \ {0} : m \div n \in Int
    OBVIOUS
  <2>4. x \div Weight[j] \in Int
    BY <2>2, <2>3
  <2>5. BitsOf(x)[j] = (x \div Weight[j]) % 2
    BY DEF BitsOf
  <2> QED
    BY <2>1, <2>4, <2>5
<1>2. \A j \in 1..8 : b[j] \in Bit
  <2>1. BitsOf(x) = [j \in 1..8 |-> BitsOf(x)[j]]
    BY DEF BitsOf
  <2>2. \A j \in 1..8 : b[j] = IF j = at THEN 1 - BitsOf(x)[j] ELSE BitsOf(x)[j]
    BY <2>1
  <2>3. \A y \in {0, 1} : 1 - y \in {0, 1}
    OBVIOUS
  <2> HIDE DEF b
  <2> QED
    BY <1>1, <2>2, <2>3 DEF Bit
<1>3. Inverted(x, at) = ByteOf(b)
  BY DEF Inverted
<1> HIDE DEF b
<1>4. Octet(b)
  BY <1>2 DEF Octet
<1> QED
  BY <1>3, <1>4, OctetByte

(* The frame it is in stays one. *)
LEMMA FlippedType ==
  ASSUME NEW bytes \in Seq(Byte), NEW bit \in Nat
  PROVE  Flipped(bytes, bit) \in Seq(Byte)
<1> DEFINE k == Len(bytes)
           i == (bit + 7) \div 8
           at == ((bit - 1) % 8) + 1
<1>1. k \in Nat
  OBVIOUS
<1>2. Flipped(bytes, bit) = IF bit \notin 1..(8 * k) THEN bytes
                            ELSE [bytes EXCEPT ![i] = Inverted(bytes[i], at)]
  BY DEF Flipped
<1>3. CASE bit \notin 1..(8 * k)
  BY <1>2, <1>3
<1>4. CASE bit \in 1..(8 * k)
  <2>1. i \in 1..k
    <3> HIDE DEF k
    <3> QED
      BY <1>1, <1>4
  <2> HIDE DEF i, at
  <2>2. bytes[i] \in Byte
    BY <2>1
  <2>3. Inverted(bytes[i], at) \in Byte
    BY <2>2, InvertedType
  <2>4. [bytes EXCEPT ![i] = Inverted(bytes[i], at)] \in Seq(Byte)
    BY <2>1, <2>3, ExceptSeq
  <2> QED
    BY <1>2, <1>4, <2>4
<1> QED
  BY <1>3, <1>4

(* A byte on the wire is a sequence of levels, and so is a reply, whatever
   befell it. *)
LEMMA ByteStepsType ==
  ASSUME NEW byte
  PROVE  ByteSteps(byte) \in Samplings
<1> DEFINE e(i) == IF i % 2 = 1 THEN BitSteps("A", "B", BitsOf(byte)[i])
                   ELSE BitSteps("B", "A", BitsOf(byte)[i])
<1>1. \A i \in 1..8 : e(i) \in Seq(Level)
  <2>1. \A bit : BitSteps("A", "B", bit) \in Seq(Level)
    BY DEF BitSteps, Level, Floating
  <2>2. \A bit : BitSteps("B", "A", bit) \in Seq(Level)
    BY DEF BitSteps, Level, Floating
  <2> QED
    BY <2>1, <2>2
<1>2. ByteSteps(byte) = FlattenSeq([i \in 1..8 |-> e(i)])
  BY DEF ByteSteps
<1> HIDE DEF e
<1>3. [i \in 1..8 |-> e(i)] \in Seq(Seq(Level))
  BY <1>1, IsASeq
<1> QED
  BY <1>2, <1>3, FlattenType DEF Samplings

(* The waveform of a reply is a sequence of levels, whatever befell it. *)
LEMMA WireType ==
  ASSUME NEW bytes \in Seq(Byte), NEW f \in Faulted
  PROVE  OnTheWire(bytes, f) \in Samplings
<1>1. /\ f.lead \in Seq(Level) /\ f.clip \in Nat /\ f.pause \in Nat
      /\ f.stop \in Nat
  BY DEF Faulted, Level
<1>2. StartPattern \in Seq(Level) /\ EndPattern \in Seq(Level) /\ Idle \in Level
      /\ <<>> \in Seq(Level) /\ Len(StartPattern) = 11
  BY DEF StartPattern, EndPattern, Idle, Level, Floating
<1> DEFINE n == SmallerOf(Len(bytes), f.stop)
           gap == [j \in 1..f.pause |-> Idle]
           piece(i) == (IF i = f.at THEN gap ELSE <<>>) \o ByteSteps(bytes[i])
           opening == SubSeq(StartPattern, f.clip + 1, Len(StartPattern))
           ending == IF f.stop < Len(bytes) THEN <<>> ELSE EndPattern
           middle == FlattenSeq([i \in 1..n |-> piece(i)])
<1>3. n \in Nat
  <2> DEFINE k == Len(bytes)
  <2>1. k \in Nat
    OBVIOUS
  <2> HIDE DEF k
  <2> QED
    BY <1>1, <2>1 DEF SmallerOf
<1>4. opening \in Seq(Level)
  <2>1. \A i \in (f.clip + 1)..11 : StartPattern[i] \in Level
    <3>1. \A i \in 1..11 : StartPattern[i] \in Level
      BY <1>2, ElementOfSeq
    <3>2. \A i \in (f.clip + 1)..11 : i \in 1..11
      BY <1>1
    <3> QED
      BY <3>1, <3>2
  <2>2. f.clip + 1 \in Int /\ 11 \in Int
    BY <1>1
  <2>3. SubSeq(StartPattern, f.clip + 1, 11) \in Seq(Level)
    BY <2>1, <2>2, SubSeqProperties
  <2> QED
    BY <1>2, <2>3
<1>5. gap \in Seq(Level)
  <2> DEFINE e(j) == Idle
             m == f.pause
  <2>1. m \in Nat /\ \A j \in 1..m : e(j) \in Level
    BY <1>1, <1>2
  <2>2. gap = [j \in 1..m |-> e(j)]
    OBVIOUS
  <2> HIDE DEF e, m, gap
  <2>3. [j \in 1..m |-> e(j)] \in Seq(Level)
    BY <2>1, IsASeq
  <2> QED
    BY <2>2, <2>3
<1> HIDE DEF n, gap, opening
<1>6. \A i \in 1..n : piece(i) \in Seq(Level)
  <2> SUFFICES ASSUME NEW i \in 1..n PROVE piece(i) \in Seq(Level)
    OBVIOUS
  <2>1. ByteSteps(bytes[i]) \in Seq(Level)
    BY ByteStepsType DEF Samplings
  <2> QED
    BY <1>2, <1>5, <2>1, ConcatProperties
<1>7. middle \in Seq(Level)
  <2> HIDE DEF piece
  <2>1. [i \in 1..n |-> piece(i)] \in Seq(Seq(Level))
    BY <1>3, <1>6, IsASeq
  <2> QED
    BY <2>1, FlattenType
<1>8. ending \in Seq(Level)
  BY <1>2
<1>9. OnTheWire(bytes, f) = f.lead \o opening \o middle \o ending
  BY DEF OnTheWire, n, gap, opening
<1> HIDE DEF middle, ending
<1>10. f.lead \o opening \o middle \o ending \in Seq(Level)
  BY <1>1, <1>4, <1>7, <1>8, ConcatProperties
<1> QED
  BY <1>9, <1>10 DEF Samplings

(* What a line is made of. *)
LEMMA LineType ==
  ASSUME NEW k \in DOMAIN Lines
  PROVE  /\ Lines[k].packet \in Packets /\ Lines[k].fault \in Faulted
         /\ Lines[k].image \in Seq(Byte)
         /\ Len(Lines[k].packet.payload) <= MaxWords
<1> DEFINE L == [packet : Packets, fault : Faulted, image : Seq(Byte)]
<1>1. Lines \in Seq(L) /\ Len(Lines[k].packet.payload) <= MaxWords
  BY BusAssumption
<1>2. \A l \in L : l.packet \in Packets /\ l.fault \in Faulted /\ l.image \in Seq(Byte)
  OBVIOUS
<1> HIDE DEF L
<1>3. Lines[k] \in L
  BY <1>1
<1> QED
  BY <1>1, <1>2, <1>3

(* Every capture has its samples. *)
LEMMA WaveType ==
  ASSUME NEW k \in DOMAIN Lines
  PROVE  Wave[k] \in Samplings /\ Len(Wave[k]) = Samples
<1>1. /\ Lines[k].packet \in Packets /\ Lines[k].fault \in Faulted
      /\ Len(Lines[k].packet.payload) <= MaxWords
  BY LineType
<1> DEFINE w == Waveform(Lines[k].packet, Lines[k].fault)
           rest == [i \in 1..Samples |-> Floating]
           all == w \o rest
<1>2. w \in Seq(Level)
  <2>1. Lines[k].fault.flip \in Nat
    BY <1>1 DEF Faulted
  <2> QED
    BY <1>1, <2>1, FrameType, FlippedType, WireType DEF Waveform, Samplings
<1>3. Samples \in Nat
  BY BusAssumption
<1>4. rest \in Seq(Level) /\ Len(rest) = Samples
  <2>1. Floating \in Level
    BY DEF Level
  <2> QED
    BY <1>3, <2>1
<1>5. Wave[k] = SubSeq(all, 1, Samples)
  BY DEF Wave
<1> HIDE DEF w, rest
<1>6. all \in Seq(Level) /\ Len(all) = Len(w) + Samples
  BY <1>2, <1>4, ConcatProperties
<1>7. \A i \in 1..Samples : all[i] \in Level
  <2> HIDE DEF all
  <2>1. Len(w) \in Nat
    BY <1>2
  <2>2. \A i \in 1..Samples : i \in 1..Len(all)
    BY <1>3, <1>6, <2>1
  <2> QED
    BY <1>6, <2>2, ElementOfSeq
<1> HIDE DEF all
<1>8. 1 \in Int /\ Samples \in Int
  BY <1>3
<1>9. /\ SubSeq(all, 1, Samples) \in Seq(Level)
      /\ Len(SubSeq(all, 1, Samples)) = IF 1 <= Samples THEN Samples - 1 + 1 ELSE 0
  BY <1>7, <1>8, SubSeqProperties
<1>10. (IF 1 <= Samples THEN Samples - 1 + 1 ELSE 0) = Samples
  BY <1>3
<1> QED
  BY <1>5, <1>9, <1>10 DEF Samplings

-----------------------------------------------------------------------------
(* The bus. *)

(* The tabulated decoder of a line, and where it ends. *)
LEMMA AfterWhole ==
  ASSUME NEW k \in 1..Len(Lines)
  PROVE  /\ \A n \in Nat : Whole(Wave[k], After(k, n))
         /\ End[k].done # None
<1>1. k \in DOMAIN Lines
  BY BusAssumption
<1>2. Steps \in Nat
  BY StepsSuffice
<1>3. \A n \in 0..Steps : Decoding[k][n] = Decoded(Wave[k], n)
  BY <1>1 DEF Decoding
<1>4. \A n \in Nat : SmallerOf(n, Steps) \in 0..Steps /\ SmallerOf(n, Steps) \in Nat
  BY <1>2 DEF SmallerOf
<1>5. \A n \in Nat : After(k, n) = Decoded(Wave[k], SmallerOf(n, Steps))
  BY <1>3, <1>4 DEF After
<1>6. /\ \A n \in Nat : Whole(Wave[k], Decoded(Wave[k], n))
      /\ Decoded(Wave[k], Steps).done # None
  BY <1>1, WaveType, DecodedWhole
<1>7. End[k] = Decoded(Wave[k], Steps)
  <2>1. SmallerOf(Steps, Steps) = Steps
    BY DEF SmallerOf
  <2>2. End[k] = After(k, Steps)
    BY <1>1 DEF End
  <2> QED
    BY <1>2, <1>5, <2>1, <2>2
<1> QED
  BY <1>4, <1>5, <1>6, <1>7

(* What a capture waiting to be unpacked is: its samples are in the buffers of
   the reads, and its line answered the read it is held for. *)
LatchedAsRead ==
  latched # None =>
    /\ latched.block \in Blocks
    /\ latched.captured # None =>
         /\ latched.captured = "read"
         /\ latched.of \in ReadLines
         /\ streams["read"] = latched.of

(* What is being decoded is what the read captured. *)
DecodedAsRead ==
  decoding # None =>
    /\ ready = None
    /\ decoding.block \in Blocks /\ decoding.of \in ReadLines
    /\ frame = decoding.of

(* What waits for its owner passed every test of finish. *)
ReadyAsRead ==
  ready # None =>
    /\ ready.of \in ReadLines /\ ready.block \in Blocks
    /\ Accepted[ready.of][ready.block]
    /\ ready.data = DataOf[ready.of]

(* Types of what the steps index. *)
Shapes ==
  /\ streams \in [Pairs -> 0..Len(Lines)]
  /\ frame \in 0..Len(Lines)
  /\ slices \in Nat

(* The inductive invariant. *)
BusInv == Shapes /\ LatchedAsRead /\ DecodedAsRead /\ ReadyAsRead

(* A reply in the buffers of one consumer leaves the other's alone. *)
LEMMA FilledIs ==
  ASSUME streams \in [Pairs -> 0..Len(Lines)], NEW consumer \in Pairs,
         NEW k \in ReadLines \cup PollLines \cup ProbeLines \cup {Silence}
  PROVE  /\ Filled(consumer, k) \in [Pairs -> 0..Len(Lines)]
         /\ consumer = "poll" => Filled(consumer, k)["read"] = streams["read"]
         /\ (consumer = "read" /\ k # Silence) => Filled(consumer, k)["read"] = k
<1>1. k \in 0..Len(Lines)
  BY BusAssumption DEF Silence
<1>2. "poll" # "read" /\ 0 \in 0..Len(Lines)
  <2>1. Len(Lines) \in Nat
    BY BusAssumption
  <2> QED
    BY <2>1
<1> QED
  BY <1>1, <1>2 DEF Filled, StreamBufs, Pairs

(* Applying what is latched, when no decode is under way, keeps the three
   parts of the invariant it touches; `busy` holds while a block waits. *)
LEMMA ServicedKeeps ==
  ASSUME NEW held, NEW busy \in BOOLEAN, NEW bufs \in [Pairs -> 0..Len(Lines)],
         Serviced(held, busy, bufs),
         streams' = bufs, frame \in 0..Len(Lines), slices \in Nat,
         ~busy => ready' = None,
         held # None =>
           /\ held.block \in Blocks
           /\ held.captured # None =>
                /\ held.captured = "read" /\ held.of \in ReadLines
                /\ bufs["read"] = held.of
  PROVE  Shapes' /\ LatchedAsRead' /\ DecodedAsRead'
<1>1. CASE held = None \/ busy
  BY <1>1 DEF Serviced, Shapes, LatchedAsRead, DecodedAsRead
<1>2. CASE ~(held = None \/ busy) /\ held.captured = None
  BY <1>2 DEF Serviced, Shapes, LatchedAsRead, DecodedAsRead
<1>3. CASE ~(held = None \/ busy) /\ held.captured # None
  <2>1. /\ latched' = None /\ ready' = None
        /\ frame' = bufs["read"] /\ slices' = 0
        /\ decoding' = IF After(bufs["read"], 0).done # None THEN None
                       ELSE [block |-> held.block, of |-> held.of]
    BY <1>3 DEF Serviced
  <2>2. /\ bufs["read"] \in 0..Len(Lines) /\ bufs["read"] = held.of
        /\ held.of \in ReadLines /\ held.block \in Blocks
    BY <1>3 DEF Pairs
  <2>3. Shapes' /\ LatchedAsRead'
    BY <2>1, <2>2 DEF Shapes, LatchedAsRead
  <2>4. DecodedAsRead'
    <3>1. decoding' # None => decoding' = [block |-> held.block, of |-> held.of]
      BY <2>1
    <3> QED
      BY <2>1, <2>2, <3>1 DEF DecodedAsRead
  <2> QED
    BY <2>3, <2>4
<1> QED
  BY <1>1, <1>2, <1>3

(* It holds before the first poll, *)
LEMMA BusInvInit == Init => BusInv
<1> SUFFICES ASSUME Init PROVE BusInv
  OBVIOUS
<1>1. Len(Lines) \in Nat
  BY BusAssumption
<1> QED
  BY <1>1 DEF Init, BusInv, Shapes, LatchedAsRead, DecodedAsRead, ReadyAsRead

(* The last answer to a poll that is tried again is one of a poll's. *)
LEMMA AnswersArePolled == Answers \subseteq PollLines \cup {Silence}
<1> SUFFICES ASSUME NEW t \in Exchanges PROVE t[Len(t)] \in PollLines \cup {Silence}
  BY DEF Answers
<1>1. PICK n \in 1..Tries : t \in [1..n -> PollLines \cup {Silence}]
  BY DEF Exchanges
<1>2. n \in Nat /\ n \in 1..n /\ t \in Seq(PollLines \cup {Silence}) /\ Len(t) = n
  BY <1>1 DEF Tries
<1> QED
  BY <1>1, <1>2

(* every step keeps it, *)
LEMMA BusInvNext == BusInv /\ [Next]_vars => BusInv'
<1> SUFFICES ASSUME BusInv, [Next]_vars PROVE BusInv'
  OBVIOUS
<1> USE DEF BusInv
<1>0. /\ streams \in [Pairs -> 0..Len(Lines)] /\ frame \in 0..Len(Lines)
      /\ slices \in Nat
  BY DEF Shapes
<1>1. ASSUME NEW k \in PollLines \cup ProbeLines \cup {Silence},
             streams' = Filled("poll", k), UNCHANGED readVars
      PROVE  BusInv'
  <2>1. /\ streams' \in [Pairs -> 0..Len(Lines)]
        /\ streams'["read"] = streams["read"]
    BY <1>0, <1>1, FilledIs DEF Pairs
  <2> QED
    BY <1>0, <1>1, <2>1
       DEF readVars, Shapes, LatchedAsRead, DecodedAsRead, ReadyAsRead
<1>2. CASE GetCondition
  BY <1>1, <1>2, AnswersArePolled DEF GetCondition
<1>3. CASE Probe
  BY <1>1, <1>3 DEF Probe
<1>4. CASE Heard
  BY <1>4 DEF Heard, readVars, Shapes, LatchedAsRead, DecodedAsRead, ReadyAsRead
<1>5. CASE Service
  <2>1. Shapes' /\ LatchedAsRead' /\ DecodedAsRead'
    BY <1>0, <1>5, ServicedKeeps DEF Service, LatchedAsRead
  <2> QED
    BY <1>5, <2>1 DEF Service, ReadyAsRead
<1>6. CASE ReadWindow
  <2>1. PICK b \in Blocks, k \in ReadLines \cup {Silence}, whole \in BOOLEAN :
          LET held == IF k # Silence /\ whole THEN Latch(b, StreamBufs("read"), k)
                      ELSE Latch(b, None, Silence)
          IN  /\ streams' = Filled("read", k)
              /\ IF decoding # None
                 THEN latched' = held /\ UNCHANGED <<frame, slices, decoding>>
                 ELSE Serviced(held, ready # None, streams')
    BY <1>6 DEF ReadWindow
  <2> DEFINE held == IF k # Silence /\ whole THEN Latch(b, StreamBufs("read"), k)
                     ELSE Latch(b, None, Silence)
             bufs == Filled("read", k)
  <2>2. bufs \in [Pairs -> 0..Len(Lines)] /\ (k # Silence => bufs["read"] = k)
    BY <1>0, FilledIs DEF Pairs
  <2>3. /\ held.block \in Blocks
        /\ held.captured # None =>
             /\ held.captured = "read" /\ held.of \in ReadLines
             /\ bufs["read"] = held.of
    BY <2>2 DEF Latch, StreamBufs
  <2>4. /\ streams' = bufs /\ ready' = ready
        /\ IF decoding # None
           THEN latched' = held /\ UNCHANGED <<frame, slices, decoding>>
           ELSE Serviced(held, ready # None, bufs)
    BY <1>6, <2>1 DEF ReadWindow
  <2> HIDE DEF held, bufs
  <2>5. Shapes' /\ LatchedAsRead' /\ DecodedAsRead'
    <3>1. CASE decoding # None
      BY <1>0, <2>2, <2>3, <2>4, <3>1 DEF Shapes, LatchedAsRead, DecodedAsRead
    <3>2. CASE decoding = None
      <4> DEFINE busy == ready # None
      <4>1. busy \in BOOLEAN /\ (~busy => ready' = None) /\ Serviced(held, busy, bufs)
        BY <2>4, <3>2
      <4> HIDE DEF busy
      <4> QED
        BY <1>0, <2>2, <2>3, <2>4, <4>1, ServicedKeeps
    <3> QED
      BY <3>1, <3>2
  <2>6. ReadyAsRead'
    BY <2>4 DEF ReadyAsRead
  <2> QED
    BY <2>5, <2>6
<1>7. CASE RunSlice
  <2> DEFINE d == After(frame, slices + 1)
             good == Accepted[frame][decoding.block]
             block == [block |-> decoding.block, of |-> decoding.of,
                       data |-> DataOf[frame]]
  <2>1. /\ decoding # None /\ streams' = streams
        /\ IF d.done = None
           THEN /\ slices' = SmallerOf(slices + 1, Steps)
                /\ UNCHANGED <<latched, frame, decoding, ready>>
           ELSE /\ ready' = IF good THEN block ELSE ready
                /\ IF latched = None \/ good
                   THEN /\ slices' = slices + 1 /\ decoding' = None
                        /\ UNCHANGED <<latched, frame>>
                   ELSE Serviced(latched, FALSE, streams)
    BY <1>7 DEF RunSlice
  <2>2. /\ ready = None /\ decoding.block \in Blocks /\ decoding.of \in ReadLines
        /\ frame = decoding.of
    BY <2>1 DEF DecodedAsRead
  <2>3. slices + 1 \in Nat /\ SmallerOf(slices + 1, Steps) \in Nat
    BY <1>0, StepsSuffice DEF SmallerOf
  <2> HIDE DEF d, good
  <2>4. ReadyAsRead'
    <3>1. ready' # None => good /\ ready' = block
      BY <2>1, <2>2
    <3>2. /\ block.of = frame /\ block.block = decoding.block
          /\ block.data = DataOf[frame]
      BY <2>2
    <3> HIDE DEF block
    <3> QED
      BY <2>2, <3>1, <3>2 DEF ReadyAsRead, good
  <2> HIDE DEF block
  <2>5. CASE d.done = None
    BY <1>0, <2>1, <2>3, <2>4, <2>5 DEF Shapes, LatchedAsRead, DecodedAsRead
  <2>6. CASE d.done # None /\ (latched = None \/ good)
    BY <1>0, <2>1, <2>3, <2>4, <2>6 DEF Shapes, LatchedAsRead, DecodedAsRead
  <2>7. CASE d.done # None /\ ~(latched = None \/ good)
    <3>1. Serviced(latched, FALSE, streams) /\ ready' = None
      BY <2>1, <2>2, <2>7
    <3>2. Shapes' /\ LatchedAsRead' /\ DecodedAsRead'
      BY <1>0, <2>1, <3>1, ServicedKeeps DEF LatchedAsRead
    <3> QED
      BY <2>4, <3>2
  <2> QED
    BY <2>5, <2>6, <2>7
<1>8. CASE TakeReady
  <2>1. Shapes' /\ LatchedAsRead' /\ DecodedAsRead'
    BY <1>0, <1>8, ServicedKeeps DEF TakeReady, LatchedAsRead
  <2> QED
    BY <1>8, <2>1 DEF TakeReady, ReadyAsRead
<1>9. CASE UNCHANGED vars
  BY <1>9 DEF vars, readVars, Shapes, LatchedAsRead, DecodedAsRead, ReadyAsRead
<1> QED
  BY <1>2, <1>3, <1>4, <1>5, <1>6, <1>7, <1>8, <1>9 DEF Next

(* and so it always holds. *)
LEMMA BusInvHolds == Spec => []BusInv
  BY BusInvInit, BusInvNext, PTL DEF Spec

(* The parts of the bus have their shapes: in particular, a line's decoder is
   one after any number of slices, and none is under way while a block waits
   for its owner. *)
THEOREM BusTypeOK == Spec => []TypeOK
<1>1. BusInv => TypeOK
  <2> SUFFICES ASSUME BusInv PROVE TypeOK
    OBVIOUS
  <2>1. frame # 0 => After(frame, slices) \in Decoder
    <3> SUFFICES ASSUME frame # 0 PROVE After(frame, slices) \in Decoder
      OBVIOUS
    <3>1. frame \in 1..Len(Lines) /\ slices \in Nat
      BY BusAssumption DEF BusInv, Shapes
    <3> QED
      BY <3>1, AfterWhole DEF Whole
  <2> QED
    BY <2>1 DEF BusInv, Shapes, DecodedAsRead, TypeOK
<1> QED
  BY <1>1, BusInvHolds, PTL

(* The decode in slices is the decode in one pass, whatever the samples of the
   reply and wherever the slices fall: it ends, with the same bytes and for the
   same reason. *)
THEOREM SlicedAsOnePass == Spec => []SlicesAsWhole
<1>1. BusInv => SlicesAsWhole
  <2> SUFFICES ASSUME BusInv, frame # 0
               PROVE  /\ End[frame].done # None
                      /\ After(frame, slices).done # None =>
                           SameAsWhole(After(frame, slices), Bulk[frame],
                                       FindDataStart(Wave[frame]))
    BY DEF SlicesAsWhole
  <2>1. frame \in 1..Len(Lines) /\ slices \in Nat
    BY BusAssumption DEF BusInv, Shapes
  <2>2. frame \in DOMAIN Lines
    BY <2>1, BusAssumption
  <2>3. Bulk[frame] = BulkAt(Wave[frame], FindDataStart(Wave[frame]))
    BY <2>2 DEF Bulk
  <2>4. Whole(Wave[frame], After(frame, slices)) /\ End[frame].done # None
    BY <2>1, AfterWhole
  <2> QED
    BY <2>3, <2>4 DEF Whole
<1> QED
  BY <1>1, BusInvHolds, PTL

(* What a poll or a probe returned is what its line's packet says. *)
HeardAsSent ==
  heard # None =>
    LET p == Lines[heard.of].packet
    IN  heard.got = CASE heard.kind = "condition" -> SubSeq(p.payload, 2, 3)
                      [] heard.kind = "info" -> SubSeq(p.payload, 1, InfoWords)
                      [] heard.kind = "mask" -> p.sender % 32

(* Every step keeps that, where the decoder catches the faults. *)
LEMMA HeardNext ==
  ASSUME \A k \in PollLines \cup ProbeLines : PacketAsSent(k), HeardAsSent, [Next]_vars
  PROVE  HeardAsSent'
<1>1. \A k \in PollLines \cup ProbeLines \cup {Silence} :
        ReadPacketBulk(k) # <<>> => ReadPacketBulk(k)[1] = Lines[k].packet
  <2> SUFFICES ASSUME NEW k \in PollLines \cup ProbeLines \cup {Silence},
                      ReadPacketBulk(k) # <<>>
               PROVE  ReadPacketBulk(k)[1] = Lines[k].packet
    OBVIOUS
  <2>1. k \in PollLines \cup ProbeLines /\ ReadPacketBulk(k) = Packet[k]
    BY DEF ReadPacketBulk
  <2>2. Packet[k] = <<Lines[k].packet>>
    BY <2>1 DEF PacketAsSent
  <2> QED
    BY <2>1, <2>2
<1>2. CASE GetCondition
  <2>1. PICK k \in Answers :
          heard' = IF ReadPacketBulk(k) = <<>> THEN None
                   ELSE LET p == ReadPacketBulk(k)[1]
                        IN  IF IsCondition(p)
                            THEN [kind |-> "condition", of |-> k,
                                  got |-> SubSeq(p.payload, 2, 3)]
                            ELSE None
    BY <1>2 DEF GetCondition
  <2>2. k \in PollLines \cup {Silence}
    BY AnswersArePolled
  <2>3. CASE heard' = None
    BY <2>3 DEF HeardAsSent
  <2>4. CASE heard' # None
    <3> DEFINE p == ReadPacketBulk(k)[1]
               got == SubSeq(p.payload, 2, 3)
    <3>1. /\ ReadPacketBulk(k) # <<>>
          /\ heard' = [kind |-> "condition", of |-> k, got |-> got]
      BY <2>1, <2>4
    <3>2. p = Lines[k].packet
      BY <1>1, <2>2, <3>1
    <3>3. got = SubSeq(Lines[k].packet.payload, 2, 3)
      BY <3>2
    <3> HIDE DEF got
    <3>4. heard'.kind = "condition" /\ heard'.of = k /\ heard'.got = got
      BY <3>1
    <3> QED
      BY <3>3, <3>4 DEF HeardAsSent
  <2> QED
    BY <2>3, <2>4
<1>3. CASE Probe
  <2>1. PICK k \in ProbeLines \cup {Silence}, kind \in {"info", "mask"} :
          heard' = IF ReadPacketBulk(k) = <<>> THEN None
                   ELSE LET p == ReadPacketBulk(k)[1]
                        IN  IF p.command # DeviceInfoResponse THEN None
                            ELSE IF kind = "mask"
                            THEN [kind |-> kind, of |-> k, got |-> p.sender % 32]
                            ELSE IF Len(p.payload) < InfoWords THEN None
                            ELSE [kind |-> kind, of |-> k,
                                  got |-> SubSeq(p.payload, 1, InfoWords)]
    BY <1>3 DEF Probe
  <2>2. CASE heard' = None
    BY <2>2 DEF HeardAsSent
  <2>3. CASE heard' # None
    <3> DEFINE p == ReadPacketBulk(k)[1]
               q == Lines[k].packet
               got == IF kind = "mask" THEN q.sender % 32
                      ELSE SubSeq(q.payload, 1, InfoWords)
    <3>1. ReadPacketBulk(k) # <<>>
      BY <2>1, <2>3
    <3>2. p = q
      BY <1>1, <3>1
    <3>3. heard' = [kind |-> kind, of |-> k, got |-> got]
      BY <2>1, <2>3, <3>1, <3>2
    <3>4. heard'.kind = kind /\ heard'.of = k /\ heard'.got = got
      <4> HIDE DEF got
      <4> QED
        BY <3>3
    <3>5. kind = "info" \/ kind = "mask"
      OBVIOUS
    <3> QED
      BY <3>4, <3>5 DEF HeardAsSent
  <2> QED
    BY <2>2, <2>3
<1>4. CASE Heard
  BY <1>4 DEF Heard, HeardAsSent
<1>5. CASE Service
  BY <1>5 DEF Service, HeardAsSent
<1>6. CASE ReadWindow
  BY <1>6 DEF ReadWindow, HeardAsSent
<1>7. CASE RunSlice
  BY <1>7 DEF RunSlice, HeardAsSent
<1>8. CASE TakeReady
  BY <1>8 DEF TakeReady, HeardAsSent
<1>9. CASE UNCHANGED vars
  BY <1>9 DEF vars, HeardAsSent
<1> QED
  BY <1>2, <1>3, <1>4, <1>5, <1>6, <1>7, <1>8, <1>9 DEF Next

-----------------------------------------------------------------------------
(* A legible reply. *)

(* What a sample that does not end the pass makes of it. *)
Sampled(acc, level, next) ==
  /\ next \in Accumulator
  /\ next.at = acc.at + 1 /\ next.last = level /\ next.over = FALSE
  /\ next.quiet = (IF level = acc.last THEN acc.quiet + 1 ELSE 0)
  /\ next.idle = (IF level = Idle THEN acc.idle + 1 ELSE 0)
  /\ LET seen == acc.seen /\ ~(level # Idle /\ acc.idle > Gap)
     IN  /\ next.seen = (seen \/ "A" \in acc.last \ level)
         /\ next.bits = acc.bits \o BitAt(acc.last, level, seen)

(* A sample that is there and not too many like it does not. *)
LEMMA SampleRead ==
  ASSUME NEW s \in Samplings, NEW acc \in Accumulator, ~acc.over,
         acc.at < Size(s), At(s, acc.at) = acc.last => acc.quiet + 1 <= EndIdle
  PROVE  Sampled(acc, At(s, acc.at), BulkNext(acc, s))
<1> DEFINE level == At(s, acc.at)
           next == BulkNext(acc, s)
           quiet == IF level = acc.last THEN acc.quiet + 1 ELSE 0
           seen == acc.seen /\ ~(level # Idle /\ acc.idle > Gap)
<1>1. next \in Accumulator
  BY BulkNextType
<1>2. next = BulkSample(acc, level)
  <2>1. acc.at \in Nat /\ Size(s) \in Nat /\ Size(s) = Len(s)
    BY DEF Accumulator, Samplings, Size
  <2> QED
    BY <2>1 DEF BulkNext
<1>3. ~(quiet > EndIdle)
  BY MapleWireAssumption DEF Accumulator
<1> HIDE DEF level, next
<1>4. next = [at |-> acc.at + 1, last |-> level, quiet |-> quiet, over |-> FALSE,
              idle |-> IF level = Idle THEN acc.idle + 1 ELSE 0,
              seen |-> seen \/ "A" \in acc.last \ level,
              bits |-> acc.bits \o BitAt(acc.last, level, seen)]
  BY <1>2, <1>3, Zenon DEF BulkSample
<1>5. Sampled(acc, level, next)
  <2> HIDE DEF quiet, seen
  <2>1. /\ next.at = acc.at + 1 /\ next.last = level /\ next.over = FALSE
        /\ next.quiet = quiet
        /\ next.idle = (IF level = Idle THEN acc.idle + 1 ELSE 0)
        /\ next.seen = (seen \/ "A" \in acc.last \ level)
        /\ next.bits = acc.bits \o BitAt(acc.last, level, seen)
    BY <1>4, Zenon
  <2> QED
    BY <1>1, <2>1, Zenon DEF Sampled, quiet, seen
<1> QED
  BY <1>5 DEF level, next

(* The lines at rest between two bits that share a byte, or two bytes: B low.
   The last `quiet` samples at most were alike. *)
Rests(acc, at, bits, quiet) ==
  /\ acc \in Accumulator /\ acc.over = FALSE /\ acc.at = at /\ acc.bits = bits
  /\ acc.last \in {{}, {"A"}} /\ acc.quiet <= quiet

(* The sample of `level` at `at`. *)
Sees(s, at, level) == at < Size(s) /\ At(s, at) = level

(* Two bits, the first clocked by A and the second by B. *)
Pair(x, y) ==
  LET hx == IF x = 1 THEN {"B"} ELSE {}
      hy == IF y = 1 THEN {"A"} ELSE {}
  IN  <<{"A"} \cup hx, hx, {"B"} \cup hy, hy>>

(* The pass over them has both. *)
LEMMA PairRead ==
  ASSUME NEW s \in Samplings, NEW at \in Nat, NEW bits \in Seq(Bit),
         NEW x \in Bit, NEW y \in Bit, NEW quiet \in Nat, quiet + 1 <= EndIdle,
         NEW a0, Rests(a0, at, bits, quiet),
         Sees(s, at, Pair(x, y)[1]), Sees(s, at + 1, Pair(x, y)[2]),
         Sees(s, at + 2, Pair(x, y)[3]), Sees(s, at + 3, Pair(x, y)[4]),
         NEW a1, a1 = BulkNext(a0, s), NEW a2, a2 = BulkNext(a1, s),
         NEW a3, a3 = BulkNext(a2, s), NEW a4, a4 = BulkNext(a3, s)
  PROVE  Rests(a4, at + 4, (bits \o <<x>>) \o <<y>>, 0)
<1> DEFINE hx == IF x = 1 THEN {"B"} ELSE {}
           hy == IF y = 1 THEN {"A"} ELSE {}
           l1 == {"A"} \cup hx
           l3 == {"B"} \cup hy
<1>0. EndIdle \in Nat /\ EndIdle >= 2 /\ Gap \in Nat
  BY MapleWireAssumption
<1>1. /\ Sees(s, at, l1) /\ Sees(s, at + 1, hx)
      /\ Sees(s, at + 2, l3) /\ Sees(s, at + 3, hy)
  BY DEF Pair
<1>2. /\ "A" \in l1 /\ "A" \notin hx /\ ("B" \in l1 <=> x = 1) /\ ("B" \in hx <=> x = 1)
      /\ "B" \in l3 /\ "B" \notin hy /\ ("A" \in l3 <=> y = 1) /\ ("A" \in hy <=> y = 1)
      /\ hx # Idle /\ l3 # Idle /\ hy \in {{}, {"A"}}
      /\ l1 # hx /\ l3 # hy
  <2>1. "A" # "B"
    OBVIOUS
  <2>2. /\ "A" \in l1 /\ "A" \notin hx /\ ("B" \in l1 <=> x = 1)
        /\ ("B" \in hx <=> x = 1) /\ hx # Idle
    <3>1. CASE x = 1
      BY <2>1, <3>1 DEF Idle
    <3>2. CASE x # 1
      BY <2>1, <3>2 DEF Idle
    <3> QED
      BY <3>1, <3>2
  <2>3. /\ "B" \in l3 /\ "B" \notin hy /\ ("A" \in l3 <=> y = 1)
        /\ ("A" \in hy <=> y = 1) /\ l3 # Idle /\ hy \in {{}, {"A"}}
    <3>1. CASE y = 1
      BY <2>1, <3>1 DEF Idle
    <3>2. CASE y # 1
      BY <2>1, <3>2 DEF Idle
    <3> QED
      BY <3>1, <3>2
  <2> HIDE DEF hx, hy, l1, l3
  <2> QED
    BY <2>2, <2>3
<1>3. x \in {0, 1} /\ y \in {0, 1}
  BY DEF Bit
<1> HIDE DEF hx, hy, l1, l3
<1>4. bits \o <<>> = bits /\ <<x>> \in Seq(Bit)
  BY ConcatEmptySeq
<1>5. bits \o <<x>> \in Seq(Bit) /\ (bits \o <<x>>) \o <<>> = bits \o <<x>>
  BY <1>4, ConcatProperties, ConcatEmptySeq
<1>6. /\ a1 \in Accumulator /\ a1.over = FALSE /\ a1.at = at + 1 /\ a1.last = l1
      /\ a1.bits = bits /\ a1.quiet <= quiet + 1
  <2>1. a0 \in Accumulator /\ ~a0.over /\ a0.at = at /\ a0.bits = bits
        /\ a0.last \in {{}, {"A"}} /\ a0.quiet <= quiet /\ a0.quiet \in Nat
    BY DEF Rests, Accumulator
  <2>2. Sampled(a0, l1, a1)
    BY <1>0, <1>1, <2>1, SampleRead DEF Sees
  <2>3. \A seen : BitAt(a0.last, l1, seen) = <<>>
    BY <1>2, <2>1 DEF BitAt
  <2>4. a1.quiet = a0.quiet + 1 \/ a1.quiet = 0
    BY <2>2 DEF Sampled
  <2>5. a1.quiet <= quiet + 1
    BY <2>1, <2>4
  <2>6. a1.at = at + 1 /\ a1.last = l1 /\ a1.over = FALSE /\ a1 \in Accumulator
    BY <2>1, <2>2, Zenon DEF Sampled
  <2>7. a1.bits = a0.bits \o <<>>
    BY <2>2, <2>3, Zenon DEF Sampled
  <2> QED
    BY <1>4, <2>1, <2>5, <2>6, <2>7, Zenon
<1>7. /\ a2 \in Accumulator /\ a2.over = FALSE /\ a2.at = at + 2 /\ a2.last = hx
      /\ a2.bits = bits \o <<x>> /\ a2.quiet = 0 /\ a2.idle = 0 /\ a2.seen = TRUE
  <2>1. Sampled(a1, hx, a2)
    BY <1>1, <1>2, <1>6, SampleRead DEF Sees
  <2>2. \A seen : BitAt(a1.last, hx, seen) = <<x>>
    BY <1>2, <1>3, <1>6 DEF BitAt
  <2>3. "A" \in a1.last \ hx
    BY <1>2, <1>6
  <2>4. a2.at = at + 2
    BY <1>6, <2>1 DEF Sampled
  <2> QED
    BY <1>2, <1>6, <2>1, <2>2, <2>3, <2>4, Zenon DEF Sampled
<1>8. /\ a3 \in Accumulator /\ a3.over = FALSE /\ a3.at = at + 3 /\ a3.last = l3
      /\ a3.bits = bits \o <<x>> /\ a3.quiet <= 1 /\ a3.idle = 0 /\ a3.seen = TRUE
  <2>1. Sampled(a2, l3, a3)
    <3>1. a2.at < Size(s) /\ At(s, a2.at) = l3
      BY <1>1, <1>7, Zenon DEF Sees
    <3>2. ~a2.over /\ a2.quiet + 1 <= EndIdle
      BY <1>0, <1>7
    <3>3. Sampled(a2, At(s, a2.at), BulkNext(a2, s))
      BY <1>7, <3>1, <3>2, SampleRead, Zenon
    <3> QED
      BY <3>1, <3>3, Zenon
  <2>2. \A seen : BitAt(a2.last, l3, seen) = <<>>
    BY <1>2, <1>7 DEF BitAt
  <2>7. a3.bits = a2.bits \o <<>>
    BY <2>1, <2>2, Zenon DEF Sampled
  <2>3. a3.bits = bits \o <<x>>
    BY <1>5, <1>7, <2>7, Zenon
  <2>4. ~(a2.idle > Gap)
    BY <1>0, <1>7
  <2>5. a3.seen = TRUE
    BY <1>7, <2>1, <2>4, Zenon DEF Sampled
  <2>6. a3.at = at + 3 /\ a3.quiet <= 1
    BY <1>7, <2>1 DEF Sampled
  <2> QED
    BY <1>2, <2>1, <2>3, <2>5, <2>6, Zenon DEF Sampled
<1>9. /\ a4 \in Accumulator /\ a4.over = FALSE /\ a4.at = at + 4 /\ a4.last = hy
      /\ a4.bits = (bits \o <<x>>) \o <<y>> /\ a4.quiet = 0
  <2>1. Sampled(a3, hy, a4)
    <3>1. a3.at < Size(s) /\ At(s, a3.at) = hy
      BY <1>1, <1>8, Zenon DEF Sees
    <3>2. ~a3.over /\ At(s, a3.at) # a3.last
      BY <1>2, <1>8, <3>1, Zenon
    <3>3. Sampled(a3, At(s, a3.at), BulkNext(a3, s))
      BY <1>8, <3>1, <3>2, SampleRead, Zenon
    <3> QED
      BY <3>1, <3>3, Zenon
  <2>2. BitAt(a3.last, hy, TRUE) = <<y>>
    BY <1>2, <1>3, <1>8 DEF BitAt
  <2>3. ~(a3.idle > Gap)
    BY <1>0, <1>8
  <2>4. (a3.seen /\ ~(hy # Idle /\ a3.idle > Gap)) = TRUE
    BY <1>8, <2>3, Zenon
  <2>5. a4.bits = a3.bits \o BitAt(a3.last, hy, TRUE)
    BY <2>1, <2>4, Zenon DEF Sampled
  <2>6. a4.at = at + 4
    BY <1>8, <2>1 DEF Sampled
  <2> QED
    BY <1>2, <1>8, <2>1, <2>2, <2>5, <2>6, Zenon DEF Sampled
<1>10. a4.quiet <= 0 /\ a4.last \in {{}, {"A"}}
  BY <1>2, <1>9
<1> QED
  BY <1>9, <1>10, Zenon DEF Rests

(* What begins what begins a sequence begins it. *)
LEMMA BeginsThrough ==
  ASSUME NEW S, NEW p \in Seq(S), NEW q \in Seq(S), NEW r \in Seq(S),
         Begins(p, q), Begins(q, r)
  PROVE  Begins(p, r)
<1>1. Len(p) \in Nat /\ Len(q) \in Nat /\ Len(r) \in Nat
  OBVIOUS
<1>2. Len(p) <= Len(r)
  BY <1>1 DEF Begins
<1>3. \A i \in 1..Len(p) : p[i] = r[i]
  <2> SUFFICES ASSUME NEW i \in 1..Len(p) PROVE p[i] = r[i]
    OBVIOUS
  <2>1. i \in 1..Len(q)
    BY <1>1 DEF Begins
  <2> QED
    BY <2>1 DEF Begins
<1> QED
  BY <1>2, <1>3 DEF Begins

(* Where the sequences are in their concatenation. *)
Placed(seqs, f, flat) ==
  /\ \A i \in 1..Len(seqs) :
       /\ Len(f[i]) = Len(f[i - 1]) + Len(seqs[i])
       /\ \A j \in 1..Len(seqs[i]) : flat[Len(f[i - 1]) + j] = seqs[i][j]
  /\ \A i \in 0..Len(seqs) : Begins(f[i], flat)

(* They are there. *)
LEMMA JoinedAt ==
  ASSUME NEW S, NEW seqs \in Seq(Seq(S)), NEW f, Joined(S, seqs, f)
  PROVE  Placed(seqs, f, FlattenSeq(seqs))
<1> DEFINE n == Len(seqs)
           flat == FlattenSeq(seqs)
<1>1. n \in Nat /\ \A i \in 1..n : seqs[i] \in Seq(S)
  OBVIOUS
<1>2. /\ \A i \in 0..n : f[i] \in Seq(S)
      /\ \A i \in 1..n : f[i] = f[i - 1] \o seqs[i]
      /\ f[n] = flat
  BY DEF Joined
<1> HIDE DEF n, flat
<1>3. \A i \in 1..n : i - 1 \in 0..n /\ i \in 0..n
  BY <1>1
<1>4. \A i \in 1..n : /\ Len(f[i]) = Len(f[i - 1]) + Len(seqs[i])
                      /\ Begins(f[i - 1], f[i])
                      /\ \A j \in 1..Len(seqs[i]) : f[i][Len(f[i - 1]) + j] = seqs[i][j]
  <2> SUFFICES ASSUME NEW i \in 1..n
               PROVE  /\ Len(f[i]) = Len(f[i - 1]) + Len(seqs[i])
                      /\ Begins(f[i - 1], f[i])
                      /\ \A j \in 1..Len(seqs[i]) : f[i][Len(f[i - 1]) + j] = seqs[i][j]
    OBVIOUS
  <2> DEFINE p == f[i - 1]
             q == seqs[i]
  <2>1. p \in Seq(S) /\ q \in Seq(S) /\ f[i] = p \o q
    BY <1>1, <1>2, <1>3
  <2> HIDE DEF p, q
  <2>2. /\ Len(p \o q) = Len(p) + Len(q)
        /\ \A k \in 1..Len(p) + Len(q) :
             (p \o q)[k] = IF k <= Len(p) THEN p[k] ELSE q[k - Len(p)]
    BY <2>1, ConcatProperties
  <2>3. Len(p) \in Nat /\ Len(q) \in Nat
    BY <2>1
  <2> DEFINE a == Len(p)
             b == Len(q)
             r == p \o q
  <2>4. /\ a \in Nat /\ b \in Nat
        /\ \A k \in 1..(a + b) : r[k] = IF k <= a THEN p[k] ELSE q[k - a]
    BY <2>2, <2>3
  <2> HIDE DEF a, b, r
  <2>5. a <= a + b /\ \A k \in 1..a : p[k] = r[k]
    BY <2>4
  <2>6. \A j \in 1..b : r[a + j] = q[j]
    <3> SUFFICES ASSUME NEW j \in 1..b PROVE r[a + j] = q[j]
      OBVIOUS
    <3>1. a + j \in 1..(a + b) /\ ~(a + j <= a) /\ (a + j) - a = j
      BY <2>4
    <3> QED
      BY <2>4, <3>1
  <2> QED
    BY <2>1, <2>2, <2>5, <2>6 DEF Begins, a, b, r, p, q
<1>5. \A i \in 0..n : Begins(f[i], flat)
  <2> DEFINE Good == {k \in Nat : k <= n => Begins(f[n - k], flat)}
  <2>1. 0 \in Good
    BY <1>1, <1>2 DEF Begins
  <2>2. \A k \in Nat : k \in Good => k + 1 \in Good
    <3> SUFFICES ASSUME NEW k \in Nat, k + 1 <= n, Begins(f[n - k], flat)
                 PROVE  Begins(f[n - (k + 1)], flat)
      BY <1>1
    <3>1. PICK i \in 1..n : i = n - k /\ i - 1 = n - (k + 1)
      <4>1. n - k \in 1..n /\ (n - k) - 1 = n - (k + 1)
        BY <1>1
      <4> QED
        BY <4>1
    <3>2. Begins(f[i - 1], f[i]) /\ Begins(f[i], flat)
      BY <1>4, <3>1
    <3>3. f[i - 1] \in Seq(S) /\ f[i] \in Seq(S) /\ flat \in Seq(S)
      BY <1>1, <1>2, <1>3
    <3> QED
      BY <3>1, <3>2, <3>3, BeginsThrough
  <2>3. \A k \in Nat : k \in Good
    <3> HIDE DEF Good
    <3> QED
      BY <2>1, <2>2, AllNaturals
  <2> SUFFICES ASSUME NEW i \in 0..n PROVE Begins(f[i], flat)
    OBVIOUS
  <2>4. n - i \in Nat /\ n - i <= n /\ n - (n - i) = i
    BY <1>1
  <2> QED
    BY <2>3, <2>4
<1>6. ASSUME NEW i \in 1..n, NEW j \in 1..Len(seqs[i])
      PROVE  flat[Len(f[i - 1]) + j] = seqs[i][j]
  <2> DEFINE a == Len(f[i - 1])
             b == Len(seqs[i])
             c == Len(f[i])
  <2>1. f[i - 1] \in Seq(S) /\ seqs[i] \in Seq(S) /\ f[i] \in Seq(S)
    BY <1>1, <1>2, <1>3
  <2>2. a \in Nat /\ b \in Nat /\ c \in Nat /\ c = a + b
    <3>1. Len(f[i]) = Len(f[i - 1]) + Len(seqs[i])
      BY <1>4
    <3>2. a \in Nat /\ b \in Nat /\ c \in Nat
      BY <2>1
    <3> QED
      BY <3>1, <3>2
  <2>3. \A k \in 1..c : f[i][k] = flat[k]
    BY <1>3, <1>5 DEF Begins
  <2>4. f[i][a + j] = seqs[i][j] /\ j \in 1..b
    BY <1>4
  <2> HIDE DEF a, b, c
  <2>5. a + j \in 1..c
    BY <2>2, <2>4
  <2> QED
    BY <2>3, <2>4, <2>5 DEF a
<1> QED
  BY <1>4, <1>5, <1>6 DEF n, flat, Placed

(* The waveform of a byte is four pairs of bits. *)
ByteLevels(byte, steps) ==
  /\ steps \in Samplings /\ Len(steps) = 16
  /\ \A k \in 0..3, j \in 1..4 :
       steps[4 * k + j] = Pair(BitsOf(byte)[2 * k + 1], BitsOf(byte)[2 * k + 2])[j]

(* So it is. *)
LEMMA ByteStepsLevels ==
  ASSUME NEW byte
  PROVE  ByteLevels(byte, ByteSteps(byte))
<1> DEFINE bit(i) == BitsOf(byte)[i]
           e(i) == IF i % 2 = 1 THEN BitSteps("A", "B", bit(i))
                   ELSE BitSteps("B", "A", bit(i))
           seqs == [i \in 1..8 |-> e(i)]
           flat == FlattenSeq(seqs)
<1>1. ByteSteps(byte) = flat
  BY DEF ByteSteps
<1>2. \A i \in 1..8 : e(i) \in Seq(Level) /\ Len(e(i)) = 2
  <2>1. \A b : BitSteps("A", "B", b) \in Seq(Level) /\ Len(BitSteps("A", "B", b)) = 2
    BY DEF BitSteps, Level, Floating
  <2>2. \A b : BitSteps("B", "A", b) \in Seq(Level) /\ Len(BitSteps("B", "A", b)) = 2
    BY DEF BitSteps, Level, Floating
  <2> QED
    BY <2>1, <2>2
<1>3. \A k \in 0..3 : /\ e(2 * k + 1) = BitSteps("A", "B", bit(2 * k + 1))
                      /\ e(2 * k + 2) = BitSteps("B", "A", bit(2 * k + 2))
  <2>1. \A k \in 0..3 : (2 * k + 1) % 2 = 1 /\ (2 * k + 2) % 2 = 0
    OBVIOUS
  <2> QED
    BY <2>1
<1> HIDE DEF e
<1>4. seqs \in Seq(Seq(Level))
  BY <1>2, IsASeq
<1>5. Len(seqs) = 8 /\ \A i \in 1..8 : seqs[i] = e(i)
  OBVIOUS
<1> HIDE DEF seqs
<1>6. PICK f : Joined(Level, seqs, f)
  BY <1>4, Flattening
<1>7. /\ \A i \in 1..8 : /\ Len(f[i]) = Len(f[i - 1]) + 2
                         /\ \A j \in 1..2 : flat[Len(f[i - 1]) + j] = e(i)[j]
      /\ Len(f[0]) = 0 /\ f[8] = flat
  <2>1. f[0] = <<>> /\ f[8] = flat
    BY <1>5, <1>6 DEF Joined
  <2>2. \A i \in 1..8 : /\ Len(f[i]) = Len(f[i - 1]) + Len(seqs[i])
                        /\ \A j \in 1..Len(seqs[i]) : flat[Len(f[i - 1]) + j] = seqs[i][j]
    <3>1. \A i \in 1..Len(seqs) :
            /\ Len(f[i]) = Len(f[i - 1]) + Len(seqs[i])
            /\ \A j \in 1..Len(seqs[i]) :
                 FlattenSeq(seqs)[Len(f[i - 1]) + j] = seqs[i][j]
      <4>1. Placed(seqs, f, FlattenSeq(seqs))
        BY <1>4, <1>6, JoinedAt
      <4> HIDE DEF flat
      <4> QED
        BY <4>1, Zenon DEF Placed
    <3> QED
      BY <1>5, <3>1
  <2> HIDE DEF flat
  <2>3. \A i \in 1..8 : Len(seqs[i]) = 2
    BY <1>2, <1>5
  <2>4. Len(f[0]) = 0
    BY <2>1
  <2> QED
    BY <1>5, <2>1, <2>2, <2>3, <2>4, Zenon
<1> HIDE DEF flat
<1>8. /\ Len(f[0]) = 0 /\ Len(f[1]) = 2 /\ Len(f[2]) = 4 /\ Len(f[3]) = 6
      /\ Len(f[4]) = 8 /\ Len(f[5]) = 10 /\ Len(f[6]) = 12 /\ Len(f[7]) = 14
      /\ Len(f[8]) = 16
  <2>1. \A i \in 1..8 : Len(f[i]) = Len(f[i - 1]) + 2
    BY <1>7
  <2>2. /\ Len(f[1]) = Len(f[0]) + 2 /\ Len(f[2]) = Len(f[1]) + 2
        /\ Len(f[3]) = Len(f[2]) + 2 /\ Len(f[4]) = Len(f[3]) + 2
        /\ Len(f[5]) = Len(f[4]) + 2 /\ Len(f[6]) = Len(f[5]) + 2
        /\ Len(f[7]) = Len(f[6]) + 2 /\ Len(f[8]) = Len(f[7]) + 2
    BY <2>1
  <2> QED
    BY <1>7, <2>2
<1>9. \A k \in 0..3 : /\ Len(f[2 * k]) = 4 * k /\ Len(f[2 * k + 1]) = 4 * k + 2
  <2> SUFFICES ASSUME NEW k \in 0..3
               PROVE  Len(f[2 * k]) = 4 * k /\ Len(f[2 * k + 1]) = 4 * k + 2
    OBVIOUS
  <2>1. CASE k = 0
    <3>1. 2 * k = 0 /\ 2 * k + 1 = 1 /\ 4 * k = 0 /\ 4 * k + 2 = 2
      BY <2>1
    <3> QED
      BY <1>8, <3>1
  <2>2. CASE k = 1
    <3>1. 2 * k = 2 /\ 2 * k + 1 = 3 /\ 4 * k = 4 /\ 4 * k + 2 = 6
      BY <2>2
    <3> QED
      BY <1>8, <3>1
  <2>3. CASE k = 2
    <3>1. 2 * k = 4 /\ 2 * k + 1 = 5 /\ 4 * k = 8 /\ 4 * k + 2 = 10
      BY <2>3
    <3> QED
      BY <1>8, <3>1
  <2>4. CASE k = 3
    <3>1. 2 * k = 6 /\ 2 * k + 1 = 7 /\ 4 * k = 12 /\ 4 * k + 2 = 14
      BY <2>4
    <3> QED
      BY <1>8, <3>1
  <2> QED
    BY <2>1, <2>2, <2>3, <2>4
<1>10. \A k \in 0..3 :
         /\ flat[4 * k + 1] = e(2 * k + 1)[1] /\ flat[4 * k + 2] = e(2 * k + 1)[2]
         /\ flat[4 * k + 3] = e(2 * k + 2)[1] /\ flat[4 * k + 4] = e(2 * k + 2)[2]
  <2> SUFFICES ASSUME NEW k \in 0..3
               PROVE  /\ flat[4 * k + 1] = e(2 * k + 1)[1]
                      /\ flat[4 * k + 2] = e(2 * k + 1)[2]
                      /\ flat[4 * k + 3] = e(2 * k + 2)[1]
                      /\ flat[4 * k + 4] = e(2 * k + 2)[2]
    OBVIOUS
  <2>1. /\ 2 * k + 1 \in 1..8 /\ 2 * k + 2 \in 1..8
        /\ (2 * k + 1) - 1 = 2 * k /\ (2 * k + 2) - 1 = 2 * k + 1
    OBVIOUS
  <2>2. \A j \in 1..2 : /\ flat[4 * k + j] = e(2 * k + 1)[j]
                        /\ flat[(4 * k + 2) + j] = e(2 * k + 2)[j]
    <3>1. Len(f[2 * k]) = 4 * k /\ Len(f[2 * k + 1]) = 4 * k + 2
      BY <1>9
    <3>2. \A j \in 1..2 : flat[Len(f[2 * k]) + j] = e(2 * k + 1)[j]
      BY <1>7, <2>1
    <3>3. \A j \in 1..2 : flat[Len(f[2 * k + 1]) + j] = e(2 * k + 2)[j]
      BY <1>7, <2>1
    <3> QED
      BY <3>1, <3>2, <3>3
  <2>3. (4 * k + 2) + 1 = 4 * k + 3 /\ (4 * k + 2) + 2 = 4 * k + 4 /\ 1 \in 1..2 /\ 2 \in 1..2
    OBVIOUS
  <2> QED
    BY <2>2, <2>3
<1>11. \A x, y : /\ BitSteps("A", "B", x)[1] = Pair(x, y)[1]
                 /\ BitSteps("A", "B", x)[2] = Pair(x, y)[2]
                 /\ BitSteps("B", "A", y)[1] = Pair(x, y)[3]
                 /\ BitSteps("B", "A", y)[2] = Pair(x, y)[4]
  BY DEF BitSteps, Pair
<1>12. \A k \in 0..3, j \in 1..4 :
         flat[4 * k + j] = Pair(bit(2 * k + 1), bit(2 * k + 2))[j]
  <2> SUFFICES ASSUME NEW k \in 0..3, NEW j \in 1..4
               PROVE  flat[4 * k + j] = Pair(bit(2 * k + 1), bit(2 * k + 2))[j]
    OBVIOUS
  <2>1. j = 1 \/ j = 2 \/ j = 3 \/ j = 4
    OBVIOUS
  <2> HIDE DEF bit
  <2> QED
    BY <1>3, <1>10, <1>11, <2>1
<1>13. flat \in Seq(Level) /\ Len(flat) = 16
  <2>1. f[8] \in Seq(Level)
    BY <1>5, <1>6 DEF Joined
  <2> QED
    BY <1>7, <1>8, <2>1
<1> QED
  BY <1>1, <1>12, <1>13 DEF ByteLevels, Samplings

(* The samples of q, from index `at` on. *)
Reads(s, at, q) == \A j \in 1..Len(q) : Sees(s, at + (j - 1), q[j])

(* Two more bits behind q. *)
Grown(q, r, x, y) ==
  /\ r \in Seq(Bit) /\ Len(r) = Len(q) + 2 /\ Begins(q, r)
  /\ r[Len(q) + 1] = x /\ r[Len(q) + 2] = y

(* They are put there. *)
LEMMA TwoMore ==
  ASSUME NEW q \in Seq(Bit), NEW x \in Bit, NEW y \in Bit
  PROVE  Grown(q, (q \o <<x>>) \o <<y>>, x, y)
<1> DEFINE p == q \o <<x>>
           r == p \o <<y>>
           n == Len(q)
<1>1. <<x>> \in Seq(Bit) /\ <<y>> \in Seq(Bit) /\ Len(<<x>>) = 1 /\ Len(<<y>>) = 1
      /\ <<x>>[1] = x /\ <<y>>[1] = y
  OBVIOUS
<1>2. /\ p \in Seq(Bit) /\ Len(p) = n + 1
      /\ \A i \in 1..(n + 1) : p[i] = IF i <= n THEN q[i] ELSE <<x>>[i - n]
  BY <1>1, ConcatProperties
<1>3. n \in Nat
  OBVIOUS
<1> HIDE DEF n, p
<1>4. /\ r \in Seq(Bit) /\ Len(r) = Len(p) + 1
      /\ \A i \in 1..(Len(p) + 1) : r[i] = IF i <= Len(p) THEN p[i] ELSE <<y>>[i - Len(p)]
  BY <1>1, <1>2, ConcatProperties
<1> HIDE DEF r
<1>5. /\ Len(r) = n + 2
      /\ \A i \in 1..(n + 2) : r[i] = IF i <= n + 1 THEN p[i] ELSE <<y>>[i - (n + 1)]
  BY <1>2, <1>3, <1>4
<1>6. \A i \in 1..n : q[i] = r[i]
  BY <1>2, <1>3, <1>5
<1>7. r[n + 1] = x /\ r[n + 2] = y
  <2>1. /\ n + 1 \in 1..(n + 1) /\ n + 1 \in 1..(n + 2) /\ n + 2 \in 1..(n + 2)
        /\ ~(n + 1 <= n) /\ ~(n + 2 <= n + 1) /\ n + 1 <= n + 1
        /\ (n + 1) - n = 1 /\ (n + 2) - (n + 1) = 1
    BY <1>3
  <2>2. p[n + 1] = <<x>>[1]
    BY <1>2, <2>1
  <2>3. r[n + 1] = p[n + 1] /\ r[n + 2] = <<y>>[1]
    BY <1>5, <2>1
  <2> QED
    BY <1>1, <2>2, <2>3
<1>8. n <= n + 2
  BY <1>3
<1>9. Grown(q, r, x, y)
  BY <1>4, <1>5, <1>6, <1>7, <1>8 DEF Grown, Begins, n
<1> QED
  BY <1>9 DEF r, p

(* A byte's bits behind those there were. *)
Appended(bits, byte, more) ==
  /\ more \in Seq(Bit) /\ Len(more) = Len(bits) + 8 /\ Begins(bits, more)
  /\ \A j \in 1..8 : more[Len(bits) + j] = BitsOf(byte)[j]

(* They are there, two at a time. *)
LEMMA FourPairs ==
  ASSUME NEW byte, NEW b0 \in Seq(Bit), NEW b1, NEW b2, NEW b3, NEW b4,
         Grown(b0, b1, BitsOf(byte)[1], BitsOf(byte)[2]),
         Grown(b1, b2, BitsOf(byte)[3], BitsOf(byte)[4]),
         Grown(b2, b3, BitsOf(byte)[5], BitsOf(byte)[6]),
         Grown(b3, b4, BitsOf(byte)[7], BitsOf(byte)[8])
  PROVE  Appended(b0, byte, b4)
<1> DEFINE n == Len(b0)
<1>1. n \in Nat
  OBVIOUS
<1>2. /\ b1 \in Seq(Bit) /\ b2 \in Seq(Bit) /\ b3 \in Seq(Bit) /\ b4 \in Seq(Bit)
      /\ Len(b1) = n + 2 /\ Len(b2) = Len(b1) + 2 /\ Len(b3) = Len(b2) + 2
      /\ Len(b4) = Len(b3) + 2
  BY DEF Grown
<1>3. /\ \A i \in 1..n : b0[i] = b1[i]
      /\ \A i \in 1..Len(b1) : b1[i] = b2[i]
      /\ \A i \in 1..Len(b2) : b2[i] = b3[i]
      /\ \A i \in 1..Len(b3) : b3[i] = b4[i]
  BY DEF Grown, Begins
<1>4. /\ b1[n + 1] = BitsOf(byte)[1] /\ b1[n + 2] = BitsOf(byte)[2]
      /\ b2[Len(b1) + 1] = BitsOf(byte)[3] /\ b2[Len(b1) + 2] = BitsOf(byte)[4]
      /\ b3[Len(b2) + 1] = BitsOf(byte)[5] /\ b3[Len(b2) + 2] = BitsOf(byte)[6]
      /\ b4[Len(b3) + 1] = BitsOf(byte)[7] /\ b4[Len(b3) + 2] = BitsOf(byte)[8]
  BY DEF Grown
<1> HIDE DEF n
<1>5. Len(b1) = n + 2 /\ Len(b2) = n + 4 /\ Len(b3) = n + 6 /\ Len(b4) = n + 8
  BY <1>1, <1>2
<1>6. /\ \A i \in 1..n : b0[i] = b1[i]
      /\ \A i \in 1..(n + 2) : b1[i] = b2[i]
      /\ \A i \in 1..(n + 4) : b2[i] = b3[i]
      /\ \A i \in 1..(n + 6) : b3[i] = b4[i]
  BY <1>3, <1>5
<1>7. /\ b1[n + 1] = BitsOf(byte)[1] /\ b1[n + 2] = BitsOf(byte)[2]
      /\ b2[n + 3] = BitsOf(byte)[3] /\ b2[n + 4] = BitsOf(byte)[4]
      /\ b3[n + 5] = BitsOf(byte)[5] /\ b3[n + 6] = BitsOf(byte)[6]
      /\ b4[n + 7] = BitsOf(byte)[7] /\ b4[n + 8] = BitsOf(byte)[8]
  <2>1. /\ (n + 2) + 1 = n + 3 /\ (n + 2) + 2 = n + 4 /\ (n + 4) + 1 = n + 5
        /\ (n + 4) + 2 = n + 6 /\ (n + 6) + 1 = n + 7 /\ (n + 6) + 2 = n + 8
    BY <1>1
  <2> QED
    BY <1>4, <1>5, <2>1, Zenon
<1>8. \A i \in 1..n : b0[i] = b4[i]
  BY <1>1, <1>6
<1>9. /\ b4[n + 1] = b1[n + 1] /\ b4[n + 2] = b1[n + 2]
      /\ b4[n + 3] = b2[n + 3] /\ b4[n + 4] = b2[n + 4]
      /\ b4[n + 5] = b3[n + 5] /\ b4[n + 6] = b3[n + 6]
  <2>1. /\ n + 1 \in 1..(n + 2) /\ n + 2 \in 1..(n + 2) /\ n + 3 \in 1..(n + 4)
        /\ n + 4 \in 1..(n + 4) /\ n + 5 \in 1..(n + 6) /\ n + 6 \in 1..(n + 6)
        /\ 1..(n + 2) \subseteq 1..(n + 4) /\ 1..(n + 4) \subseteq 1..(n + 6)
    BY <1>1
  <2> QED
    BY <1>6, <2>1
<1>10. \A j \in 1..8 : b4[n + j] = BitsOf(byte)[j]
  <2> SUFFICES ASSUME NEW j \in 1..8 PROVE b4[n + j] = BitsOf(byte)[j]
    OBVIOUS
  <2>1. j = 1 \/ j = 2 \/ j = 3 \/ j = 4 \/ j = 5 \/ j = 6 \/ j = 7 \/ j = 8
    OBVIOUS
  <2> QED
    BY <1>7, <1>9, <2>1, Zenon
<1>11. n <= n + 8
  BY <1>1
<1> QED
  BY <1>2, <1>5, <1>8, <1>10, <1>11 DEF Appended, Begins, n

(* A byte's bits are bits. *)
LEMMA BitsOfType ==
  ASSUME NEW x \in Byte, NEW j \in 1..8
  PROVE  BitsOf(x)[j] \in Bit
<1>1. \A m \in Int : m % 2 \in {0, 1}
  OBVIOUS
<1>2. x \in Int /\ Weight[j] \in Nat \ {0}
  BY DEF Byte, Weight
<1>3. \A m \in Int, n \in Nat \ {0} : m \div n \in Int
  OBVIOUS
<1>4. x \div Weight[j] \in Int
  BY <1>2, <1>3
<1>5. BitsOf(x)[j] = (x \div Weight[j]) % 2
  BY DEF BitsOf
<1> QED
  BY <1>1, <1>4, <1>5 DEF Bit

(* The pass over four samples that are a pair of bits. *)
LEMMA PairRun ==
  ASSUME NEW s \in Samplings, NEW start \in 1..Size(s), NEW n \in Nat,
         NEW at \in Nat, NEW bits \in Seq(Bit), NEW x \in Bit, NEW y \in Bit,
         NEW quiet \in Nat, quiet + 1 <= EndIdle,
         Rests(BulkAfter(s, start, n), at, bits, quiet),
         \A j \in 1..4 : Sees(s, at + (j - 1), Pair(x, y)[j])
  PROVE  \E more : /\ Grown(bits, more, x, y)
                   /\ Rests(BulkAfter(s, start, n + 4), at + 4, more, 0)
<1> DEFINE b(k) == BulkAfter(s, start, n + k)
<1>1. b(0) = BulkAfter(s, start, n)
  <2>1. n + 0 = n
    OBVIOUS
  <2> QED
    BY <2>1
<1>2. /\ b(1) = BulkNext(b(0), s) /\ b(2) = BulkNext(b(1), s)
      /\ b(3) = BulkNext(b(2), s) /\ b(4) = BulkNext(b(3), s)
  <2>1. \A k \in Nat : b(k + 1) = BulkNext(b(k), s)
    <3>1. \A k \in Nat : n + k \in Nat /\ n + (k + 1) = (n + k) + 1
      OBVIOUS
    <3> QED
      BY <3>1, BulkSteps
  <2>2. 0 + 1 = 1 /\ 1 + 1 = 2 /\ 2 + 1 = 3 /\ 3 + 1 = 4
    OBVIOUS
  <2> HIDE DEF b
  <2> QED
    BY <2>1, <2>2
<1>3. /\ Sees(s, at, Pair(x, y)[1]) /\ Sees(s, at + 1, Pair(x, y)[2])
      /\ Sees(s, at + 2, Pair(x, y)[3]) /\ Sees(s, at + 3, Pair(x, y)[4])
  <2>1. /\ at + (1 - 1) = at /\ at + (2 - 1) = at + 1 /\ at + (3 - 1) = at + 2
        /\ at + (4 - 1) = at + 3
    OBVIOUS
  <2> QED
    BY <2>1
<1> DEFINE more == (bits \o <<x>>) \o <<y>>
<1>4. Rests(b(0), at, bits, quiet)
  BY <1>1
<1>5. Rests(b(4), at + 4, more, 0)
  <2> HIDE DEF b
  <2> QED
    BY <1>2, <1>3, <1>4, PairRead
<1>6. Grown(bits, more, x, y)
  BY TwoMore
<1> QED
  BY <1>5, <1>6

(* The pass over a byte. *)
LEMMA ByteRun ==
  ASSUME NEW s \in Samplings, NEW start \in 1..Size(s), NEW n \in Nat,
         NEW at \in Nat, NEW bits \in Seq(Bit), NEW byte \in Byte,
         NEW quiet \in Nat, quiet + 1 <= EndIdle,
         Rests(BulkAfter(s, start, n), at, bits, quiet),
         NEW steps, ByteLevels(byte, steps), Reads(s, at, steps)
  PROVE  \E more : /\ Appended(bits, byte, more)
                   /\ Rests(BulkAfter(s, start, n + 16), at + 16, more, 0)
<1> DEFINE x(k) == BitsOf(byte)[2 * k + 1]
           y(k) == BitsOf(byte)[2 * k + 2]
<1>1. \A k \in 0..3 : x(k) \in Bit /\ y(k) \in Bit
  <2>1. \A k \in 0..3 : 2 * k + 1 \in 1..8 /\ 2 * k + 2 \in 1..8
    OBVIOUS
  <2> QED
    BY <2>1, BitsOfType
<1>2. \A k \in 0..3 : \A j \in 1..4 :
        Sees(s, (at + 4 * k) + (j - 1), Pair(x(k), y(k))[j])
  <2> SUFFICES ASSUME NEW k \in 0..3, NEW j \in 1..4
               PROVE  Sees(s, (at + 4 * k) + (j - 1), Pair(x(k), y(k))[j])
    OBVIOUS
  <2>1. 4 * k + j \in 1..16 /\ at + ((4 * k + j) - 1) = (at + 4 * k) + (j - 1)
    OBVIOUS
  <2>2. Sees(s, at + ((4 * k + j) - 1), steps[4 * k + j])
    BY <2>1 DEF Reads, ByteLevels
  <2>3. steps[4 * k + j] = Pair(x(k), y(k))[j]
    BY DEF ByteLevels
  <2> QED
    BY <2>1, <2>2, <2>3
<1>3. EndIdle \in Nat /\ 0 + 1 <= EndIdle
  BY MapleWireAssumption
<1> HIDE DEF x, y
<1>4. PICK b1 : /\ Grown(bits, b1, x(0), y(0))
                /\ Rests(BulkAfter(s, start, n + 4), at + 4, b1, 0)
  <2>1. \A j \in 1..4 : Sees(s, at + (j - 1), Pair(x(0), y(0))[j])
    <3>1. at + 4 * 0 = at /\ 0 \in 0..3
      OBVIOUS
    <3> QED
      BY <1>2, <3>1
  <2>2. x(0) \in Bit /\ y(0) \in Bit
    BY <1>1
  <2> QED
    BY <2>1, <2>2, PairRun
<1>5. PICK b2 : /\ Grown(b1, b2, x(1), y(1))
                /\ Rests(BulkAfter(s, start, n + 8), at + 8, b2, 0)
  <2>1. \A j \in 1..4 : Sees(s, (at + 4) + (j - 1), Pair(x(1), y(1))[j])
    <3>1. at + 4 * 1 = at + 4 /\ 1 \in 0..3
      OBVIOUS
    <3> QED
      BY <1>2, <3>1
  <2>2. x(1) \in Bit /\ y(1) \in Bit /\ b1 \in Seq(Bit)
    BY <1>1, <1>4 DEF Grown
  <2>3. /\ n + 4 \in Nat /\ at + 4 \in Nat /\ (n + 4) + 4 = n + 8
        /\ (at + 4) + 4 = at + 8 /\ 0 \in Nat
    OBVIOUS
  <2>4. \E more : /\ Grown(b1, more, x(1), y(1))
                  /\ Rests(BulkAfter(s, start, (n + 4) + 4), (at + 4) + 4, more, 0)
    BY <1>3, <1>4, <2>1, <2>2, <2>3, PairRun
  <2> QED
    BY <2>3, <2>4
<1>6. PICK b3 : /\ Grown(b2, b3, x(2), y(2))
                /\ Rests(BulkAfter(s, start, n + 12), at + 12, b3, 0)
  <2>1. \A j \in 1..4 : Sees(s, (at + 8) + (j - 1), Pair(x(2), y(2))[j])
    <3>1. at + 4 * 2 = at + 8 /\ 2 \in 0..3
      OBVIOUS
    <3> QED
      BY <1>2, <3>1
  <2>2. x(2) \in Bit /\ y(2) \in Bit /\ b2 \in Seq(Bit)
    BY <1>1, <1>5 DEF Grown
  <2>3. /\ n + 8 \in Nat /\ at + 8 \in Nat /\ (n + 8) + 4 = n + 12
        /\ (at + 8) + 4 = at + 12 /\ 0 \in Nat
    OBVIOUS
  <2>4. \E more : /\ Grown(b2, more, x(2), y(2))
                  /\ Rests(BulkAfter(s, start, (n + 8) + 4), (at + 8) + 4, more, 0)
    BY <1>3, <1>5, <2>1, <2>2, <2>3, PairRun
  <2> QED
    BY <2>3, <2>4
<1>7. PICK b4 : /\ Grown(b3, b4, x(3), y(3))
                /\ Rests(BulkAfter(s, start, n + 16), at + 16, b4, 0)
  <2>1. \A j \in 1..4 : Sees(s, (at + 12) + (j - 1), Pair(x(3), y(3))[j])
    <3>1. at + 4 * 3 = at + 12 /\ 3 \in 0..3
      OBVIOUS
    <3> QED
      BY <1>2, <3>1
  <2>2. x(3) \in Bit /\ y(3) \in Bit /\ b3 \in Seq(Bit)
    BY <1>1, <1>6 DEF Grown
  <2>3. /\ n + 12 \in Nat /\ at + 12 \in Nat /\ (n + 12) + 4 = n + 16
        /\ (at + 12) + 4 = at + 16 /\ 0 \in Nat
    OBVIOUS
  <2>4. \E more : /\ Grown(b3, more, x(3), y(3))
                  /\ Rests(BulkAfter(s, start, (n + 12) + 4), (at + 12) + 4, more, 0)
    BY <1>3, <1>6, <2>1, <2>2, <2>3, PairRun
  <2> QED
    BY <2>3, <2>4
<1>8. /\ x(0) = BitsOf(byte)[1] /\ y(0) = BitsOf(byte)[2]
      /\ x(1) = BitsOf(byte)[3] /\ y(1) = BitsOf(byte)[4]
      /\ x(2) = BitsOf(byte)[5] /\ y(2) = BitsOf(byte)[6]
      /\ x(3) = BitsOf(byte)[7] /\ y(3) = BitsOf(byte)[8]
  BY DEF x, y
<1>9. Appended(bits, byte, b4)
  BY <1>4, <1>5, <1>6, <1>7, <1>8, FourPairs
<1> QED
  BY <1>7, <1>9

(* A sample of a pause. *)
LEMMA PauseSample ==
  ASSUME NEW s \in Samplings, NEW at \in Nat, NEW bits \in Seq(Bit),
         NEW quiet \in Nat, quiet + 1 <= EndIdle, NEW a,
         Rests(a, at, bits, quiet), Sees(s, at, Idle)
  PROVE  Rests(BulkNext(a, s), at + 1, bits, quiet + 1)
<1>1. a \in Accumulator /\ ~a.over /\ a.at = at /\ a.bits = bits
      /\ a.last \in {{}, {"A"}} /\ a.quiet <= quiet /\ a.quiet \in Nat
  BY DEF Rests, Accumulator
<1>2. a.quiet + 1 <= EndIdle /\ EndIdle \in Nat
  BY <1>1, MapleWireAssumption
<1>3. Sampled(a, Idle, BulkNext(a, s))
  BY <1>1, <1>2, SampleRead DEF Sees
<1>4. \A seen : BitAt(a.last, Idle, seen) = <<>>
  BY <1>1 DEF BitAt, Idle
<1>5. bits \o <<>> = bits
  BY ConcatEmptySeq
<1> DEFINE next == BulkNext(a, s)
<1> HIDE DEF next
<1>6. next.quiet = a.quiet + 1 \/ next.quiet = 0
  BY <1>3 DEF Sampled, next
<1>7. next.quiet <= quiet + 1
  BY <1>1, <1>6
<1>8. Rests(next, at + 1, bits, quiet + 1)
  BY <1>1, <1>3, <1>4, <1>5, <1>7 DEF Sampled, Rests, Idle, next
<1> QED
  BY <1>8 DEF next

(* And a pause, shorter than ends a reply: no bit, and no end. *)
LEMMA PauseRun ==
  ASSUME NEW s \in Samplings, NEW start \in 1..Size(s), NEW n \in Nat,
         NEW at \in Nat, NEW bits \in Seq(Bit),
         Rests(BulkAfter(s, start, n), at, bits, 0),
         NEW m \in Nat, m <= EndIdle, \A j \in 1..m : Sees(s, at + (j - 1), Idle)
  PROVE  Rests(BulkAfter(s, start, n + m), at + m, bits, m)
<1> DEFINE Good == {k \in Nat : k <= m =>
                      Rests(BulkAfter(s, start, n + k), at + k, bits, k)}
<1>1. 0 \in Good
  <2>1. n + 0 = n /\ at + 0 = at
    OBVIOUS
  <2> QED
    BY <2>1
<1>2. \A k \in Nat : k \in Good => k + 1 \in Good
  <2> SUFFICES ASSUME NEW k \in Nat, k + 1 <= m,
                      Rests(BulkAfter(s, start, n + k), at + k, bits, k)
               PROVE  Rests(BulkAfter(s, start, n + (k + 1)), at + (k + 1), bits, k + 1)
    OBVIOUS
  <2>1. /\ k + 1 \in 1..m /\ (k + 1) - 1 = k /\ n + k \in Nat /\ at + k \in Nat
        /\ n + (k + 1) = (n + k) + 1 /\ at + (k + 1) = (at + k) + 1
    OBVIOUS
  <2>2. Sees(s, at + k, Idle)
    BY <2>1
  <2>3. k + 1 <= EndIdle
    BY MapleWireAssumption
  <2>4. BulkAfter(s, start, (n + k) + 1) = BulkNext(BulkAfter(s, start, n + k), s)
    BY <2>1, BulkSteps
  <2>5. Rests(BulkNext(BulkAfter(s, start, n + k), s), (at + k) + 1, bits, k + 1)
    BY <2>1, <2>2, <2>3, PauseSample
  <2> QED
    BY <2>1, <2>4, <2>5
<1>3. \A k \in Nat : k \in Good
  <2> HIDE DEF Good
  <2> QED
    BY <1>1, <1>2, AllNaturals
<1> QED
  BY <1>3

(* A pause of m samples. *)
Pausing(gap, m) == gap \in Samplings /\ Len(gap) = m /\ \A j \in 1..m : gap[j] = Idle

(* The pass over a byte and the pause before it. *)
LEMMA PieceRun ==
  ASSUME NEW s \in Samplings, NEW start \in 1..Size(s), NEW n \in Nat,
         NEW at \in Nat, NEW bits \in Seq(Bit), NEW byte \in Byte,
         NEW m \in Nat, m < EndIdle, NEW gap, Pausing(gap, m),
         Rests(BulkAfter(s, start, n), at, bits, 0),
         Reads(s, at, gap \o ByteSteps(byte))
  PROVE  \E more : /\ Appended(bits, byte, more)
                   /\ Rests(BulkAfter(s, start, n + (m + 16)), at + (m + 16), more, 0)
<1> DEFINE steps == ByteSteps(byte)
<1>1. ByteLevels(byte, steps)
  BY ByteStepsLevels
<1>2. gap \in Seq(Level) /\ steps \in Seq(Level) /\ Len(gap) = m /\ Len(steps) = 16
  BY <1>1 DEF ByteLevels, Pausing, Samplings
<1> HIDE DEF steps
<1>3. /\ Len(gap \o steps) = m + 16
      /\ \A k \in 1..(m + 16) :
           (gap \o steps)[k] = IF k <= m THEN gap[k] ELSE steps[k - m]
  <2>1. /\ Len(gap \o steps) = Len(gap) + Len(steps)
        /\ \A k \in 1..Len(gap) + Len(steps) :
             (gap \o steps)[k] = IF k <= Len(gap) THEN gap[k] ELSE steps[k - Len(gap)]
    <3>1. gap \in Seq(Level) /\ steps \in Seq(Level)
      BY <1>2
    <3> QED
      BY <3>1, ConcatProperties
  <2> QED
    BY <1>2, <2>1, Zenon
<1>4. \A j \in 1..(m + 16) : Sees(s, at + (j - 1), (gap \o steps)[j])
  BY <1>3 DEF Reads, steps
<1>5. \A j \in 1..m : Sees(s, at + (j - 1), Idle)
  <2> SUFFICES ASSUME NEW j \in 1..m PROVE Sees(s, at + (j - 1), Idle)
    OBVIOUS
  <2>1. j \in 1..(m + 16) /\ j <= m
    OBVIOUS
  <2>2. (gap \o steps)[j] = Idle
    BY <1>3, <2>1 DEF Pausing
  <2> QED
    BY <1>4, <2>1, <2>2
<1>6. Rests(BulkAfter(s, start, n + m), at + m, bits, m)
  <2>1. m <= EndIdle
    BY MapleWireAssumption
  <2> QED
    BY <1>5, <2>1, PauseRun
<1>7. \A j \in 1..16 : Sees(s, (at + m) + (j - 1), steps[j])
  <2> SUFFICES ASSUME NEW j \in 1..16 PROVE Sees(s, (at + m) + (j - 1), steps[j])
    OBVIOUS
  <2>1. /\ m + j \in 1..(m + 16) /\ ~(m + j <= m) /\ (m + j) - m = j
        /\ at + ((m + j) - 1) = (at + m) + (j - 1)
    OBVIOUS
  <2>2. (gap \o steps)[m + j] = steps[j]
    BY <1>3, <2>1
  <2>3. Sees(s, at + ((m + j) - 1), (gap \o steps)[m + j])
    BY <1>4, <2>1
  <2> QED
    BY <2>1, <2>2, <2>3
<1>8. Reads(s, at + m, steps)
  BY <1>2, <1>7 DEF Reads
<1>9. /\ n + m \in Nat /\ at + m \in Nat /\ m + 1 <= EndIdle
      /\ (n + m) + 16 = n + (m + 16) /\ (at + m) + 16 = at + (m + 16)
  BY MapleWireAssumption
<1>10. \E more : /\ Appended(bits, byte, more)
                 /\ Rests(BulkAfter(s, start, (n + m) + 16), (at + m) + 16, more, 0)
  BY <1>1, <1>6, <1>8, <1>9, ByteRun DEF steps
<1> QED
  BY <1>9, <1>10

(* The bits of the first i bytes. *)
Carries(bits, bytes, i) ==
  /\ bits \in Seq(Bit) /\ Len(bits) = 8 * i
  /\ \A k \in 1..i, j \in 1..8 : bits[8 * (k - 1) + j] = BitsOf(bytes[k])[j]

(* And of one more. *)
LEMMA CarriesOne ==
  ASSUME NEW bytes, NEW i \in Nat, NEW bits, Carries(bits, bytes, i),
         NEW more, Appended(bits, bytes[i + 1], more)
  PROVE  Carries(more, bytes, i + 1)
<1>1. /\ more \in Seq(Bit) /\ Len(more) = 8 * i + 8 /\ Begins(bits, more)
      /\ \A j \in 1..8 : more[8 * i + j] = BitsOf(bytes[i + 1])[j]
  BY DEF Appended, Carries
<1>2. \A k \in 1..(8 * i) : more[k] = bits[k]
  BY <1>1 DEF Begins, Carries
<1>3. 8 * i + 8 = 8 * (i + 1)
  OBVIOUS
<1>4. ASSUME NEW k \in 1..(i + 1), NEW j \in 1..8
      PROVE  more[8 * (k - 1) + j] = BitsOf(bytes[k])[j]
  <2>1. CASE k = i + 1
    <3>1. k - 1 = i
      BY <2>1
    <3> QED
      BY <1>1, <2>1, <3>1
  <2>2. CASE k # i + 1
    <3>1. k \in 1..i
      BY <2>2
    <3>2. 8 * (k - 1) + j \in 1..(8 * i)
      BY <3>1
    <3> QED
      BY <1>2, <3>1, <3>2 DEF Carries
  <2> QED
    BY <2>1, <2>2
<1> QED
  BY <1>1, <1>3, <1>4 DEF Carries

(* The waveform of a byte, behind a pause that ends no reply. *)
Piece(steps, byte) ==
  \E m \in Nat, gap \in Samplings :
    m < EndIdle /\ Pausing(gap, m) /\ steps = gap \o ByteSteps(byte)

(* It is as long as it looks. *)
LEMMA PieceLength ==
  ASSUME NEW steps, NEW byte, NEW m \in Nat, NEW gap, Pausing(gap, m),
         steps = gap \o ByteSteps(byte)
  PROVE  steps \in Seq(Level) /\ Len(steps) = m + 16
<1>1. ByteSteps(byte) \in Seq(Level) /\ Len(ByteSteps(byte)) = 16
  BY ByteStepsLevels DEF ByteLevels, Samplings
<1>2. gap \in Seq(Level) /\ Len(gap) = m
  BY DEF Pausing, Samplings
<1> DEFINE q == ByteSteps(byte)
<1>3. gap \in Seq(Level) /\ q \in Seq(Level)
  BY <1>1, <1>2
<1> HIDE DEF q
<1>4. gap \o q \in Seq(Level) /\ Len(gap \o q) = Len(gap) + Len(q)
  BY <1>3, ConcatProperties
<1> QED
  BY <1>1, <1>2, <1>4, Zenon DEF q

(* The pass is after the i-th byte, with all there were. *)
ReadUpTo(s, start, n, base, f, bytes, i) ==
  \E bits : /\ Carries(bits, bytes, i)
            /\ Rests(BulkAfter(s, start, n + Len(f[i])), base + Len(f[i]), bits, 0)

(* The pass over bytes, with pauses that end no reply. *)
LEMMA PiecesRun ==
  ASSUME NEW s \in Samplings, NEW start \in 1..Size(s), NEW n \in Nat,
         NEW base \in Nat, NEW bytes \in Seq(Byte), NEW seqs \in Seq(Seq(Level)),
         Len(seqs) = Len(bytes), \A i \in 1..Len(bytes) : Piece(seqs[i], bytes[i]),
         NEW f, Joined(Level, seqs, f),
         Rests(BulkAfter(s, start, n), base, <<>>, 0),
         Reads(s, base, FlattenSeq(seqs))
  PROVE  ReadUpTo(s, start, n, base, f, bytes, Len(bytes))
<1> DEFINE flat == FlattenSeq(seqs)
           N == Len(bytes)
           Good == {i \in Nat : i <= N => ReadUpTo(s, start, n, base, f, bytes, i)}
<1>1. N \in Nat /\ f[0] = <<>> /\ f[N] = flat /\ \A i \in 0..N : f[i] \in Seq(Level)
  BY DEF Joined
<1>2. Placed(seqs, f, flat)
  BY JoinedAt
<1>3. \A i \in 0..N : Len(f[i]) \in Nat /\ Len(f[i]) <= Len(flat)
  <2>1. \A i \in 0..N : Begins(f[i], flat)
    BY <1>2 DEF Placed
  <2> QED
    BY <1>1, <2>1 DEF Begins
<1>4. 0 \in Good
  <2>1. Len(f[0]) = 0 /\ n + 0 = n /\ base + 0 = base
    BY <1>1
  <2>2. Carries(<<>>, bytes, 0)
    <3>1. <<>> \in Seq(Bit) /\ Len(<<>>) = 0
      OBVIOUS
    <3> QED
      BY <3>1 DEF Carries
  <2> QED
    BY <2>1, <2>2 DEF ReadUpTo
<1>5. \A i \in Nat : i \in Good => i + 1 \in Good
  <2> SUFFICES ASSUME NEW i \in Nat, i + 1 <= N,
                      ReadUpTo(s, start, n, base, f, bytes, i)
               PROVE  ReadUpTo(s, start, n, base, f, bytes, i + 1)
    BY <1>1
  <2>1. i + 1 \in 1..N /\ (i + 1) - 1 = i /\ i \in 0..N /\ i + 1 \in 0..N
    <3>1. N \in Nat
      BY <1>1
    <3> HIDE DEF N
    <3> QED
      BY <3>1
  <2>2. PICK bits : /\ Carries(bits, bytes, i)
                    /\ Rests(BulkAfter(s, start, n + Len(f[i])), base + Len(f[i]), bits, 0)
    BY DEF ReadUpTo
  <2>3. PICK m \in Nat, gap \in Samplings :
          /\ m < EndIdle /\ Pausing(gap, m)
          /\ seqs[i + 1] = gap \o ByteSteps(bytes[i + 1])
    BY <2>1 DEF Piece
  <2> DEFINE a == Len(f[i])
             b == Len(f[i + 1])
             piece == seqs[i + 1]
  <2>4. Len(piece) = m + 16
    BY <2>3, PieceLength
  <2>5. b = a + (m + 16) /\ \A j \in 1..(m + 16) : flat[a + j] = piece[j]
    <3> DEFINE h == i + 1
    <3>1. /\ Len(f[h]) = Len(f[h - 1]) + Len(seqs[h])
          /\ \A j \in 1..Len(seqs[h]) : flat[Len(f[h - 1]) + j] = seqs[h][j]
      <4>1. h \in 1..Len(seqs)
        BY <2>1
      <4> HIDE DEF h, flat
      <4> QED
        BY <1>2, <4>1, Zenon DEF Placed
    <3>2. h - 1 = i
      OBVIOUS
    <3> HIDE DEF h, flat
    <3>3. /\ Len(f[h]) = Len(f[i]) + Len(seqs[h])
          /\ \A j \in 1..Len(seqs[h]) : flat[Len(f[i]) + j] = seqs[h][j]
      BY <3>1, <3>2, Zenon
    <3> QED
      BY <2>4, <3>3, Zenon DEF h
  <2>6. a \in Nat /\ b \in Nat /\ b <= Len(flat)
    BY <1>3, <2>1
  <2> HIDE DEF flat
  <2>7. Len(flat) \in Nat
    <3>1. flat \in Seq(Level)
      BY <1>1
    <3> QED
      BY <3>1
  <2> HIDE DEF a, b, piece
  <2>8. Reads(s, base + a, piece)
    <3> SUFFICES ASSUME NEW j \in 1..Len(piece)
                 PROVE  Sees(s, (base + a) + (j - 1), piece[j])
      BY DEF Reads
    <3>1. j \in 1..(m + 16)
      BY <2>4
    <3>2. a + j \in 1..Len(flat) /\ base + ((a + j) - 1) = (base + a) + (j - 1)
      BY <2>5, <2>6, <2>7, <3>1
    <3>3. Sees(s, base + ((a + j) - 1), flat[a + j])
      BY <3>2 DEF Reads, flat
    <3> QED
      BY <2>5, <3>1, <3>2, <3>3
  <2>9. Rests(BulkAfter(s, start, n + a), base + a, bits, 0)
    BY <2>2 DEF a
  <2>10. n + a \in Nat /\ base + a \in Nat /\ bits \in Seq(Bit) /\ bytes[i + 1] \in Byte
    BY <2>1, <2>2, <2>6 DEF Carries
  <2>11. Reads(s, base + a, gap \o ByteSteps(bytes[i + 1]))
    BY <2>3, <2>8 DEF piece
  <2>12. PICK more : /\ Appended(bits, bytes[i + 1], more)
                     /\ Rests(BulkAfter(s, start, (n + a) + (m + 16)),
                              (base + a) + (m + 16), more, 0)
    BY <2>3, <2>9, <2>10, <2>11, PieceRun
  <2>13. (n + a) + (m + 16) = n + b /\ (base + a) + (m + 16) = base + b
    <3>1. a \in Nat /\ b = a + (m + 16)
      BY <2>5, <2>6
    <3> HIDE DEF a, b
    <3> QED
      BY <3>1
  <2>14. Carries(more, bytes, i + 1)
    BY <2>2, <2>12, CarriesOne
  <2> QED
    BY <2>12, <2>13, <2>14 DEF ReadUpTo, b
<1>6. \A i \in Nat : i \in Good
  <2> HIDE DEF Good
  <2> QED
    BY <1>4, <1>5, AllNaturals
<1> QED
  BY <1>1, <1>6

(* The levels of the start pattern. *)
LEMMA StartLevels ==
  \A p \in 0..10 : /\ "A" \in StartPattern[p + 1] <=> p \in {9, 10}
                   /\ "B" \in StartPattern[p + 1] <=> p \in {0, 2, 4, 6, 8, 9}
<1> DEFINE q == StartPattern
<1>1. /\ q[1] = {"B"} /\ q[2] = {} /\ q[3] = {"B"} /\ q[4] = {} /\ q[5] = {"B"}
      /\ q[6] = {} /\ q[7] = {"B"} /\ q[8] = {} /\ q[9] = {"B"}
      /\ q[10] = {"A", "B"} /\ q[11] = {"A"}
  BY DEF StartPattern
<1> HIDE DEF q
<1>2. "A" # "B"
  OBVIOUS
<1> SUFFICES ASSUME NEW p \in 0..10
             PROVE  /\ "A" \in q[p + 1] <=> p \in {9, 10}
                    /\ "B" \in q[p + 1] <=> p \in {0, 2, 4, 6, 8, 9}
  BY DEF q
<1>3. CASE p = 0
  BY <1>1, <1>2, <1>3
<1>4. CASE p = 1
  BY <1>1, <1>2, <1>4
<1>5. CASE p = 2
  BY <1>1, <1>2, <1>5
<1>6. CASE p = 3
  BY <1>1, <1>2, <1>6
<1>7. CASE p = 4
  BY <1>1, <1>2, <1>7
<1>8. CASE p = 5
  BY <1>1, <1>2, <1>8
<1>9. CASE p = 6
  BY <1>1, <1>2, <1>9
<1>10. CASE p = 7
  BY <1>1, <1>2, <1>10
<1>11. CASE p = 8
  BY <1>1, <1>2, <1>11
<1>12. CASE p = 9
  BY <1>1, <1>2, <1>12
<1>13. CASE p = 10
  BY <1>1, <1>2, <1>13
<1> QED
  BY <1>3, <1>4, <1>5, <1>6, <1>7, <1>8, <1>9, <1>10, <1>11, <1>12, <1>13

(* One more in a set. *)
LEMMA OneMore ==
  ASSUME NEW S, IsFiniteSet(S), NEW n \in Nat, Cardinality(S) = n, NEW x, x \notin S,
         NEW T, T = S \cup {x}
  PROVE  IsFiniteSet(T) /\ Cardinality(T) = n + 1
BY FS_AddElement

(* Three or four marks. *)
Marks(T, a, b, c, d) == T = {b, c, d} \/ T = {a, b, c, d}

(* So many rises are enough. *)
LEMMA MarksSuffice ==
  ASSUME NEW a \in Int, NEW b \in Int, NEW c \in Int, NEW d \in Int,
         a < b, b < c, c < d, NEW T, Marks(T, a, b, c, d)
  PROVE  Cardinality(T) \in MinToggles..MaxToggles
<1> DEFINE S1 == {d}
           S2 == {c, d}
           S3 == {b, c, d}
           S4 == {a, b, c, d}
<1>1. /\ S1 = {} \cup {d} /\ d \notin {}
      /\ S2 = S1 \cup {c} /\ c \notin S1
      /\ S3 = S2 \cup {b} /\ b \notin S2
      /\ S4 = S3 \cup {a} /\ a \notin S3
  OBVIOUS
<1> HIDE DEF S1, S2, S3, S4
<1>2. IsFiniteSet(S1) /\ Cardinality(S1) = 1
  <2>1. IsFiniteSet({}) /\ Cardinality({}) = 0
    BY FS_EmptySet
  <2> QED
    BY <1>1, <2>1, OneMore
<1>3. IsFiniteSet(S2) /\ Cardinality(S2) = 2
  BY <1>1, <1>2, OneMore
<1>4. IsFiniteSet(S3) /\ Cardinality(S3) = 3
  BY <1>1, <1>3, OneMore
<1>5. IsFiniteSet(S4) /\ Cardinality(S4) = 4
  BY <1>1, <1>4, OneMore
<1>6. Cardinality(T) = 3 \/ Cardinality(T) = 4
  BY <1>4, <1>5 DEF Marks, S3, S4
<1> QED
  BY <1>6 DEF MinToggles, MaxToggles

(* The capture opens with the start pattern but for its first c half bits. *)
Opened(s, c) == \A p \in c..10 : Sees(s, p - c, StartPattern[p + 1])

(* B rises often enough in what is left of it, if that is all but three. *)
LEMMA TogglesLeft ==
  ASSUME NEW s, NEW c \in 0..3, Opened(s, c)
  PROVE  Cardinality({i \in 1..(9 - c) : "B" \notin At(s, i - 1) /\ "B" \in At(s, i)})
           \in MinToggles..MaxToggles
<1> DEFINE T == {i \in 1..(9 - c) : "B" \notin At(s, i - 1) /\ "B" \in At(s, i)}
<1>1. \A i \in 0..(9 - c) : "B" \in At(s, i) <=> i + c \in {0, 2, 4, 6, 8, 9}
  <2> SUFFICES ASSUME NEW i \in 0..(9 - c)
               PROVE  "B" \in At(s, i) <=> i + c \in {0, 2, 4, 6, 8, 9}
    OBVIOUS
  <2>1. i + c \in c..10 /\ i + c \in 0..10 /\ (i + c) - c = i
    OBVIOUS
  <2>2. At(s, i) = StartPattern[(i + c) + 1]
    BY <2>1 DEF Opened, Sees
  <2> QED
    BY <2>1, <2>2, StartLevels
<1>2. \A i \in 1..(9 - c) : i \in T <=> i + c \in {2, 4, 6, 8}
  <2> SUFFICES ASSUME NEW i \in 1..(9 - c)
               PROVE  i \in T <=> i + c \in {2, 4, 6, 8}
    OBVIOUS
  <2>1. i - 1 \in 0..(9 - c) /\ i \in 0..(9 - c) /\ (i - 1) + c = (i + c) - 1
    OBVIOUS
  <2>2. "B" \in At(s, i) <=> i + c \in {0, 2, 4, 6, 8, 9}
    BY <1>1, <2>1
  <2>3. "B" \in At(s, i - 1) <=> (i + c) - 1 \in {0, 2, 4, 6, 8, 9}
    BY <1>1, <2>1
  <2> DEFINE k == i + c
  <2>4. k \in 1..9 /\ ("B" \in At(s, i) <=> k \in {0, 2, 4, 6, 8, 9})
        /\ ("B" \in At(s, i - 1) <=> k - 1 \in {0, 2, 4, 6, 8, 9})
        /\ (i \in T <=> "B" \notin At(s, i - 1) /\ "B" \in At(s, i))
    BY <2>2, <2>3
  <2> HIDE DEF k, T
  <2>5. (k \in {0, 2, 4, 6, 8, 9} /\ k - 1 \notin {0, 2, 4, 6, 8, 9}) <=> k \in {2, 4, 6, 8}
    BY <2>4
  <2> QED
    BY <2>4, <2>5 DEF k
<1>3. T \subseteq 1..(9 - c)
  OBVIOUS
<1> HIDE DEF T
<1>4. \A i : i \in T <=> i \in 1..(9 - c) /\ i + c \in {2, 4, 6, 8}
  BY <1>2, <1>3
<1>5. Marks(T, 2 - c, 4 - c, 6 - c, 8 - c)
  <2>1. CASE c \in {0, 1}
    <3>1. \A i : i \in 1..(9 - c) /\ i + c \in {2, 4, 6, 8}
                 <=> i \in {2 - c, 4 - c, 6 - c, 8 - c}
      BY <2>1
    <3>2. T = {2 - c, 4 - c, 6 - c, 8 - c}
      BY <1>4, <3>1, Zenon
    <3> QED
      BY <3>2 DEF Marks
  <2>2. CASE c \in {2, 3}
    <3>1. \A i : i \in 1..(9 - c) /\ i + c \in {2, 4, 6, 8}
                 <=> i \in {4 - c, 6 - c, 8 - c}
      BY <2>2
    <3>2. T = {4 - c, 6 - c, 8 - c}
      BY <1>4, <3>1, Zenon
    <3> QED
      BY <3>2 DEF Marks
  <2> QED
    BY <2>1, <2>2
<1>6. /\ 2 - c \in Int /\ 4 - c \in Int /\ 6 - c \in Int /\ 8 - c \in Int
      /\ 2 - c < 4 - c /\ 4 - c < 6 - c /\ 6 - c < 8 - c
  OBVIOUS
<1>7. Cardinality(T) \in MinToggles..MaxToggles
  BY <1>5, <1>6, MarksSuffice
<1> QED
  BY <1>7 DEF T

(* The first fall of A that begins a data pattern is found. *)
LEMMA StartFound ==
  ASSUME NEW s \in Samplings, NEW c \in 0..3, Opened(s, c)
  PROVE  FindDataStart(s) = 9 - c /\ 9 - c \in 1..Size(s)
<1>1. /\ \A i \in 0..(10 - c) : "A" \in At(s, i) <=> i \in {9 - c, 10 - c}
      /\ "B" \in At(s, 9 - c) /\ 10 - c < Size(s)
  <2>1. ASSUME NEW i \in 0..(10 - c)
        PROVE  /\ "A" \in At(s, i) <=> i \in {9 - c, 10 - c}
               /\ i = 9 - c => "B" \in At(s, i)
               /\ i < Size(s)
    <3>1. i + c \in c..10 /\ i + c \in 0..10 /\ (i + c) - c = i
      OBVIOUS
    <3>2. At(s, i) = StartPattern[(i + c) + 1] /\ i < Size(s)
      BY <3>1 DEF Opened, Sees
    <3>3. /\ "A" \in At(s, i) <=> i + c \in {9, 10}
          /\ "B" \in At(s, i) <=> i + c \in {0, 2, 4, 6, 8, 9}
      BY <3>1, <3>2, StartLevels
    <3> QED
      BY <3>2, <3>3
  <2>2. 9 - c \in 0..(10 - c) /\ 10 - c \in 0..(10 - c)
    OBVIOUS
  <2> QED
    BY <2>1, <2>2
<1> DEFINE len == Size(s)
           r == 9 - c
<1>2. len \in Nat /\ Len(s) = len
  BY DEF Samplings, Size
<1> HIDE DEF len
<1>3. r \in 6..9 /\ r \in 1..(len - 1) /\ r \in 1..len
  BY <1>1, <1>2 DEF len
<1>4. "A" \in At(s, r) /\ "B" \in At(s, r) /\ \A j \in 0..(r - 1) : "A" \notin At(s, j)
  <2>1. r \in 0..(10 - c) /\ r = 9 - c
    OBVIOUS
  <2>2. \A j \in 0..(r - 1) : j \in 0..(10 - c) /\ j \notin {9 - c, 10 - c}
    OBVIOUS
  <2> QED
    BY <1>1, <2>1, <2>2
<1>5. /\ 0 \in FallsOfA(s) /\ \A i \in FallsOfA(s) : i = 0 \/ 0 < i
  <2>1. 0 \in 0..(len - 1) /\ 0 \in 0..(r - 1)
    BY <1>2, <1>3
  <2> QED
    BY <1>2, <1>4, <2>1 DEF FallsOfA
<1>6. Rises(s, 0) /\ RiseOfA(s, 0) = r
  <2> DEFINE P(i) == "A" \in At(s, i) /\ \A j \in 1..(i - 1) : "A" \notin At(s, j)
             D == 1..(len - 1)
  <2>1. r \in D /\ P(r)
    <3>1. \A j \in 1..(r - 1) : j \in 0..(r - 1)
      OBVIOUS
    <3> QED
      BY <1>3, <1>4, <3>1
  <2>2. \A i \in D : P(i) => i = r
    <3> SUFFICES ASSUME NEW i \in D, P(i) PROVE i = r
      OBVIOUS
    <3>1. i \in Int /\ 1 <= i /\ r \in Int /\ 1 <= r
      BY <1>2, <1>3
    <3>2. ~(i < r)
      <4>1. CASE i < r
        <5>1. i \in 0..(r - 1)
          BY <3>1, <4>1
        <5> QED
          BY <1>4, <5>1
      <4> QED
        BY <4>1
    <3>3. ~(r < i)
      <4>1. CASE r < i
        <5>1. r \in 1..(i - 1)
          BY <3>1, <4>1
        <5> QED
          BY <1>4, <5>1
      <4> QED
        BY <4>1
    <3> HIDE DEF r
    <3> QED
      BY <3>1, <3>2, <3>3
  <2> HIDE DEF P, D
  <2>3. (CHOOSE i \in D : P(i)) = r
    BY <2>1, <2>2
  <2>4. D = (0 + 1)..(len - 1)
    BY <1>2 DEF D
  <2>5. RiseOfA(s, 0) = (CHOOSE i \in D : P(i))
    <3>1. 0 + 1 = 1
      OBVIOUS
    <3> QED
      BY <1>2, <3>1, Zenon DEF D, P, RiseOfA
  <2>6. Rises(s, 0)
    BY <1>2, <2>1, <2>4 DEF D, P, Rises
  <2> QED
    BY <2>3, <2>5, <2>6
<1>7. IsDataStart(s, 0)
  <2> DEFINE T == {i \in 1..(9 - c) : "B" \notin At(s, i - 1) /\ "B" \in At(s, i)}
  <2>1. Cardinality(T) \in MinToggles..MaxToggles
    BY TogglesLeft
  <2>2. T = {i \in (0 + 1)..RiseOfA(s, 0) : "B" \notin At(s, i - 1) /\ "B" \in At(s, i)}
    <3>1. 0 + 1 = 1
      OBVIOUS
    <3> QED
      BY <1>6, <3>1
  <2> HIDE DEF T
  <2> QED
    BY <1>4, <1>6, <2>1, <2>2, Zenon DEF IsDataStart
<1> DEFINE falls == FallsOfA(s)
           first(i) == /\ IsDataStart(s, i)
                       /\ \A j \in falls : j < i => ~IsDataStart(s, j)
<1>8. (CHOOSE i \in falls : first(i)) = 0
  <2>1. 0 \in falls /\ first(0)
    <3>1. \A j \in falls : ~(j < 0)
      <4>1. \A j \in falls : j \in Nat
        BY <1>2 DEF FallsOfA
      <4> QED
        BY <4>1
    <3> QED
      BY <1>5, <1>7, <3>1
  <2>2. \A i \in falls : first(i) => i = 0
    BY <1>5, <1>7
  <2> HIDE DEF falls, first
  <2> QED
    BY <2>1, <2>2
<1>9. \E i \in falls : IsDataStart(s, i)
  BY <1>5, <1>7
<1>10. FindDataStart(s) = RiseOfA(s, 0)
  BY <1>8, <1>9, Zenon DEF FindDataStart
<1> QED
  BY <1>3, <1>6, <1>10 DEF len

(* The pass begins in the last two samples of the start pattern, which are no
   bits. *)
LEMMA OpeningRun ==
  ASSUME NEW s \in Samplings, NEW c \in 0..3, Opened(s, c)
  PROVE  Rests(BulkAfter(s, 9 - c, 2), (9 - c) + 2, <<>>, 0)
<1> DEFINE start == 9 - c
           a0 == BulkAfter(s, start, 0)
           a1 == BulkAfter(s, start, 1)
           a2 == BulkAfter(s, start, 2)
<1>1. start \in 1..Size(s) /\ start \in Nat
  BY StartFound
<1>2. At(s, start - 1) = {"B"} /\ Sees(s, start, {"A", "B"}) /\ Sees(s, start + 1, {"A"})
  <2>1. /\ 8 \in c..10 /\ 9 \in c..10 /\ 10 \in c..10
        /\ 8 - c = start - 1 /\ 9 - c = start /\ 10 - c = start + 1
        /\ 8 + 1 = 9 /\ 9 + 1 = 10 /\ 10 + 1 = 11
    OBVIOUS
  <2>2. StartPattern[9] = {"B"} /\ StartPattern[10] = {"A", "B"} /\ StartPattern[11] = {"A"}
    BY DEF StartPattern
  <2>3. /\ Sees(s, 8 - c, StartPattern[8 + 1]) /\ Sees(s, 9 - c, StartPattern[9 + 1])
        /\ Sees(s, 10 - c, StartPattern[10 + 1])
    BY <2>1 DEF Opened
  <2>4. /\ Sees(s, start - 1, {"B"}) /\ Sees(s, start, {"A", "B"})
        /\ Sees(s, start + 1, {"A"})
    BY <2>1, <2>2, <2>3
  <2> QED
    BY <2>4 DEF Sees
<1>3. /\ a0 = BulkStart(s, start) /\ a1 = BulkNext(a0, s) /\ a2 = BulkNext(a1, s)
      /\ a0 \in Accumulator
  <2>1. 0 + 1 = 1 /\ 1 + 1 = 2 /\ 0 \in Nat /\ 1 \in Nat
    OBVIOUS
  <2> HIDE DEF start
  <2> QED
    BY <1>1, <2>1, BulkSteps
<1>4. /\ a0.at = start /\ a0.last = {"B"} /\ a0.quiet = 0 /\ a0.idle = 0
      /\ a0.seen = FALSE /\ a0.over = FALSE /\ a0.bits = <<>>
  <2> HIDE DEF a0, start
  <2> QED
    BY <1>2, <1>3 DEF BulkStart
<1> HIDE DEF a0, a1, a2, start
<1>5. "A" # "B" /\ {"A", "B"} # {"B"} /\ {"A", "B"} # {"A"} /\ {"A", "B"} # Idle
  BY DEF Idle
<1>6. /\ a1 \in Accumulator /\ a1.at = start + 1 /\ a1.last = {"A", "B"}
      /\ a1.over = FALSE /\ a1.idle = 0 /\ a1.seen = FALSE /\ a1.bits = <<>>
  <2>1. Sampled(a0, {"A", "B"}, a1)
    <3>1. a0.at < Size(s) /\ At(s, a0.at) = {"A", "B"}
      BY <1>2, <1>4, Zenon DEF Sees
    <3>2. ~a0.over /\ At(s, a0.at) # a0.last
      BY <1>4, <1>5, <3>1, Zenon
    <3>3. Sampled(a0, At(s, a0.at), BulkNext(a0, s))
      BY <1>3, <3>1, <3>2, SampleRead
    <3> QED
      BY <1>3, <3>1, <3>3, Zenon
  <2>2. \A seen : BitAt({"B"}, {"A", "B"}, seen) = <<>>
    BY <1>5 DEF BitAt
  <2>3. "A" \notin {"B"} \ {"A", "B"}
    BY <1>5
  <2>4. a1.seen = FALSE
    BY <1>4, <2>1, <2>3, Zenon DEF Sampled
  <2>5. a1.bits = <<>> \o <<>>
    BY <1>4, <2>1, <2>2, Zenon DEF Sampled
  <2>6. a1.at = start + 1 /\ a1.last = {"A", "B"} /\ a1.over = FALSE
    BY <1>4, <2>1, Zenon DEF Sampled
  <2>7. a1.idle = 0 /\ a1 \in Accumulator
    BY <1>5, <2>1, Zenon DEF Sampled
  <2>8. <<>> \o <<>> = <<>>
    OBVIOUS
  <2>9. a1.bits = <<>>
    BY <2>5, <2>8, Zenon
  <2> QED
    BY <2>4, <2>6, <2>7, <2>9, Zenon
<1>7. Sees(s, start + 1, {"A"}) /\ {"A"} = Idle
  BY <1>2 DEF Idle
<1>8. Sampled(a1, {"A"}, a2)
  <2>1. a1.at < Size(s) /\ At(s, a1.at) = {"A"}
    BY <1>6, <1>7, Zenon DEF Sees
  <2>2. ~a1.over /\ At(s, a1.at) # a1.last
    BY <1>5, <1>6, <2>1, Zenon
  <2>3. Sampled(a1, At(s, a1.at), BulkNext(a1, s))
    BY <1>6, <2>1, <2>2, SampleRead, Zenon
  <2> QED
    BY <1>3, <2>1, <2>3, Zenon
<1>9. BitAt({"A", "B"}, {"A"}, FALSE) = <<>>
  BY <1>5 DEF BitAt
<1>10. a2.bits = <<>> \o <<>>
  BY <1>6, <1>8, <1>9, Zenon DEF Sampled
<1>11. <<>> \o <<>> = <<>> /\ (start + 1) + 1 = start + 2
  BY <1>1
<1>12. /\ a2.at = (start + 1) + 1 /\ a2.last = {"A"} /\ a2.over = FALSE
       /\ a2.quiet = 0 /\ a2 \in Accumulator
  BY <1>5, <1>6, <1>8, Zenon DEF Sampled
<1>13. a2.quiet <= 0
  BY <1>12
<1>14. Rests(a2, start + 2, <<>>, 0)
  BY <1>10, <1>11, <1>12, <1>13, Zenon DEF Rests
<1> QED
  BY <1>14 DEF a2, start

(* A byte is what its bits are. *)
LEMMA ByteOfItsBits ==
  ASSUME NEW x \in Byte
  PROVE  ByteOf(BitsOf(x)) = x
<1>1. x \in 0..255
  BY DEF Byte
<1>2. /\ BitsOf(x)[1] = (x \div 128) % 2 /\ BitsOf(x)[2] = (x \div 64) % 2
      /\ BitsOf(x)[3] = (x \div 32) % 2 /\ BitsOf(x)[4] = (x \div 16) % 2
      /\ BitsOf(x)[5] = (x \div 8) % 2 /\ BitsOf(x)[6] = (x \div 4) % 2
      /\ BitsOf(x)[7] = (x \div 2) % 2 /\ BitsOf(x)[8] = (x \div 1) % 2
  BY DEF BitsOf, Weight
<1>3. \A n \in Nat : n = 2 * (n \div 2) + (n % 2)
  OBVIOUS
<1>4. /\ x \div 1 = x /\ x \div 4 = (x \div 2) \div 2 /\ x \div 8 = (x \div 4) \div 2
      /\ x \div 16 = (x \div 8) \div 2 /\ x \div 32 = (x \div 16) \div 2
      /\ x \div 64 = (x \div 32) \div 2 /\ x \div 128 = (x \div 64) \div 2
      /\ (x \div 128) \div 2 = 0
  BY <1>1
<1>5. /\ x \div 2 \in Nat /\ x \div 4 \in Nat /\ x \div 8 \in Nat /\ x \div 16 \in Nat
      /\ x \div 32 \in Nat /\ x \div 64 \in Nat /\ x \div 128 \in Nat /\ x \in Nat
  BY <1>1
<1>6. /\ x = 2 * (x \div 2) + (x % 2)
      /\ x \div 2 = 2 * (x \div 4) + ((x \div 2) % 2)
      /\ x \div 4 = 2 * (x \div 8) + ((x \div 4) % 2)
      /\ x \div 8 = 2 * (x \div 16) + ((x \div 8) % 2)
      /\ x \div 16 = 2 * (x \div 32) + ((x \div 16) % 2)
      /\ x \div 32 = 2 * (x \div 64) + ((x \div 32) % 2)
      /\ x \div 64 = 2 * (x \div 128) + ((x \div 64) % 2)
      /\ x \div 128 = 2 * 0 + ((x \div 128) % 2)
  BY <1>3, <1>4, <1>5
<1>7. ByteOf(BitsOf(x)) = 128 * ((x \div 128) % 2) + 64 * ((x \div 64) % 2)
        + 32 * ((x \div 32) % 2) + 16 * ((x \div 16) % 2) + 8 * ((x \div 8) % 2)
        + 4 * ((x \div 4) % 2) + 2 * ((x \div 2) % 2) + (x % 2)
  BY <1>2, <1>4, Zenon DEF ByteOf
<1> QED
  BY <1>5, <1>6, <1>7

(* And eight bits are those of the byte they make. *)
LEMMA BitsOfItsByte ==
  ASSUME NEW b, Octet(b)
  PROVE  \A i \in 1..8 : BitsOf(ByteOf(b))[i] = b[i]
<1> DEFINE x == ByteOf(b)
           p == b[1]
           q == b[2]
           r == b[3]
           s == b[4]
           t == b[5]
           u == b[6]
           v == b[7]
           w == b[8]
<1>1. /\ p \in {0, 1} /\ q \in {0, 1} /\ r \in {0, 1} /\ s \in {0, 1}
      /\ t \in {0, 1} /\ u \in {0, 1} /\ v \in {0, 1} /\ w \in {0, 1}
  BY DEF Bit, Octet
<1>2. x = 128 * p + 64 * q + 32 * r + 16 * s + 8 * t + 4 * u + 2 * v + w
  BY DEF ByteOf
<1> HIDE DEF x, p, q, r, s, t, u, v, w
<1>3. (x \div 128) % 2 = p /\ (x \div 64) % 2 = q
  BY <1>1, <1>2
<1>4. (x \div 32) % 2 = r /\ (x \div 16) % 2 = s
  BY <1>1, <1>2
<1>5. (x \div 8) % 2 = t /\ (x \div 4) % 2 = u
  BY <1>1, <1>2
<1>6. (x \div 2) % 2 = v /\ (x \div 1) % 2 = w
  BY <1>1, <1>2
<1>7. /\ (x \div 128) % 2 = b[1] /\ (x \div 64) % 2 = b[2]
      /\ (x \div 32) % 2 = b[3] /\ (x \div 16) % 2 = b[4]
      /\ (x \div 8) % 2 = b[5] /\ (x \div 4) % 2 = b[6]
      /\ (x \div 2) % 2 = b[7] /\ (x \div 1) % 2 = b[8]
  BY <1>3, <1>4, <1>5, <1>6 DEF p, q, r, s, t, u, v, w
<1>8. /\ BitsOf(x)[1] = (x \div 128) % 2 /\ BitsOf(x)[2] = (x \div 64) % 2
      /\ BitsOf(x)[3] = (x \div 32) % 2 /\ BitsOf(x)[4] = (x \div 16) % 2
      /\ BitsOf(x)[5] = (x \div 8) % 2 /\ BitsOf(x)[6] = (x \div 4) % 2
      /\ BitsOf(x)[7] = (x \div 2) % 2 /\ BitsOf(x)[8] = (x \div 1) % 2
  BY DEF BitsOf, Weight
<1> SUFFICES ASSUME NEW i \in 1..8 PROVE BitsOf(x)[i] = b[i]
  BY DEF x
<1>9. i = 1 \/ i = 2 \/ i = 3 \/ i = 4 \/ i = 5 \/ i = 6 \/ i = 7 \/ i = 8
  OBVIOUS
<1> QED
  BY <1>7, <1>8, <1>9

(* The bytes of bits that are those of some bytes begin with them. *)
LEMMA CarriedBytes ==
  ASSUME NEW bytes \in Seq(Byte), NEW bits, Carries(bits, bytes, Len(bytes)),
         NEW more \in Seq(Bit), Begins(bits, more)
  PROVE  Begins(bytes, BytesOf(more))
<1> DEFINE n == Len(bytes)
           m == Len(more)
<1>1. /\ n \in Nat /\ m \in Nat /\ Len(bits) = 8 * n /\ 8 * n <= m
      /\ \A k \in 1..n, j \in 1..8 : bits[8 * (k - 1) + j] = BitsOf(bytes[k])[j]
      /\ \A i \in 1..(8 * n) : bits[i] = more[i]
  <2>1. Len(bits) = 8 * n /\ Len(bits) <= m /\ \A i \in 1..Len(bits) : bits[i] = more[i]
    BY DEF Carries, Begins
  <2> QED
    BY <2>1 DEF Carries
<1> HIDE DEF n, m
<1>2. n <= m \div 8
  BY <1>1
<1>3. /\ Len(BytesOf(more)) = m \div 8
      /\ \A i \in 1..(m \div 8) : BytesOf(more)[i] = ByteOf(SubSeq(more, 8 * i - 7, 8 * i))
  BY BytesOfType DEF m
<1>4. \A i \in 1..n : BytesOf(more)[i] = bytes[i]
  <2> SUFFICES ASSUME NEW i \in 1..n PROVE BytesOf(more)[i] = bytes[i]
    OBVIOUS
  <2> DEFINE q == SubSeq(more, 8 * i - 7, 8 * i)
  <2>1. i \in 1..(m \div 8) /\ 8 * i - 7 \in 1..m /\ 8 * i \in 1..m
    BY <1>1, <1>2
  <2>2. \A j \in 1..8 : q[j] = more[8 * (i - 1) + j]
    <3>1. \A j \in 1..8 : (8 * i - 7 + j) - 1 = 8 * (i - 1) + j
      BY <1>1
    <3> QED
      BY <2>1, <3>1 DEF m
  <2> HIDE DEF q
  <2>3. \A j \in 1..8 : q[j] = BitsOf(bytes[i])[j]
    <3> SUFFICES ASSUME NEW j \in 1..8 PROVE q[j] = BitsOf(bytes[i])[j]
      OBVIOUS
    <3>1. 8 * (i - 1) + j \in 1..(8 * n)
      BY <1>1
    <3> QED
      BY <1>1, <2>2, <3>1
  <2>4. ByteOf(q) = ByteOf(BitsOf(bytes[i]))
    <3>1. /\ q[1] = BitsOf(bytes[i])[1] /\ q[2] = BitsOf(bytes[i])[2]
          /\ q[3] = BitsOf(bytes[i])[3] /\ q[4] = BitsOf(bytes[i])[4]
          /\ q[5] = BitsOf(bytes[i])[5] /\ q[6] = BitsOf(bytes[i])[6]
          /\ q[7] = BitsOf(bytes[i])[7] /\ q[8] = BitsOf(bytes[i])[8]
      BY <2>3
    <3> QED
      BY <3>1, Zenon DEF ByteOf
  <2>5. bytes[i] \in Byte
    BY DEF n
  <2>6. ByteOf(q) = bytes[i]
    BY <2>4, <2>5, ByteOfItsBits
  <2> QED
    BY <1>3, <2>1, <2>6 DEF q
<1> QED
  BY <1>2, <1>3, <1>4 DEF Begins, n

(* The capture s: the start pattern but for its first c half bits, the bytes,
   each with its piece of the waveform, and whatever comes after. *)
Spelt(s, c, bytes, seqs) ==
  /\ Opened(s, c)
  /\ seqs \in Seq(Seq(Level)) /\ Len(seqs) = Len(bytes)
  /\ \A i \in 1..Len(bytes) : Piece(seqs[i], bytes[i])
  /\ Reads(s, 11 - c, FlattenSeq(seqs))

Legibly(s, c, bytes) == \E seqs : Spelt(s, c, bytes, seqs)

(* From `at` on the bus floats. *)
Floats(s, at) == \A i \in Nat : (at <= i /\ i < Size(s)) => At(s, i) = Floating

(* The same, and the bus floats behind the last byte. *)
Stopped(s, c, bytes) ==
  \E seqs : Spelt(s, c, bytes, seqs) /\ Floats(s, (11 - c) + Len(FlattenSeq(seqs)))

(* After m samples the one pass has the bits of the bytes, and no others. *)
SpeltAt(s, start, m, c, bytes, seqs, bits) ==
  /\ m \in Nat /\ start + m <= Size(s)
  /\ start + m = (11 - c) + Len(FlattenSeq(seqs))
  /\ Carries(bits, bytes, Len(bytes))
  /\ Rests(BulkAfter(s, start, m), start + m, bits, 0)

(* It gets there from the start that is found. *)
LEMMA SpeltRead ==
  ASSUME NEW s \in Samplings, NEW c \in 0..3, NEW bytes \in Seq(Byte), NEW seqs,
         Spelt(s, c, bytes, seqs)
  PROVE  /\ FindDataStart(s) = 9 - c /\ 9 - c \in 1..Size(s) /\ 9 - c # NoStart
         /\ \E m, bits : SpeltAt(s, 9 - c, m, c, bytes, seqs, bits)
<1> DEFINE start == 9 - c
           base == start + 2
<1>1. Opened(s, c)
  BY DEF Spelt
<1>2. FindDataStart(s) = start /\ start \in 1..Size(s) /\ start # NoStart /\ base = 11 - c
      /\ start \in Nat /\ base \in Nat
  <2>1. start # NoStart /\ base = 11 - c /\ start \in Nat /\ base \in Nat
    BY DEF NoStart
  <2> QED
    BY <1>1, <2>1, StartFound
<1>3. Rests(BulkAfter(s, start, 2), base, <<>>, 0)
  BY <1>1, OpeningRun
<1>4. start + 2 <= Size(s) /\ Size(s) \in Nat
  <2>1. Sees(s, 10 - c, StartPattern[10 + 1])
    <3>1. 10 \in c..10
      OBVIOUS
    <3> QED
      BY <1>1, <3>1 DEF Opened
  <2>2. 10 - c < Size(s)
    BY <2>1 DEF Sees
  <2>3. Size(s) \in Nat
    BY DEF Size, Samplings
  <2> QED
    BY <2>2, <2>3
<1>5. /\ seqs \in Seq(Seq(Level)) /\ Len(seqs) = Len(bytes)
      /\ \A i \in 1..Len(bytes) : Piece(seqs[i], bytes[i])
      /\ Reads(s, base, FlattenSeq(seqs))
  BY <1>2 DEF Spelt
<1>6. PICK f : Joined(Level, seqs, f)
  BY <1>5, Flattening
<1> DEFINE n == Len(bytes)
           flat == FlattenSeq(seqs)
<1> HIDE DEF start, base
<1>7. ReadUpTo(s, start, 2, base, f, bytes, n)
  <2>1. 2 \in Nat
    OBVIOUS
  <2> QED
    BY <1>2, <1>3, <1>5, <1>6, <2>1, PiecesRun
<1>8. f[n] = flat /\ flat \in Seq(Level)
  <2>1. n \in Nat /\ n = Len(seqs)
    BY <1>5
  <2> HIDE DEF n, flat
  <2>2. f[n] = FlattenSeq(seqs) /\ f[n] \in Seq(Level)
    BY <2>1, <1>6 DEF Joined
  <2> QED
    BY <2>2 DEF flat
<1> DEFINE m == Len(flat)
<1>9. m \in Nat /\ start + (2 + m) <= Size(s)
  <2>1. m \in Nat
    BY <1>8
  <2>2. \A j \in 1..m : Sees(s, base + (j - 1), flat[j])
    BY <1>5 DEF Reads
  <2> HIDE DEF m, flat
  <2>3. CASE m = 0
    BY <1>2, <1>4, <2>3
  <2>4. CASE m > 0
    <3>1. Sees(s, base + (m - 1), flat[m])
      BY <2>1, <2>2, <2>4
    <3>2. base + (m - 1) < Size(s)
      BY <3>1 DEF Sees
    <3> QED
      BY <1>2, <1>4, <2>1, <3>2 DEF base
  <2> QED
    BY <2>1, <2>3, <2>4
<1>10. PICK bits : /\ Carries(bits, bytes, n)
                   /\ Rests(BulkAfter(s, start, 2 + m), base + m, bits, 0)
  BY <1>7, <1>8 DEF ReadUpTo
<1> HIDE DEF m, flat
<1> DEFINE k == 2 + m
<1>11. k \in Nat /\ start + k <= Size(s) /\ start + k = base + m /\ start + k = (11 - c) + m
  BY <1>2, <1>9 DEF base
<1>12. Rests(BulkAfter(s, start, k), start + k, bits, 0)
  BY <1>10, <1>11
<1> HIDE DEF k
<1>13. SpeltAt(s, start, k, c, bytes, seqs, bits)
  BY <1>10, <1>11, <1>12 DEF SpeltAt, n, m, flat
<1> QED
  BY <1>2, <1>13 DEF start

(* What the pass has at a sample it has from all of them, but for what comes
   behind it. *)
LEMMA SpeltOn ==
  ASSUME NEW s \in Samplings, NEW start \in 1..Size(s), NEW m, NEW c, NEW bytes,
         NEW seqs, NEW bits, SpeltAt(s, start, m, c, bytes, seqs, bits)
  PROVE  /\ DecodeBulk(s, start).bits \in Seq(Bit)
         /\ Begins(bits, DecodeBulk(s, start).bits)
         /\ \E k \in Nat : DecodeBulk(s, start) = BulkAfter(s, start, m + k)
<1>1. m \in Nat /\ start + m <= Size(s) /\ BulkAfter(s, start, m).bits = bits
  BY DEF SpeltAt, Rests
<1>2. Size(s) \in Nat /\ Size(s) = Len(s) /\ start \in Nat /\ start <= Size(s)
  BY DEF Size, Samplings
<1> DEFINE k == Size(s) - (start + m)
<1>3. k \in Nat /\ m + k = Len(s) - start /\ Len(s) - start \in Nat
  BY <1>1, <1>2
<1> HIDE DEF k
<1>4. Begins(BulkAfter(s, start, m).bits, BulkAfter(s, start, m + k).bits)
  BY <1>1, <1>2, <1>3, BulkExtends
<1>5. BulkAfter(s, start, Len(s) - start) \in Accumulator
  BY <1>2, <1>3, BulkSteps
<1>6. DecodeBulk(s, start) = BulkAfter(s, start, m + k)
  BY <1>3 DEF DecodeBulk
<1> QED
  BY <1>1, <1>3, <1>4, <1>5, <1>6 DEF Accumulator

(* The one pass has the bytes, and nothing before them. *)
LEMMA BytesRead ==
  ASSUME NEW s \in Samplings, NEW c \in 0..3, NEW bytes \in Seq(Byte),
         Legibly(s, c, bytes)
  PROVE  /\ FindDataStart(s) # NoStart
         /\ DecodeBulk(s, FindDataStart(s)).bits \in Seq(Bit)
         /\ Begins(bytes, BytesOf(DecodeBulk(s, FindDataStart(s)).bits))
<1> DEFINE start == FindDataStart(s)
           all == DecodeBulk(s, start).bits
<1>1. PICK seqs : Spelt(s, c, bytes, seqs)
  BY DEF Legibly
<1>2. start = 9 - c /\ 9 - c \in 1..Size(s) /\ start # NoStart
      /\ \E m, bits : SpeltAt(s, 9 - c, m, c, bytes, seqs, bits)
  BY <1>1, SpeltRead, Zenon
<1>3. PICK m, bits : SpeltAt(s, start, m, c, bytes, seqs, bits)
  BY <1>2, Zenon
<1>4. start \in 1..Size(s)
  BY <1>2, Zenon
<1> HIDE DEF start
<1>5. all \in Seq(Bit) /\ Begins(bits, all)
  BY <1>3, <1>4, SpeltOn, Zenon
<1>6. Carries(bits, bytes, Len(bytes))
  BY <1>3, Zenon DEF SpeltAt
<1> HIDE DEF all
<1>7. Begins(bytes, BytesOf(all))
  BY <1>5, <1>6, CarriedBytes
<1> QED
  BY <1>2, <1>5, <1>7 DEF all, start

(* The bus rises as it floats, and its rises are no bits. *)
LEMMA FloatsSilent ==
  ASSUME NEW s \in Samplings, NEW at \in Nat, Floats(s, at),
         NEW acc \in Accumulator, acc.at >= at
  PROVE  BulkNext(acc, s).bits = acc.bits /\ BulkNext(acc, s).at >= at
         /\ BulkNext(acc, s) \in Accumulator
<1> DEFINE level == At(s, acc.at)
<1>1. BulkNext(acc, s) \in Accumulator
  BY BulkNextType
<1>2. CASE acc.over \/ acc.at >= Len(s)
  BY <1>1, <1>2 DEF BulkNext
<1>3. CASE ~(acc.over \/ acc.at >= Len(s))
  <2>1. BulkNext(acc, s) = BulkSample(acc, level)
    BY <1>3 DEF BulkNext
  <2>2. acc.at \in Nat /\ acc.bits \in Seq(Bit) /\ Len(s) \in Nat /\ Size(s) = Len(s)
    BY DEF Accumulator, Samplings, Size
  <2>3. level = Floating
    <3>1. acc.at < Size(s)
      BY <1>3, <2>2
    <3> QED
      BY <2>2, <3>1 DEF Floats
  <2>4. \A seen : BitAt(acc.last, level, seen) = <<>>
    BY <2>3 DEF BitAt, Floating
  <2>5. acc.bits \o <<>> = acc.bits
    BY <2>2, ConcatEmptySeq
  <2> HIDE DEF level
  <2>6. /\ BulkSample(acc, level).bits = acc.bits
        /\ BulkSample(acc, level).at = acc.at \/ BulkSample(acc, level).at = acc.at + 1
    <3> DEFINE quiet == IF level = acc.last THEN acc.quiet + 1 ELSE 0
               seen == acc.seen /\ ~(level # Idle /\ acc.idle > Gap)
    <3>1. CASE quiet > EndIdle /\ acc.bits # <<>>
      <4>1. BulkSample(acc, level) = [acc EXCEPT !.over = TRUE]
        BY <3>1, Zenon DEF BulkSample
      <4> HIDE DEF quiet
      <4> QED
        BY <4>1 DEF Accumulator
    <3>2. CASE ~(quiet > EndIdle /\ acc.bits # <<>>)
      <4>1. /\ BulkSample(acc, level).bits = acc.bits \o BitAt(acc.last, level, seen)
            /\ BulkSample(acc, level).at = acc.at + 1
        <5>1. BulkSample(acc, level) =
                [at |-> acc.at + 1, last |-> level, quiet |-> quiet, over |-> FALSE,
                 idle |-> IF level = Idle THEN acc.idle + 1 ELSE 0,
                 seen |-> seen \/ "A" \in acc.last \ level,
                 bits |-> acc.bits \o BitAt(acc.last, level, seen)]
          BY <3>2, Zenon DEF BulkSample
        <5> DEFINE at1 == acc.at + 1
                   idle1 == IF level = Idle THEN acc.idle + 1 ELSE 0
                   seen1 == seen \/ "A" \in acc.last \ level
                   bits1 == acc.bits \o BitAt(acc.last, level, seen)
        <5> HIDE DEF quiet, seen, at1, idle1, seen1, bits1
        <5>2. BulkSample(acc, level) =
                [at |-> at1, last |-> level, quiet |-> quiet, over |-> FALSE,
                 idle |-> idle1, seen |-> seen1, bits |-> bits1]
          BY <5>1, Zenon DEF at1, idle1, seen1, bits1
        <5>3. BulkSample(acc, level).bits = bits1 /\ BulkSample(acc, level).at = at1
          BY <5>2
        <5> QED
          BY <5>3 DEF at1, bits1
      <4> HIDE DEF quiet, seen
      <4> QED
        BY <2>4, <2>5, <4>1, Zenon
    <3> QED
      BY <3>1, <3>2, Zenon
  <2>7. BulkNext(acc, s).at >= at
    BY <2>1, <2>2, <2>6
  <2> QED
    BY <1>1, <2>1, <2>6, <2>7, Zenon
<1> QED
  BY <1>2, <1>3

(* Of bytes that stop, it has them and no more. *)
LEMMA StoppedRead ==
  ASSUME NEW s \in Samplings, NEW c \in 0..3, NEW bytes \in Seq(Byte),
         Stopped(s, c, bytes)
  PROVE  /\ FindDataStart(s) # NoStart
         /\ BytesOf(DecodeBulk(s, FindDataStart(s)).bits) = bytes
<1> DEFINE start == FindDataStart(s)
           all == DecodeBulk(s, start).bits
           after(n) == BulkAfter(s, start, n)
<1>1. PICK seqs : /\ Spelt(s, c, bytes, seqs)
                  /\ Floats(s, (11 - c) + Len(FlattenSeq(seqs)))
  BY DEF Stopped
<1>2. start = 9 - c /\ 9 - c \in 1..Size(s) /\ start # NoStart
      /\ \E m, bits : SpeltAt(s, 9 - c, m, c, bytes, seqs, bits)
  BY <1>1, SpeltRead, Zenon
<1>3. PICK m, bits : SpeltAt(s, start, m, c, bytes, seqs, bits)
  BY <1>2, Zenon
<1>4. start \in 1..Size(s) /\ start \in Nat
  <2>1. start \in 1..Size(s)
    BY <1>2, Zenon
  <2>2. Size(s) \in Nat
    BY DEF Size, Samplings
  <2> HIDE DEF start
  <2> QED
    BY <2>1, <2>2
<1> HIDE DEF start
<1>5. PICK k \in Nat : DecodeBulk(s, start) = after(m + k)
  BY <1>3, <1>4, SpeltOn, Zenon
<1>6. /\ m \in Nat /\ Floats(s, start + m) /\ Carries(bits, bytes, Len(bytes))
      /\ after(m).bits = bits /\ after(m).at = start + m /\ start + m \in Nat
      /\ after(m) \in Accumulator
  <2>1. m \in Nat /\ Floats(s, start + m) /\ Carries(bits, bytes, Len(bytes))
        /\ after(m).bits = bits /\ after(m).at = start + m /\ after(m) \in Accumulator
    BY <1>1, <1>3, Zenon DEF SpeltAt, Rests
  <2> QED
    BY <1>4, <2>1
<1> DEFINE Good == {i \in Nat : /\ after(m + i) \in Accumulator
                                /\ after(m + i).bits = bits
                                /\ after(m + i).at >= start + m}
<1> HIDE DEF after
<1>7. 0 \in Good
  <2>1. m + 0 = m
    BY <1>6
  <2>2. after(m).at >= start + m
    BY <1>6
  <2>3. after(m + 0) = after(m)
    BY <2>1, Zenon
  <2> QED
    BY <1>6, <2>2, <2>3
<1>8. \A i \in Nat : i \in Good => i + 1 \in Good
  <2> SUFFICES ASSUME NEW i \in Nat, i \in Good PROVE i + 1 \in Good
    OBVIOUS
  <2>1. m + i \in Nat /\ m + (i + 1) = (m + i) + 1
    BY <1>6
  <2>2. /\ after(m + i) \in Accumulator /\ after(m + i).bits = bits
        /\ after(m + i).at >= start + m
    OBVIOUS
  <2>3. after((m + i) + 1) = BulkNext(after(m + i), s)
    BY <1>4, <2>1, BulkSteps DEF after
  <2>4. /\ BulkNext(after(m + i), s).bits = bits
        /\ BulkNext(after(m + i), s).at >= start + m
        /\ BulkNext(after(m + i), s) \in Accumulator
    BY <1>6, <2>2, FloatsSilent
  <2>5. after(m + (i + 1)) = BulkNext(after(m + i), s)
    BY <2>1, <2>3, Zenon
  <2> QED
    BY <2>4, <2>5
<1>9. \A i \in Nat : i \in Good
  <2> HIDE DEF Good
  <2> QED
    BY <1>7, <1>8, AllNaturals
<1>10. all = bits /\ bits \in Seq(Bit)
  <2>1. after(m + k).bits = bits
    BY <1>9
  <2> QED
    BY <1>5, <1>6, <2>1 DEF Accumulator
<1>11. BytesOf(bits) = bytes
  <2>1. Begins(bits, bits)
    BY <1>10 DEF Begins
  <2>2. Begins(bytes, BytesOf(bits))
    BY <1>6, <1>10, <2>1, CarriedBytes
  <2>3. BytesOf(bits) \in Seq(Byte) /\ Len(BytesOf(bits)) = Len(bits) \div 8
    BY <1>10, BytesOfType
  <2>4. Len(bits) = 8 * Len(bytes)
    BY <1>6 DEF Carries
  <2> DEFINE n == Len(bytes)
  <2>5. n \in Nat /\ Len(bits) = 8 * n
    BY <2>4
  <2> HIDE DEF n
  <2>6. Len(bits) \div 8 = n
    BY <2>5
  <2>7. Len(BytesOf(bits)) = Len(bytes)
    BY <2>3, <2>6 DEF n
  <2>8. \A i \in 1..Len(bytes) : BytesOf(bits)[i] = bytes[i]
    BY <2>2 DEF Begins
  <2> QED
    BY <2>3, <2>7, <2>8, SeqEqual
<1> QED
  BY <1>2, <1>10, <1>11 DEF start, all

(* What arrives of bytes that stop. *)
Arrived(bytes, stop) == SubSeq(bytes, 1, SmallerOf(Len(bytes), stop))

(* They are bytes, those there were. *)
LEMMA ArrivedType ==
  ASSUME NEW bytes \in Seq(Byte), NEW stop \in Nat
  PROVE  /\ Arrived(bytes, stop) \in Seq(Byte)
         /\ Len(Arrived(bytes, stop)) = SmallerOf(Len(bytes), stop)
         /\ SmallerOf(Len(bytes), stop) \in 0..Len(bytes)
         /\ \A i \in 1..SmallerOf(Len(bytes), stop) : Arrived(bytes, stop)[i] = bytes[i]
<1> DEFINE n == Len(bytes)
           m == SmallerOf(n, stop)
<1>1. n \in Nat
  OBVIOUS
<1> HIDE DEF n
<1>2. m \in 0..n
  BY <1>1 DEF SmallerOf
<1> HIDE DEF m
<1>3. /\ SubSeq(bytes, 1, m) \in Seq(Byte) /\ Len(SubSeq(bytes, 1, m)) = m
      /\ \A i \in 1..m : SubSeq(bytes, 1, m)[i] = bytes[i]
  BY <1>1, <1>2 DEF n
<1> QED
  BY <1>2, <1>3 DEF Arrived, m, n

(* Of a reply that is captured from its start, with no pause that ends it, all
   its bytes are there that arrive. *)
LEMMA WireLegible ==
  ASSUME NEW bytes \in Seq(Byte), NEW f \in Faulted, f.lead = <<>>, f.clip \in 0..3,
         f.at \in 1..Len(bytes) => f.pause < EndIdle,
         NEW s \in Samplings, Begins(OnTheWire(bytes, f), s)
  PROVE  /\ Legibly(s, f.clip, Arrived(bytes, f.stop))
         /\ (f.stop < Len(bytes) /\ Floats(s, Len(OnTheWire(bytes, f))))
              => Stopped(s, f.clip, Arrived(bytes, f.stop))
<1> DEFINE c == f.clip
           m == f.pause
           n == SmallerOf(Len(bytes), f.stop)
           gap == [j \in 1..m |-> Idle]
           piece(i) == (IF i = f.at THEN gap ELSE <<>>) \o ByteSteps(bytes[i])
           seqs == [i \in 1..n |-> piece(i)]
           opening == SubSeq(StartPattern, c + 1, Len(StartPattern))
           ending == IF f.stop < Len(bytes) THEN <<>> ELSE EndPattern
           middle == FlattenSeq(seqs)
           w == OnTheWire(bytes, f)
<1>1. /\ c \in 0..3 /\ m \in Nat /\ f.stop \in Nat
  BY DEF Faulted
<1>2. /\ n \in 0..Len(bytes) /\ n \in Nat /\ Len(Arrived(bytes, f.stop)) = n
      /\ \A i \in 1..n : Arrived(bytes, f.stop)[i] = bytes[i]
  <2>1. /\ n \in 0..Len(bytes) /\ Len(Arrived(bytes, f.stop)) = n
        /\ \A i \in 1..n : Arrived(bytes, f.stop)[i] = bytes[i]
    BY <1>1, ArrivedType, Zenon
  <2> HIDE DEF n
  <2>2. n \in Nat
    BY <2>1
  <2> QED
    BY <2>1, <2>2, Zenon
<1>3. StartPattern \in Seq(Level) /\ EndPattern \in Seq(Level) /\ Idle \in Level
      /\ <<>> \in Seq(Level) /\ Len(StartPattern) = 11
  BY DEF StartPattern, EndPattern, Idle, Level, Floating
<1>4. /\ opening \in Seq(Level) /\ Len(opening) = 11 - c
      /\ \A i \in 1..(11 - c) : opening[i] = StartPattern[c + i]
  <2> DEFINE q == StartPattern
  <2>1. q \in Seq(Level) /\ Len(q) = 11
    BY <1>3
  <2> HIDE DEF q, c
  <2>2. c + 1 \in 1..11 /\ 11 \in 1..11
    BY <1>1
  <2> DEFINE k == 11 - c
  <2>3. k \in 8..11 /\ c + k = 11 /\ c \in Nat
    BY <1>1
  <2> HIDE DEF k
  <2> DEFINE o == SubSeq(q, c + 1, c + k)
  <2>4. o \in Seq(Level) /\ Len(o) = k
    <3> DEFINE a == c + 1
               e == c + k
    <3>1. a \in Int /\ e \in Int /\ a <= e /\ e - a + 1 = k /\ \A i \in a..e : i \in 1..11
      BY <2>3
    <3> HIDE DEF a, e
    <3>2. \A i \in a..e : q[i] \in Level
      <4>1. \A i \in 1..11 : q[i] \in Level
        BY <2>1, ElementOfSeq
      <4> QED
        BY <3>1, <4>1
    <3>3. /\ SubSeq(q, a, e) \in Seq(Level)
          /\ Len(SubSeq(q, a, e)) = IF a <= e THEN e - a + 1 ELSE 0
      BY <3>1, <3>2, SubSeqProperties
    <3>4. Len(SubSeq(q, a, e)) = k
      BY <3>1, <3>3, Zenon
    <3> QED
      BY <3>3, <3>4 DEF a, e
  <2>5. \A i \in 1..k : o[i] = q[c + i]
    BY <2>1, <2>2, <2>3
  <2>6. opening = o
    BY <1>3, <2>3 DEF q
  <2> HIDE DEF o, opening
  <2> QED
    BY <2>4, <2>5, <2>6 DEF k, q
<1>5. Pausing(gap, m) /\ Pausing(<<>>, 0)
  <2>1. gap \in Seq(Level) /\ Len(gap) = m /\ \A j \in 1..m : gap[j] = Idle
    <3> HIDE DEF m
    <3> QED
      BY <1>1, <1>3
  <2>2. Len(<<>>) = 0 /\ \A j \in 1..0 : <<>>[j] = Idle
    OBVIOUS
  <2> QED
    BY <1>3, <2>1, <2>2 DEF Pausing, Samplings
<1> HIDE DEF c, m, n, gap, opening
<1>6. \A i \in 1..n : Piece(piece(i), bytes[i]) /\ piece(i) \in Seq(Level)
  <2> SUFFICES ASSUME NEW i \in 1..n
               PROVE  Piece(piece(i), bytes[i]) /\ piece(i) \in Seq(Level)
    OBVIOUS
  <2>1. CASE i = f.at
    <3>1. i \in 1..Len(bytes)
      BY <1>2
    <3>2. m < EndIdle /\ piece(i) = gap \o ByteSteps(bytes[i])
      BY <2>1, <3>1 DEF m
    <3> QED
      BY <1>1, <1>5, <3>2, PieceLength DEF Piece, Pausing
  <2>2. CASE i # f.at
    <3>1. 0 < EndIdle /\ 0 \in Nat /\ piece(i) = <<>> \o ByteSteps(bytes[i])
      BY <2>2, MapleWireAssumption
    <3> QED
      BY <1>5, <3>1, PieceLength DEF Piece, Pausing
  <2> QED
    BY <2>1, <2>2
<1>7. seqs \in Seq(Seq(Level)) /\ Len(seqs) = n /\ \A i \in 1..n : seqs[i] = piece(i)
  <2> HIDE DEF piece
  <2> QED
    BY <1>2, <1>6, IsASeq
<1>8. middle \in Seq(Level)
  <2> HIDE DEF seqs
  <2> QED
    BY <1>7, FlattenType
<1>9. ending \in Seq(Level)
  BY <1>3
<1>10. w = ((<<>> \o opening) \o middle) \o ending
  BY DEF OnTheWire, n, m, c, gap, opening
<1> HIDE DEF seqs, middle, ending
<1>11. /\ w \in Seq(Level) /\ Len(w) >= (11 - c) + Len(middle)
       /\ ending = <<>> => Len(w) = (11 - c) + Len(middle)
       /\ \A i \in 1..(11 - c) : w[i] = opening[i]
       /\ \A i \in 1..Len(middle) : w[(11 - c) + i] = middle[i]
  <2> HIDE DEF w
  <2> DEFINE p == opening \o middle
  <2>1. w = p \o ending
    <3>1. <<>> \o opening = opening
      BY <1>4, ConcatEmptySeq
    <3> QED
      BY <1>10, <3>1
  <2>2. /\ p \in Seq(Level) /\ Len(p) = Len(opening) + Len(middle)
        /\ \A i \in 1..Len(opening) + Len(middle) :
             p[i] = IF i <= Len(opening) THEN opening[i] ELSE middle[i - Len(opening)]
    BY <1>4, <1>8, ConcatProperties
  <2> HIDE DEF p
  <2> DEFINE v == p \o ending
  <2>9. p \in Seq(Level) /\ ending \in Seq(Level)
    BY <1>9, <2>2
  <2>10. /\ v \in Seq(Level) /\ Len(v) = Len(p) + Len(ending)
         /\ \A i \in 1..Len(p) + Len(ending) :
              v[i] = IF i <= Len(p) THEN p[i] ELSE ending[i - Len(p)]
    BY <2>9, ConcatProperties
  <2>11. w = v
    BY <2>1
  <2> HIDE DEF v
  <2>3. /\ w \in Seq(Level) /\ Len(w) = Len(p) + Len(ending)
        /\ \A i \in 1..Len(p) + Len(ending) :
             w[i] = IF i <= Len(p) THEN p[i] ELSE ending[i - Len(p)]
    BY <2>10, <2>11, Zenon
  <2> DEFINE a == Len(opening)
             b == Len(middle)
             e == Len(ending)
             d == Len(p)
  <2>4. a \in Nat /\ b \in Nat /\ e \in Nat /\ a = 11 - c /\ d = a + b
    BY <1>4, <1>8, <1>9, <2>2
  <2>5. /\ Len(w) = d + e
        /\ \A i \in 1..(d + e) : w[i] = IF i <= d THEN p[i] ELSE ending[i - d]
        /\ \A i \in 1..(a + b) : p[i] = IF i <= a THEN opening[i] ELSE middle[i - a]
    BY <2>2, <2>3
  <2>12. ending = <<>> => e = 0
    OBVIOUS
  <2> HIDE DEF a, b, e, d
  <2>13. ending = <<>> => Len(w) = a + b
    BY <2>4, <2>5, <2>12
  <2>6. Len(w) >= a + b /\ \A i \in 1..(a + b) : w[i] = p[i]
    <3>1. Len(w) >= a + b
      BY <2>4, <2>5
    <3> SUFFICES ASSUME NEW i \in 1..(a + b) PROVE w[i] = p[i]
      BY <3>1
    <3>2. i \in 1..(d + e) /\ i <= d
      BY <2>4
    <3> QED
      BY <2>5, <3>2
  <2>7. \A i \in 1..a : w[i] = opening[i]
    BY <2>4, <2>5, <2>6
  <2>8. \A i \in 1..b : w[a + i] = middle[i]
    <3> SUFFICES ASSUME NEW i \in 1..b PROVE w[a + i] = middle[i]
      OBVIOUS
    <3>1. a + i \in 1..(a + b) /\ ~(a + i <= a) /\ (a + i) - a = i
      BY <2>4
    <3>2. p[a + i] = middle[(a + i) - a]
      BY <2>5, <3>1
    <3> QED
      BY <2>6, <3>1, <3>2
  <2> QED
    BY <2>3, <2>4, <2>6, <2>7, <2>8, <2>13 DEF b
<1> DEFINE b == Len(middle)
           d == Len(w)
<1>12. d \in Nat /\ b \in Nat /\ d >= (11 - c) + b
  BY <1>8, <1>11
<1>13. \A i \in 1..d : Sees(s, i - 1, w[i])
  <2> DEFINE z == Size(s)
  <2>1. z \in Nat /\ d <= z /\ \A i \in 1..d : s[i] = w[i]
    BY DEF Begins, Size, Samplings
  <2> HIDE DEF z, d, w
  <2> SUFFICES ASSUME NEW i \in 1..d PROVE Sees(s, i - 1, w[i])
    OBVIOUS
  <2>2. i - 1 < z /\ (i - 1) + 1 = i
    BY <1>12, <2>1
  <2>3. At(s, i - 1) = s[i]
    BY <2>2 DEF At
  <2> QED
    BY <2>1, <2>2, <2>3 DEF Sees, z
<1> HIDE DEF w, d
<1>14. Opened(s, c)
  <2> SUFFICES ASSUME NEW p \in c..10 PROVE Sees(s, p - c, StartPattern[p + 1])
    BY DEF Opened
  <2> DEFINE i == (p - c) + 1
  <2>1. i \in 1..(11 - c) /\ i - 1 = p - c /\ c + i = p + 1 /\ i \in 1..d
    BY <1>1, <1>12
  <2> HIDE DEF i
  <2>2. w[i] = StartPattern[p + 1]
    BY <1>4, <1>11, <2>1
  <2> QED
    BY <1>13, <2>1, <2>2
<1>15. Reads(s, 11 - c, middle)
  <2> SUFFICES ASSUME NEW j \in 1..Len(middle)
               PROVE  Sees(s, (11 - c) + (j - 1), middle[j])
    BY DEF Reads
  <2> DEFINE i == (11 - c) + j
  <2>1. j \in 1..b
    OBVIOUS
  <2> HIDE DEF b
  <2>2. i \in 1..d /\ i - 1 = (11 - c) + (j - 1)
    BY <1>1, <1>12, <2>1
  <2>3. w[i] = middle[j]
    BY <1>11
  <2> HIDE DEF i
  <2> QED
    BY <1>13, <2>2, <2>3
<1>16. \A i \in 1..Len(Arrived(bytes, f.stop)) : Piece(seqs[i], Arrived(bytes, f.stop)[i])
  <2> SUFFICES ASSUME NEW i \in 1..Len(Arrived(bytes, f.stop))
               PROVE  Piece(seqs[i], Arrived(bytes, f.stop)[i])
    OBVIOUS
  <2> HIDE DEF n, piece
  <2>1. i \in 1..n
    BY <1>2
  <2>2. Piece(piece(i), bytes[i]) /\ seqs[i] = piece(i)
    BY <1>6, <1>7, <2>1
  <2>3. Arrived(bytes, f.stop)[i] = bytes[i]
    BY <1>2, <2>1
  <2> QED
    BY <2>2, <2>3, Zenon
<1>17. Spelt(s, c, Arrived(bytes, f.stop), seqs)
  BY <1>2, <1>7, <1>14, <1>15, <1>16 DEF Spelt, middle
<1>18. Legibly(s, c, Arrived(bytes, f.stop))
  BY <1>17, Zenon DEF Legibly
<1>19. ASSUME f.stop < Len(bytes), Floats(s, d)
       PROVE  Stopped(s, c, Arrived(bytes, f.stop))
  <2>1. ending = <<>>
    BY <1>19 DEF ending
  <2>2. d = (11 - c) + b
    BY <1>11, <2>1, Zenon DEF d, b
  <2> QED
    BY <1>17, <1>19, <2>2, Zenon DEF Stopped, b, middle
<1> QED
  BY <1>18, <1>19 DEF c, d, w

(* The bytes with a one in the i-th place, and whether their number is odd. *)
Column(bytes, i) == {j \in DOMAIN bytes : BitsOf(bytes[j])[i] = 1}
Parity(bytes, i) == Cardinality(Column(bytes, i)) % 2

(* A column is finite. *)
LEMMA ColumnFinite ==
  ASSUME NEW bytes \in Seq(Byte), NEW i
  PROVE  /\ IsFiniteSet(Column(bytes, i)) /\ Cardinality(Column(bytes, i)) \in Nat
         /\ Column(bytes, i) \subseteq 1..Len(bytes) /\ Parity(bytes, i) \in Bit
<1>1. IsFiniteSet(1..Len(bytes))
  <2>1. Len(bytes) \in Nat
    OBVIOUS
  <2> QED
    BY <2>1, FS_Interval
<1>2. Column(bytes, i) \subseteq 1..Len(bytes)
  BY DEF Column
<1>3. IsFiniteSet(Column(bytes, i)) /\ Cardinality(Column(bytes, i)) \in Nat
  BY <1>1, <1>2, FS_Subset, FS_CardinalityType
<1>4. \A n \in Nat : n % 2 \in {0, 1}
  OBVIOUS
<1> QED
  BY <1>2, <1>3, <1>4 DEF Parity, Bit

(* The checksum's bits are the parities. *)
LEMMA CrcBits ==
  ASSUME NEW bytes \in Seq(Byte)
  PROVE  \A i \in 1..8 : BitsOf(Crc(bytes))[i] = Parity(bytes, i)
<1> DEFINE b == [i \in 1..8 |-> Parity(bytes, i)]
<1>1. \A i \in 1..8 : b[i] = Parity(bytes, i)
  OBVIOUS
<1>2. Crc(bytes) = ByteOf(b)
  BY DEF Crc, Parity, Column
<1> HIDE DEF b
<1>3. Octet(b)
  BY <1>1, ColumnFinite DEF Octet
<1> QED
  BY <1>1, <1>2, <1>3, BitsOfItsByte

(* It is zero if, and only if, they all are. *)
LEMMA CrcZero ==
  ASSUME NEW bytes \in Seq(Byte)
  PROVE  Crc(bytes) = 0 <=> \A i \in 1..8 : Parity(bytes, i) = 0
<1>1. Crc(bytes) \in Byte /\ 0 \in Byte
  BY CrcType DEF Byte
<1>2. \A i \in 1..8 : BitsOf(0)[i] = 0
  <2>1. \A i \in 1..8 : Weight[i] \in Nat \ {0}
    BY DEF Weight
  <2>2. \A w \in Nat \ {0} : (0 \div w) % 2 = 0
    OBVIOUS
  <2> QED
    BY <2>1, <2>2 DEF BitsOf
<1>3. ASSUME Crc(bytes) = 0 PROVE \A i \in 1..8 : Parity(bytes, i) = 0
  BY <1>2, <1>3, CrcBits
<1>4. ASSUME \A i \in 1..8 : Parity(bytes, i) = 0 PROVE Crc(bytes) = 0
  <2> DEFINE x == Crc(bytes)
  <2>1. \A i \in 1..8 : BitsOf(x)[i] = 0
    BY <1>4, CrcBits
  <2>2. ByteOf(BitsOf(x)) = x
    BY <1>1, ByteOfItsBits
  <2> HIDE DEF x
  <2>3. /\ BitsOf(x)[1] = 0 /\ BitsOf(x)[2] = 0 /\ BitsOf(x)[3] = 0 /\ BitsOf(x)[4] = 0
        /\ BitsOf(x)[5] = 0 /\ BitsOf(x)[6] = 0 /\ BitsOf(x)[7] = 0 /\ BitsOf(x)[8] = 0
    BY <2>1
  <2>4. ByteOf(BitsOf(x)) = 0
    BY <2>3 DEF ByteOf
  <2> QED
    BY <2>2, <2>4 DEF x
<1> QED
  BY <1>3, <1>4

(* A byte in front of nothing. *)
LEMMA ParityOfMore ==
  ASSUME NEW bytes \in Seq(Byte), NEW x \in Byte, NEW i \in 1..8,
         BitsOf(x)[i] = Parity(bytes, i)
  PROVE  Parity(Append(bytes, x), i) = 0
<1> DEFINE n == Len(bytes)
           all == Append(bytes, x)
           C == Column(bytes, i)
           D == Column(all, i)
<1>1. /\ n \in Nat /\ all \in Seq(Byte) /\ Len(all) = n + 1 /\ all[n + 1] = x
      /\ \A j \in 1..n : all[j] = bytes[j]
  OBVIOUS
<1>2. /\ IsFiniteSet(C) /\ Cardinality(C) \in Nat /\ C \subseteq 1..n
  BY ColumnFinite
<1>3. /\ \A j : j \in C <=> j \in 1..n /\ BitsOf(bytes[j])[i] = 1
      /\ \A j : j \in D <=> j \in 1..(n + 1) /\ BitsOf(all[j])[i] = 1
  <2>1. DOMAIN bytes = 1..n /\ DOMAIN all = 1..(n + 1)
    BY <1>1
  <2> HIDE DEF n, all
  <2> QED
    BY <2>1 DEF Column
<1> HIDE DEF n, all, C, D
<1>4. n + 1 \notin C
  BY <1>1, <1>2
<1>5. CASE BitsOf(x)[i] = 1
  <2>1. \A j : j \in D <=> j \in C \/ j = n + 1
    BY <1>1, <1>3, <1>5
  <2>2. D = C \cup {n + 1}
    BY <2>1
  <2>3. Cardinality(D) = Cardinality(C) + 1
    BY <1>2, <1>4, <2>2, FS_AddElement
  <2>4. Cardinality(C) % 2 = 1
    BY <1>5 DEF Parity, C
  <2>5. (Cardinality(C) + 1) % 2 = 0
    BY <1>2, <2>4
  <2> QED
    BY <2>3, <2>5 DEF Parity, D, all
<1>6. CASE BitsOf(x)[i] # 1
  <2>1. \A j : j \in D <=> j \in C
    BY <1>1, <1>3, <1>6
  <2>2. D = C
    BY <2>1
  <2>3. Parity(bytes, i) = 0
    BY <1>6, ColumnFinite DEF Bit
  <2> QED
    BY <2>2, <2>3 DEF Parity, C, D, all
<1> QED
  BY <1>5, <1>6

(* A frame's checksum makes that of the whole zero. *)
LEMMA CrcCloses ==
  ASSUME NEW body \in Seq(Byte)
  PROVE  WithCrc(body) \in Seq(Byte) /\ Crc(WithCrc(body)) = 0
<1>1. Crc(body) \in Byte
  BY CrcType
<1>2. WithCrc(body) \in Seq(Byte)
  BY <1>1 DEF WithCrc
<1>3. \A i \in 1..8 : Parity(WithCrc(body), i) = 0
  BY <1>1, CrcBits, ParityOfMore DEF WithCrc
<1> QED
  BY <1>2, <1>3, CrcZero

(* The bits of a byte with one of them wrong. *)
LEMMA InvertedBits ==
  ASSUME NEW x \in Byte, NEW at \in 1..8
  PROVE  BitsOf(Inverted(x, at))[at] = 1 - BitsOf(x)[at]
<1> DEFINE b == [BitsOf(x) EXCEPT ![at] = 1 - @]
<1>1. \A j \in 1..8 : BitsOf(x)[j] \in Bit
  BY BitsOfType
<1>2. /\ b[at] = 1 - BitsOf(x)[at]
      /\ \A j \in 1..8 : j # at => b[j] = BitsOf(x)[j]
  <2>1. BitsOf(x) = [j \in 1..8 |-> BitsOf(x)[j]]
    BY DEF BitsOf
  <2> QED
    BY <2>1
<1>3. Inverted(x, at) = ByteOf(b)
  BY DEF Inverted
<1> HIDE DEF b
<1>4. Octet(b)
  <2>1. \A y \in Bit : 1 - y \in Bit
    BY DEF Bit
  <2> QED
    BY <1>1, <1>2, <2>1 DEF Octet
<1>5. BitsOf(ByteOf(b))[at] = b[at]
  BY <1>4, BitsOfItsByte
<1> QED
  BY <1>2, <1>3, <1>5

(* One wrong bit turns its column. *)
LEMMA ParityTurns ==
  ASSUME NEW bytes \in Seq(Byte), NEW k \in 1..Len(bytes), NEW y \in Byte,
         NEW i \in 1..8, BitsOf(y)[i] = 1 - BitsOf(bytes[k])[i]
  PROVE  Parity([bytes EXCEPT ![k] = y], i) = 1 - Parity(bytes, i)
<1> DEFINE n == Len(bytes)
           all == [bytes EXCEPT ![k] = y]
           C == Column(bytes, i)
           D == Column(all, i)
<1>1. /\ all[k] = y /\ \A j \in 1..n : j # k => all[j] = bytes[j]
      /\ DOMAIN bytes = 1..n /\ DOMAIN all = 1..n
  OBVIOUS
<1>2. IsFiniteSet(C) /\ Cardinality(C) \in Nat
  BY ColumnFinite
<1>3. k \in 1..n
  OBVIOUS
<1>4. BitsOf(bytes[k])[i] \in {0, 1}
  BY BitsOfType DEF Bit
<1>5. /\ \A j : j \in C <=> j \in 1..n /\ BitsOf(bytes[j])[i] = 1
      /\ \A j : j \in D <=> j \in 1..n /\ BitsOf(all[j])[i] = 1
  <2> HIDE DEF n, all
  <2> QED
    BY <1>1 DEF Column
<1> HIDE DEF n, all, C, D
<1>6. \A j : j # k => (j \in C <=> j \in D)
  BY <1>1, <1>5
<1>7. CASE BitsOf(bytes[k])[i] = 1
  <2>1. k \in C /\ k \notin D
    BY <1>1, <1>3, <1>5, <1>7
  <2>2. D = C \ {k}
    BY <1>6, <2>1
  <2>3. Cardinality(D) = Cardinality(C) - 1 /\ Cardinality(D) \in Nat
    <3>1. IsFiniteSet(D) /\ Cardinality(D) = Cardinality(C) - 1
      BY <1>2, <2>1, <2>2, FS_RemoveElement
    <3>2. Cardinality(D) \in Nat
      BY <3>1, FS_CardinalityType
    <3> QED
      BY <3>1, <3>2
  <2>4. Cardinality(D) % 2 = 1 - (Cardinality(C) % 2)
    BY <1>2, <2>3
  <2> QED
    BY <2>4 DEF Parity, C, D, all
<1>8. CASE BitsOf(bytes[k])[i] # 1
  <2>1. k \notin C /\ k \in D
    BY <1>1, <1>3, <1>4, <1>5, <1>8
  <2>2. D = C \cup {k}
    BY <1>6, <2>1
  <2>3. Cardinality(D) = Cardinality(C) + 1
    BY <1>2, <2>1, <2>2, FS_AddElement
  <2>4. Cardinality(D) % 2 = 1 - (Cardinality(C) % 2)
    BY <1>2, <2>3
  <2> QED
    BY <2>4 DEF Parity, C, D, all
<1> QED
  BY <1>7, <1>8

(* A wrong bit behind the length leaves the length, and not the checksum. *)
LEMMA FlippedShows ==
  ASSUME NEW bytes \in Seq(Byte), NEW bit \in Nat, bit \notin 1..8
  PROVE  /\ Len(Flipped(bytes, bit)) = Len(bytes)
         /\ Len(bytes) >= 1 => Flipped(bytes, bit)[1] = bytes[1]
         /\ bit \notin 1..(8 * Len(bytes)) => Flipped(bytes, bit) = bytes
         /\ (bit \in 1..(8 * Len(bytes)) /\ Crc(bytes) = 0) => Crc(Flipped(bytes, bit)) # 0
<1> DEFINE n == Len(bytes)
           i == (bit + 7) \div 8
           at == ((bit - 1) % 8) + 1
           all == [bytes EXCEPT ![i] = Inverted(bytes[i], at)]
<1>1. n \in Nat
  OBVIOUS
<1>2. Flipped(bytes, bit) = IF bit \notin 1..(8 * n) THEN bytes ELSE all
  BY DEF Flipped
<1>3. CASE bit \notin 1..(8 * n)
  <2>1. Flipped(bytes, bit) = bytes
    BY <1>2, <1>3
  <2> QED
    BY <1>3, <2>1
<1>4. CASE bit \in 1..(8 * n)
  <2>1. i \in 2..n /\ at \in 1..8
    <3> HIDE DEF n
    <3> QED
      BY <1>1, <1>4
  <2> HIDE DEF i, at
  <2>2. i \in 1..n /\ i # 1 /\ bytes[i] \in Byte
    BY <2>1
  <2>3. Len(all) = n /\ (n >= 1 => all[1] = bytes[1])
    BY <2>2
  <2>4. ASSUME Crc(bytes) = 0 PROVE Crc(all) # 0
    <3>1. Inverted(bytes[i], at) \in Byte
      BY <2>2, InvertedType
    <3>2. BitsOf(Inverted(bytes[i], at))[at] = 1 - BitsOf(bytes[i])[at]
      BY <2>1, <2>2, InvertedBits
    <3>3. Parity(all, at) = 1 - Parity(bytes, at)
      BY <2>1, <2>2, <3>1, <3>2, ParityTurns
    <3>4. Parity(bytes, at) = 0
      BY <2>1, <2>4, CrcZero
    <3>5. Parity(all, at) # 0
      BY <3>3, <3>4
    <3>6. all \in Seq(Byte)
      BY <2>2, <3>1, ExceptSeq
    <3> HIDE DEF all
    <3> QED
      BY <2>1, <3>5, <3>6, CrcZero
  <2>5. Flipped(bytes, bit) = all
    BY <1>2, <1>4
  <2> HIDE DEF all
  <2> QED
    BY <1>4, <2>3, <2>4, <2>5
<1> QED
  BY <1>3, <1>4

(* The bytes of a packet's frame. *)
Framed(p, bytes) ==
  /\ bytes \in Seq(Byte) /\ Len(bytes) = FrameLen(Len(p.payload))
  /\ bytes[1] = Len(p.payload) /\ bytes[2] = p.sender /\ bytes[3] = p.recipient
  /\ bytes[4] = p.command
  /\ \A w \in 1..Len(p.payload), j \in 1..4 : bytes[4 * w + j] = p.payload[w][j]
  /\ Crc(bytes) = 0

(* A word is a sequence of four bytes. *)
LEMMA WordType ==
  ASSUME NEW w \in [1..4 -> Byte]
  PROVE  w \in Seq(Byte) /\ Len(w) = 4
<1> DEFINE e(i) == w[i]
<1>1. w = [i \in 1..4 |-> e(i)] /\ \A i \in 1..4 : e(i) \in Byte
  OBVIOUS
<1> HIDE DEF e
<1>2. [i \in 1..4 |-> e(i)] \in Seq(Byte) /\ Len([i \in 1..4 |-> e(i)]) = 4
  BY <1>1, IsASeq
<1> QED
  BY <1>1, <1>2

(* The words of a payload, one behind the other. *)
LEMMA WordsFlat ==
  ASSUME NEW words \in Seq([1..4 -> Byte])
  PROVE  /\ FlattenSeq(words) \in Seq(Byte) /\ Len(FlattenSeq(words)) = 4 * Len(words)
         /\ \A w \in 1..Len(words), j \in 1..4 :
              FlattenSeq(words)[4 * (w - 1) + j] = words[w][j]
<1> DEFINE n == Len(words)
           flat == FlattenSeq(words)
<1>1. \A w \in [1..4 -> Byte] : w \in Seq(Byte) /\ Len(w) = 4
  BY WordType
<1>2. words \in Seq(Seq(Byte))
  <2>1. [1..4 -> Byte] \subseteq Seq(Byte)
    BY <1>1
  <2> QED
    BY <2>1, SeqMonotonic
<1>3. n \in Nat /\ \A w \in 1..n : Len(words[w]) = 4
  BY <1>1
<1>4. PICK f : Joined(Byte, words, f)
  BY <1>2, Flattening
<1>5. Placed(words, f, flat)
  BY <1>2, <1>4, JoinedAt
<1>6. /\ f[0] = <<>> /\ f[n] = flat /\ flat \in Seq(Byte)
      /\ \A w \in 1..n : Len(f[w]) = Len(f[w - 1]) + 4
      /\ \A w \in 1..n, j \in 1..4 : flat[Len(f[w - 1]) + j] = words[w][j]
  <2>1. f[0] = <<>> /\ f[n] = flat
    BY <1>4, Zenon DEF Joined
  <2>2. flat \in Seq(Byte)
    BY <1>2, FlattenType
  <2>3. \A w \in 1..n : /\ Len(f[w]) = Len(f[w - 1]) + Len(words[w])
                        /\ \A j \in 1..Len(words[w]) : flat[Len(f[w - 1]) + j] = words[w][j]
    BY <1>5, Zenon DEF Placed
  <2> HIDE DEF n, flat
  <2> QED
    BY <1>3, <2>1, <2>2, <2>3
<1> HIDE DEF n, flat
<1> DEFINE Good == {k \in Nat : k <= n => Len(f[k]) = 4 * k}
<1>7. 0 \in Good
  BY <1>6
<1>8. \A k \in Nat : k \in Good => k + 1 \in Good
  <2> SUFFICES ASSUME NEW k \in Nat, k + 1 <= n, Len(f[k]) = 4 * k
               PROVE  Len(f[k + 1]) = 4 * (k + 1)
    BY <1>3
  <2>1. k + 1 \in 1..n /\ (k + 1) - 1 = k /\ 4 * k + 4 = 4 * (k + 1)
    BY <1>3
  <2> QED
    BY <1>6, <2>1
<1>9. \A k \in Nat : k \in Good
  <2> HIDE DEF Good
  <2> QED
    BY <1>7, <1>8, AllNaturals
<1>10. \A k \in 0..n : Len(f[k]) = 4 * k
  BY <1>3, <1>9
<1>11. \A w \in 1..n : w - 1 \in 0..n
  BY <1>3
<1>12. Len(flat) = 4 * n
  <2>1. n \in 0..n
    BY <1>3
  <2> QED
    BY <1>6, <1>10, <2>1
<1>13. \A w \in 1..n, j \in 1..4 : flat[4 * (w - 1) + j] = words[w][j]
  BY <1>6, <1>10, <1>11
<1> QED
  BY <1>6, <1>12, <1>13 DEF n, flat

(* What is sent of a packet is its frame. *)
LEMMA FrameIs ==
  ASSUME NEW p \in Packets, Len(p.payload) <= MaxWords
  PROVE  Framed(p, FrameBytes(p))
<1> DEFINE words == p.payload
           n == Len(words)
           head == FrameWord(p)
           flat == FlattenSeq(words)
           body == head \o flat
           all == WithCrc(body)
<1>1. words \in Seq([1..4 -> Byte]) /\ n \in Nat
  BY DEF Packets
<1>2. n \in Byte /\ p.sender \in Byte /\ p.recipient \in Byte /\ p.command \in Byte
  <2>1. n <= MaxWords /\ n \in Nat
    BY <1>1
  <2> HIDE DEF n
  <2>2. n \in Byte
    BY <2>1, MapleWireAssumption DEF Byte
  <2> QED
    BY <2>2 DEF Packets
<1>3. /\ head \in Seq(Byte) /\ Len(head) = 4 /\ head[1] = n /\ head[2] = p.sender
      /\ head[3] = p.recipient /\ head[4] = p.command
  <2>1. head = <<n, p.sender, p.recipient, p.command>>
    BY DEF FrameWord
  <2> HIDE DEF n, head
  <2> QED
    BY <1>2, <2>1
<1>4. /\ flat \in Seq(Byte) /\ Len(flat) = 4 * n
      /\ \A w \in 1..n, j \in 1..4 : flat[4 * (w - 1) + j] = words[w][j]
  BY <1>1, WordsFlat
<1> HIDE DEF n, head, flat, words
<1>5. /\ body \in Seq(Byte) /\ Len(body) = 4 + 4 * n
      /\ \A i \in 1..(4 + 4 * n) : body[i] = IF i <= 4 THEN head[i] ELSE flat[i - 4]
  <2>1. /\ body \in Seq(Byte) /\ Len(body) = Len(head) + Len(flat)
        /\ \A i \in 1..Len(head) + Len(flat) :
             body[i] = IF i <= Len(head) THEN head[i] ELSE flat[i - Len(head)]
    <3> HIDE DEF body
    <3> DEFINE joined == head \o flat
    <3>1. body = joined
      BY DEF body
    <3> HIDE DEF joined
    <3>2. /\ joined \in Seq(Byte) /\ Len(joined) = Len(head) + Len(flat)
          /\ \A i \in 1..Len(head) + Len(flat) :
               joined[i] = IF i <= Len(head) THEN head[i] ELSE flat[i - Len(head)]
      <4>1. head \in Seq(Byte) /\ flat \in Seq(Byte)
        BY <1>3, <1>4
      <4> QED
        BY <4>1, ConcatProperties DEF joined
    <3> QED
      BY <3>1, <3>2, Zenon
  <2> QED
    BY <1>3, <1>4, <2>1, Zenon
<1> HIDE DEF body
<1>6. /\ all \in Seq(Byte) /\ Crc(all) = 0 /\ Len(all) = (4 + 4 * n) + 1
      /\ \A i \in 1..(4 + 4 * n) : all[i] = body[i]
  <2> DEFINE crc == Crc(body)
             m == 4 + 4 * n
  <2>1. crc \in Byte /\ all \in Seq(Byte) /\ Crc(all) = 0
    BY <1>5, CrcType, CrcCloses
  <2>2. all = Append(body, crc) /\ m \in Nat /\ Len(body) = m
    BY <1>1, <1>5 DEF WithCrc
  <2> HIDE DEF crc, all, m
  <2>3. Len(all) = m + 1 /\ \A i \in 1..m : all[i] = body[i]
    BY <1>5, <2>1, <2>2
  <2> QED
    BY <2>1, <2>3 DEF m
<1> HIDE DEF all
<1>7. /\ all[1] = n /\ all[2] = p.sender /\ all[3] = p.recipient /\ all[4] = p.command
  <2>1. /\ 1 \in 1..(4 + 4 * n) /\ 2 \in 1..(4 + 4 * n) /\ 3 \in 1..(4 + 4 * n)
        /\ 4 \in 1..(4 + 4 * n) /\ 1 <= 4 /\ 2 <= 4 /\ 3 <= 4 /\ 4 <= 4
    BY <1>1
  <2> QED
    BY <1>3, <1>5, <1>6, <2>1
<1>8. ASSUME NEW w \in 1..n, NEW j \in 1..4 PROVE all[4 * w + j] = words[w][j]
  <2>1. /\ 4 * w + j \in 1..(4 + 4 * n) /\ ~(4 * w + j <= 4)
        /\ (4 * w + j) - 4 = 4 * (w - 1) + j
    BY <1>1
  <2>2. all[4 * w + j] = flat[(4 * w + j) - 4]
    BY <1>5, <1>6, <2>1
  <2> QED
    BY <1>4, <2>1, <2>2
<1>9. FrameBytes(p) = all
  BY DEF FrameBytes, all, body, head, flat, words
<1> QED
  BY <1>6, <1>7, <1>8, <1>9 DEF Framed, FrameLen, n, words

(* A word of it is the packet's. *)
LEMMA FramedWord ==
  ASSUME NEW p \in Packets, NEW bytes, Framed(p, bytes), NEW w \in 1..Len(p.payload)
  PROVE  SubSeq(bytes, 4 * w + 1, 4 * w + 4) = p.payload[w]
<1> DEFINE n == Len(p.payload)
           m == 5 + 4 * n
           a == 4 * w
           r == SubSeq(bytes, a + 1, a + 4)
           word == p.payload[w]
<1>1. p.payload \in Seq([1..4 -> Byte]) /\ n \in Nat
  BY DEF Packets
<1>2. FrameLen(n) = m
  <2> HIDE DEF n
  <2> QED
    BY <1>1 DEF FrameLen
<1>3. /\ bytes \in Seq(Byte) /\ Len(bytes) = m /\ w \in 1..n
      /\ \A j \in 1..4 : bytes[4 * w + j] = p.payload[w][j]
  BY <1>2 DEF Framed
<1>4. p.payload[w] \in [1..4 -> Byte]
  BY <1>1
<1> HIDE DEF n
<1>5. a \in Nat /\ a + 4 <= m /\ m \in Nat
  BY <1>1, <1>3
<1>6. \A j \in 1..4 : bytes[a + j] = p.payload[w][j]
  BY <1>3
<1> HIDE DEF a, m
<1>7. r \in Seq(Byte) /\ Len(r) = 4 /\ \A j \in 1..4 : r[j] = bytes[a + j]
  BY <1>3, <1>5
<1>8. word \in Seq(Byte) /\ Len(word) = 4 /\ \A j \in 1..4 : r[j] = word[j]
  BY <1>4, <1>6, <1>7, WordType
<1> HIDE DEF r, word
<1>9. r = word
  BY <1>7, <1>8, SeqEqual
<1> QED
  BY <1>9 DEF r, a, word

(* And what is parsed of bytes that begin with it is the packet. *)
LEMMA FrameParsed ==
  ASSUME NEW p \in Packets, Len(p.payload) <= MaxWords, NEW frame1, Framed(p, frame1),
         NEW bytes \in Seq(Byte), Begins(frame1, bytes)
  PROVE  ParseFrame(bytes) = <<p>>
<1> DEFINE words == p.payload
           n == Len(words)
           m == 5 + 4 * n
           k == Len(bytes)
           q == SubSeq(bytes, 1, m)
<1>1. words \in Seq([1..4 -> Byte]) /\ n \in Nat /\ n <= MaxWords /\ k \in Nat
  BY DEF Packets
<1>2. /\ p = [sender |-> p.sender, recipient |-> p.recipient, command |-> p.command,
              payload |-> p.payload]
  BY DEF Packets
<1>3. FrameLen(n) = m /\ m \in Nat
  <2> HIDE DEF n
  <2> QED
    BY <1>1 DEF FrameLen
<1>4. /\ frame1 \in Seq(Byte) /\ Len(frame1) = m /\ frame1[1] = n
      /\ frame1[2] = p.sender /\ frame1[3] = p.recipient /\ frame1[4] = p.command
      /\ \A w \in 1..n, j \in 1..4 : frame1[4 * w + j] = words[w][j]
      /\ Crc(frame1) = 0
  BY <1>3 DEF Framed
<1>5. m <= k /\ \A i \in 1..m : frame1[i] = bytes[i]
  BY <1>4 DEF Begins
<1> HIDE DEF words, n, k
<1>6. q = frame1
  <2>1. q \in Seq(Byte) /\ Len(q) = m /\ \A i \in 1..m : q[i] = bytes[i]
    BY <1>1, <1>3, <1>5 DEF k
  <2> HIDE DEF q, m
  <2> QED
    BY <1>4, <1>5, <2>1, SeqEqual
<1>7. /\ bytes[1] = n /\ bytes[2] = p.sender /\ bytes[3] = p.recipient
      /\ bytes[4] = p.command
  <2>1. 1 \in 1..m /\ 2 \in 1..m /\ 3 \in 1..m /\ 4 \in 1..m
    BY <1>1
  <2> QED
    BY <1>4, <1>5, <2>1
<1>8. [w \in 1..n |-> SubSeq(bytes, 4 * w + 1, 4 * w + 4)] = words
  <2>1. \A w \in 1..n : SubSeq(bytes, 4 * w + 1, 4 * w + 4) = words[w]
    <3> SUFFICES ASSUME NEW w \in 1..n
                 PROVE  SubSeq(bytes, 4 * w + 1, 4 * w + 4) = words[w]
      OBVIOUS
    <3> DEFINE a == 4 * w
    <3>1. a \in Nat /\ a + 4 <= m /\ m <= k
      BY <1>1, <1>5
    <3>2. SubSeq(frame1, a + 1, a + 4) = words[w]
      BY FramedWord DEF words, n
    <3> HIDE DEF a, m
    <3>3. SubSeq(frame1, a + 1, a + 4) = SubSeq(bytes, a + 1, a + 4)
      BY <1>3, <1>4, <1>5, <3>1 DEF k
    <3> QED
      BY <3>2, <3>3 DEF a
  <2>2. words = [w \in 1..n |-> words[w]]
    BY <1>1 DEF n
  <2> QED
    BY <2>1, <2>2
<1>9. ~(Len(bytes) < 4) /\ ~(Len(bytes) < FrameLen(n)) /\ ~(n > MaxWords)
  <2>1. MaxWords \in Nat /\ Len(bytes) = k
    BY MapleWireAssumption DEF k
  <2> QED
    BY <1>1, <1>3, <1>5, <2>1
<1>10. Crc(SubSeq(bytes, 1, FrameLen(n))) = 0
  BY <1>3, <1>4, <1>6
<1> QED
  BY <1>2, <1>7, <1>8, <1>9, <1>10, Zenon DEF ParseFrame, words

(* What begins bytes is their beginning. *)
LEMMA Beginning ==
  ASSUME NEW q \in Seq(Byte), NEW bytes \in Seq(Byte), Begins(q, bytes)
  PROVE  SubSeq(bytes, 1, Len(q)) = q /\ Len(q) <= Len(bytes)
<1> DEFINE m == Len(q)
           k == Len(bytes)
<1>1. m \in Nat /\ k \in Nat /\ m <= k /\ \A i \in 1..m : q[i] = bytes[i]
  BY DEF Begins
<1> HIDE DEF m, k
<1>2. /\ SubSeq(bytes, 1, m) \in Seq(Byte) /\ Len(SubSeq(bytes, 1, m)) = m
      /\ \A i \in 1..m : SubSeq(bytes, 1, m)[i] = bytes[i]
  BY <1>1 DEF k
<1>3. SubSeq(bytes, 1, m) = q
  BY <1>1, <1>2, SeqEqual DEF m
<1> QED
  BY <1>1, <1>3 DEF m, k

(* What is received of a packet, with a bit of it wrong, when it stops. *)
Received(p, bit, stop, got) ==
  /\ p \in Packets /\ Len(p.payload) <= MaxWords
  /\ bit \in Nat /\ bit \notin 1..8 /\ stop \in Nat /\ got \in Seq(Byte)
  /\ LET sent == Flipped(FrameBytes(p), bit)
     IN  /\ Begins(Arrived(sent, stop), got)
         /\ stop < Len(sent) => got = Arrived(sent, stop)

(* All that was sent is there. *)
Intact(p, bit, stop) ==
  bit \notin 1..(8 * Len(FrameBytes(p))) /\ stop >= Len(FrameBytes(p))

(* If it is as long as it says, it is what was sent, and with its checksum it
   is the packet's frame. *)
LEMMA ReceivedWhole ==
  ASSUME NEW p, NEW bit, NEW stop, NEW got, Received(p, bit, stop, got),
         NEW j \in 4..Len(got), j = FrameLen(got[1])
  PROVE  Crc(SubSeq(got, 1, j)) = 0
           => Framed(p, SubSeq(got, 1, j)) /\ SubSeq(got, 1, j) = FrameBytes(p)
              /\ Len(FrameBytes(p)) = j
<1> DEFINE own == FrameBytes(p)
           sent == Flipped(own, bit)
           n == Len(p.payload)
           m == FrameLen(n)
           k == Len(got)
<1>1. /\ p \in Packets /\ Len(p.payload) <= MaxWords /\ bit \in Nat /\ bit \notin 1..8
      /\ stop \in Nat /\ got \in Seq(Byte) /\ Begins(Arrived(sent, stop), got)
      /\ stop < Len(sent) => got = Arrived(sent, stop)
  BY DEF Received
<1>2. Framed(p, own)
  BY <1>1, FrameIs
<1>3. n \in Nat /\ m \in Nat /\ m >= 5
  <2>1. n \in Nat
    BY <1>1 DEF Packets
  <2> HIDE DEF n
  <2> QED
    BY <2>1 DEF FrameLen
<1>4. own \in Seq(Byte) /\ Len(own) = m /\ own[1] = n /\ Crc(own) = 0
  BY <1>2 DEF Framed
<1> HIDE DEF own, n, m
<1>5. /\ sent \in Seq(Byte) /\ Len(sent) = m /\ sent[1] = n
      /\ bit \notin 1..(8 * m) => sent = own
      /\ bit \in 1..(8 * m) => Crc(sent) # 0
  <2>1. /\ Len(sent) = Len(own) /\ (Len(own) >= 1 => sent[1] = own[1])
        /\ bit \notin 1..(8 * Len(own)) => sent = own
        /\ (bit \in 1..(8 * Len(own)) /\ Crc(own) = 0) => Crc(sent) # 0
    BY <1>1, <1>4, FlippedShows
  <2>2. sent \in Seq(Byte)
    BY <1>1, <1>4, FlippedType
  <2> HIDE DEF sent
  <2> QED
    BY <1>3, <1>4, <2>1, <2>2
<1> HIDE DEF sent
<1>6. k \in Nat /\ j \in Nat /\ 4 <= j /\ j <= k /\ got[1] \in Byte
  <2>1. k \in Nat
    BY <1>1
  <2>2. j \in 4..k
    OBVIOUS
  <2> HIDE DEF k
  <2>3. 1 \in 1..k /\ j \in Nat /\ 4 <= j /\ j <= k
    BY <2>1, <2>2
  <2> QED
    BY <1>1, <2>1, <2>3 DEF k
<1> DEFINE few == SmallerOf(m, stop)
           there == Arrived(sent, stop)
<1>7. /\ there \in Seq(Byte) /\ Len(there) = few /\ \A i \in 1..few : there[i] = sent[i]
      /\ few \in 0..m
  BY <1>1, <1>5, ArrivedType
<1>8. few <= k /\ \A i \in 1..few : got[i] = there[i]
  BY <1>1, <1>7 DEF Begins, k
<1>9. stop < m => k = stop
  <2>1. ASSUME stop < m PROVE k = stop
    <3>1. got = there
      BY <1>1, <1>5, <2>1
    <3>2. few = stop
      BY <1>1, <1>3, <2>1 DEF SmallerOf
    <3> HIDE DEF few, there
    <3> QED
      BY <1>7, <3>1, <3>2 DEF k
  <2> QED
    BY <2>1
<1> HIDE DEF there, k
<1>10. few >= 1
  BY <1>1, <1>3, <1>6, <1>9 DEF SmallerOf
<1> HIDE DEF few
<1>11. j = m
  <2>1. 1 \in 1..few
    BY <1>7, <1>10
  <2> QED
    BY <1>5, <1>7, <1>8, <2>1 DEF m
<1>12. ~(stop < m)
  BY <1>1, <1>6, <1>9, <1>11
<1>13. there = sent
  <2>1. few = m
    BY <1>1, <1>3, <1>12 DEF few, SmallerOf
  <2> QED
    BY <1>5, <1>7, <2>1, SeqEqual
<1>14. SubSeq(got, 1, j) = sent
  <2>1. Begins(sent, got)
    BY <1>1, <1>13 DEF there
  <2>2. SubSeq(got, 1, Len(sent)) = sent
    BY <1>1, <1>5, <2>1, Beginning
  <2> QED
    BY <1>5, <1>11, <2>2
<1> SUFFICES ASSUME Crc(SubSeq(got, 1, j)) = 0
             PROVE  /\ Framed(p, SubSeq(got, 1, j)) /\ SubSeq(got, 1, j) = own
                    /\ Len(own) = j
  BY DEF own
<1>15. sent = own
  BY <1>5, <1>14
<1> QED
  BY <1>2, <1>4, <1>11, <1>14, <1>15

(* What was sent whole is received. *)
LEMMA ReceivedIntact ==
  ASSUME NEW p, NEW bit, NEW stop, NEW got, Received(p, bit, stop, got),
         Intact(p, bit, stop)
  PROVE  Framed(p, FrameBytes(p)) /\ Begins(FrameBytes(p), got)
<1> DEFINE own == FrameBytes(p)
           sent == Flipped(own, bit)
           m == Len(own)
<1>1. /\ p \in Packets /\ Len(p.payload) <= MaxWords /\ bit \in Nat /\ bit \notin 1..8
      /\ stop \in Nat /\ Begins(Arrived(sent, stop), got)
  BY DEF Received
<1>2. Framed(p, own) /\ own \in Seq(Byte)
  BY <1>1, FrameIs DEF Framed
<1>3. sent = own
  BY <1>1, <1>2, FlippedShows DEF Intact
<1>4. Arrived(own, stop) = own
  <2>1. m \in Nat /\ stop >= m
    BY <1>2 DEF Intact
  <2> HIDE DEF own
  <2>2. SmallerOf(m, stop) = m
    <3> HIDE DEF m
    <3> QED
      BY <1>1, <2>1 DEF SmallerOf
  <2>3. /\ Arrived(own, stop) \in Seq(Byte) /\ Len(Arrived(own, stop)) = SmallerOf(m, stop)
        /\ \A i \in 1..SmallerOf(m, stop) : Arrived(own, stop)[i] = own[i]
    BY <1>1, <1>2, ArrivedType
  <2> QED
    BY <1>2, <2>2, <2>3, SeqEqual
<1> QED
  BY <1>1, <1>2, <1>3, <1>4

(* What is parsed of it is the packet or nothing. *)
LEMMA ReceivedParsed ==
  ASSUME NEW p, NEW bit, NEW stop, NEW got, Received(p, bit, stop, got)
  PROVE  /\ ParseFrame(got) = <<>> \/ ParseFrame(got) = <<p>>
         /\ Intact(p, bit, stop) => ParseFrame(got) = <<p>>
<1> DEFINE k == Len(got)
<1>1. p \in Packets /\ Len(p.payload) <= MaxWords /\ got \in Seq(Byte)
  BY DEF Received
<1>2. ASSUME ParseFrame(got) # <<>> PROVE ParseFrame(got) = <<p>>
  <2> DEFINE j == FrameLen(got[1])
  <2>1. ~(k < 4) /\ ~(k < j) /\ Crc(SubSeq(got, 1, j)) = 0
    BY <1>2, Zenon DEF ParseFrame
  <2>2. k \in Nat /\ got[1] \in Byte
    <3>1. k \in Nat
      BY <1>1
    <3> HIDE DEF k
    <3>2. 1 \in 1..k
      BY <2>1, <3>1
    <3> QED
      BY <1>1, <3>1, <3>2 DEF k
  <2>3. j \in 4..k
    <3> DEFINE x == got[1]
    <3>1. x \in Nat
      <4>1. \A y \in Byte : y \in Nat
        BY DEF Byte
      <4> QED
        BY <2>2, <4>1, Zenon
    <3> HIDE DEF x, k
    <3>2. j = 4 + 4 * x + 1
      BY DEF FrameLen, x
    <3> HIDE DEF j
    <3> QED
      BY <2>1, <2>2, <3>1, <3>2
  <2> HIDE DEF j
  <2>4. Framed(p, SubSeq(got, 1, j))
    BY <2>1, <2>3, ReceivedWhole DEF j, k
  <2>5. SubSeq(got, 1, j) \in Seq(Byte) /\ Begins(SubSeq(got, 1, j), got)
    <3>1. j \in Nat /\ j <= k /\ k \in Nat
      BY <2>2, <2>3
    <3> HIDE DEF k
    <3>2. /\ SubSeq(got, 1, j) \in Seq(Byte) /\ Len(SubSeq(got, 1, j)) = j
          /\ \A i \in 1..j : SubSeq(got, 1, j)[i] = got[i]
      BY <1>1, <3>1 DEF k
    <3> QED
      BY <3>1, <3>2 DEF Begins, k
  <2> QED
    BY <1>1, <2>4, <2>5, FrameParsed
<1>3. ASSUME Intact(p, bit, stop) PROVE ParseFrame(got) = <<p>>
  <2>1. Framed(p, FrameBytes(p)) /\ Begins(FrameBytes(p), got)
    BY <1>3, ReceivedIntact
  <2> QED
    BY <1>1, <2>1, FrameParsed
<1> QED
  BY <1>2, <1>3

(* A capture as long as the reply begins with it, and is silent behind it. *)
LEMMA WaveBegins ==
  ASSUME NEW k \in DOMAIN Lines, NEW w, w = Waveform(Lines[k].packet, Lines[k].fault),
         Len(w) <= Samples
  PROVE  w \in Samplings /\ Begins(w, Wave[k]) /\ Floats(Wave[k], Len(w))
<1> DEFINE rest == [i \in 1..Samples |-> Floating]
           all == w \o rest
           a == Len(w)
           s == Wave[k]
<1>1. w \in Seq(Level) /\ a \in Nat
  <2>1. /\ Lines[k].packet \in Packets /\ Lines[k].fault \in Faulted
        /\ Len(Lines[k].packet.payload) <= MaxWords /\ Lines[k].fault.flip \in Nat
    BY LineType DEF Faulted
  <2>2. w \in Seq(Level)
    BY <2>1, FrameType, FlippedType, WireType DEF Waveform, Samplings
  <2> QED
    BY <2>2
<1>2. Samples \in Nat
  BY BusAssumption
<1>3. rest \in Seq(Level) /\ Len(rest) = Samples /\ \A i \in 1..Samples : rest[i] = Floating
  <2>1. Floating \in Level
    BY DEF Level
  <2> QED
    BY <1>2, <2>1
<1>4. s = SubSeq(all, 1, Samples) /\ s \in Seq(Level) /\ Len(s) = Samples
  BY WaveType DEF Wave, Samplings
<1> HIDE DEF rest, s
<1>5. /\ all \in Seq(Level) /\ Len(all) = Len(w) + Len(rest)
      /\ \A i \in 1..Len(w) + Len(rest) :
           all[i] = IF i <= Len(w) THEN w[i] ELSE rest[i - Len(w)]
  BY <1>1, <1>3, ConcatProperties
<1>6. /\ Len(all) = a + Samples /\ a <= Samples
      /\ \A i \in 1..(a + Samples) : all[i] = IF i <= a THEN w[i] ELSE rest[i - a]
  BY <1>3, <1>5
<1> HIDE DEF all, a
<1>7. \A i \in 1..Samples : s[i] = all[i]
  <2> DEFINE m == Len(all)
  <2>1. m \in Nat /\ Samples <= m
    BY <1>1, <1>2, <1>6
  <2> HIDE DEF m
  <2> QED
    BY <1>2, <1>4, <1>5, <2>1 DEF m
<1>8. \A i \in 1..a : s[i] = w[i]
  BY <1>1, <1>2, <1>6, <1>7
<1>9. \A i \in (a + 1)..Samples : s[i] = Floating
  <2> SUFFICES ASSUME NEW i \in (a + 1)..Samples PROVE s[i] = Floating
    OBVIOUS
  <2>1. i \in 1..(a + Samples) /\ ~(i <= a) /\ i - a \in 1..Samples /\ i \in 1..Samples
    BY <1>1, <1>2
  <2> QED
    BY <1>3, <1>6, <1>7, <2>1
<1>10. Begins(w, s)
  BY <1>4, <1>6, <1>8 DEF Begins, a
<1>11. Floats(s, a)
  <2> SUFFICES ASSUME NEW i \in Nat, a <= i, i < Size(s) PROVE At(s, i) = Floating
    BY DEF Floats
  <2>1. i + 1 \in (a + 1)..Samples
    BY <1>1, <1>2, <1>4 DEF Size
  <2> QED
    BY <1>9, <2>1 DEF At
<1> QED
  BY <1>1, <1>10, <1>11 DEF Samplings, a, s

(* A sequence of bytes parsed before any is found begins nothing. *)
LEMMA BytesOfAreBytes ==
  ASSUME NEW bits \in Seq(Bit)
  PROVE  BytesOf(bits) \in Seq(Byte)
BY BytesOfType

(* What is read of a legible line is what was sent, as it was received. *)
LEMMA LegibleReceived ==
  ASSUME NEW k \in DOMAIN Lines, Legible(k)
  PROVE  /\ FindDataStart(Wave[k]) # NoStart
         /\ Received(Lines[k].packet, Lines[k].fault.flip, Lines[k].fault.stop,
                     Bulk[k].bytes)
<1> DEFINE p == Lines[k].packet
           f == Lines[k].fault
           sent == Flipped(FrameBytes(p), f.flip)
           w == Waveform(p, f)
           s == Wave[k]
           start == FindDataStart(s)
           bits == DecodeBulk(s, start).bits
<1>1. /\ p \in Packets /\ f \in Faulted /\ Len(p.payload) <= MaxWords
      /\ f.flip \in Nat /\ f.stop \in Nat
  BY LineType DEF Faulted
<1>2. /\ f.lead = <<>> /\ f.clip \in 0..3 /\ f.flip \notin 1..8
      /\ f.at \in 1..Len(FrameBytes(p)) => f.pause < EndIdle
      /\ Len(w) <= Samples
  BY DEF Legible
<1>3. sent \in Seq(Byte) /\ Len(sent) = Len(FrameBytes(p))
  <2>1. FrameBytes(p) \in Seq(Byte)
    BY <1>1, FrameType
  <2> QED
    BY <1>1, <1>2, <2>1, FlippedType, FlippedShows
<1>4. w = OnTheWire(sent, f)
  BY DEF Waveform
<1>5. s \in Samplings /\ Begins(w, s) /\ Floats(s, Len(w))
  BY <1>2, WaveType, WaveBegins
<1>6. Bulk[k] = BulkAt(s, start)
  BY DEF Bulk
<1> HIDE DEF p, f, sent, w, s
<1> DEFINE there == Arrived(sent, f.stop)
<1>7. there \in Seq(Byte)
  BY <1>1, <1>3, ArrivedType
<1>8. Legibly(s, f.clip, there) /\ (f.stop < Len(sent) => Stopped(s, f.clip, there))
  <2>1. f.at \in 1..Len(sent) => f.pause < EndIdle
    BY <1>2, <1>3
  <2>2. Begins(OnTheWire(sent, f), s) /\ Floats(s, Len(OnTheWire(sent, f)))
    BY <1>4, <1>5
  <2> QED
    BY <1>1, <1>2, <1>3, <1>5, <2>1, <2>2, WireLegible
<1> HIDE DEF there
<1>9. /\ start # NoStart /\ bits \in Seq(Bit) /\ Begins(there, BytesOf(bits))
  BY <1>2, <1>5, <1>7, <1>8, BytesRead
<1>10. f.stop < Len(sent) => BytesOf(bits) = there
  BY <1>2, <1>5, <1>7, <1>8, StoppedRead
<1> HIDE DEF start, bits
<1>11. Bulk[k].bytes = BytesOf(bits)
  BY <1>6, <1>9 DEF BulkAt, BulkOf, bits
<1>12. BytesOf(bits) \in Seq(Byte)
  BY <1>9, BytesOfAreBytes
<1>13. Received(p, f.flip, f.stop, Bulk[k].bytes)
  BY <1>1, <1>2, <1>9, <1>10, <1>11, <1>12 DEF Received, there, sent
<1> QED
  BY <1>9, <1>13 DEF start, s, p, f

(* A poll or a probe has its packet, or none. *)
LEMMA PacketLegible ==
  ASSUME NEW k \in DOMAIN Lines, Legible(k)
  PROVE  PacketAsSent(k)
<1> DEFINE p == Lines[k].packet
           got == Bulk[k].bytes
<1>1. Received(p, Lines[k].fault.flip, Lines[k].fault.stop, got)
  BY LegibleReceived
<1>2. Packet[k] = ParseFrame(got)
  BY DEF Packet
<1> HIDE DEF p, got
<1>3. ParseFrame(got) = <<>> \/ ParseFrame(got) = <<p>>
  BY <1>1, ReceivedParsed
<1> QED
  BY <1>2, <1>3 DEF PacketAsSent, p

(* What a decode of a legible line completes with a good checksum is the frame
   of its packet. *)
LEMMA CompleteIsFrame ==
  ASSUME NEW k \in DOMAIN Lines, Legible(k), End[k].done = "Complete",
         Crc(End[k].out) = 0
  PROVE  /\ Framed(Lines[k].packet, End[k].out)
         /\ End[k].out = FrameBytes(Lines[k].packet)
<1> DEFINE p == Lines[k].packet
           got == Bulk[k].bytes
           out == End[k].out
           n == Len(out)
           s == Wave[k]
<1>1. Received(p, Lines[k].fault.flip, Lines[k].fault.stop, got)
  BY LegibleReceived
<1>2. SameAsWhole(End[k], Bulk[k], FindDataStart(s)) /\ End[k] \in Decoder
  <2>1. k \in 1..Len(Lines)
    BY BusAssumption
  <2>2. End[k] = After(k, Steps) /\ Steps \in Nat
    BY StepsSuffice DEF End
  <2>3. Whole(s, End[k]) /\ End[k].done # None
    BY <2>1, <2>2, AfterWhole
  <2>4. Bulk[k] = BulkAt(s, FindDataStart(s))
    BY DEF Bulk
  <2> QED
    BY <2>3, <2>4, Zenon DEF Whole
<1>3. 4 <= n /\ n <= Len(got) /\ out = SubSeq(got, 1, n) /\ n = FrameLen(got[1])
  <2> DEFINE d == End[k]
             bulk == Bulk[k]
             start == FindDataStart(s)
  <2>1. SameAsWhole(d, bulk, start) /\ d.done = "Complete"
    BY <1>2
  <2> HIDE DEF d, bulk, start
  <2>2. /\ 4 <= Len(d.out) /\ Len(d.out) <= Len(bulk.bytes) /\ d.out = SubSeq(bulk.bytes, 1, Len(d.out))
        /\ Len(d.out) = FrameLen(bulk.bytes[1])
    BY <2>1 DEF SameAsWhole
  <2> QED
    BY <2>2, Zenon DEF d, bulk
<1>4. out \in Seq(Byte) /\ Crc(out) = 0 /\ got \in Seq(Byte)
  BY <1>1, <1>2 DEF Decoder, Received
<1> HIDE DEF p, got, out
<1>5. n \in 4..Len(got)
  <2> DEFINE m == Len(got)
  <2>1. m \in Nat /\ n \in Nat /\ 4 <= n /\ n <= m
    BY <1>3, <1>4
  <2> HIDE DEF m, n
  <2>2. n \in 4..m
    BY <2>1
  <2> QED
    BY <2>2 DEF m
<1> HIDE DEF n
<1>6. /\ Framed(p, SubSeq(got, 1, n)) /\ SubSeq(got, 1, n) = FrameBytes(p)
  BY <1>1, <1>3, <1>4, <1>5, ReceivedWhole
<1> QED
  BY <1>3, <1>6 DEF p, out

(* A whole number of words is their bytes, and no others. *)
LEMMA WordPlaces ==
  ASSUME NEW v \in Nat, NEW i \in 1..(4 * v)
  PROVE  \E w \in 0..(v - 1), j \in 1..4 :
           /\ i = 4 * w + j
           /\ 4 * ((i - 1) \div 4) + 4 - ((i - 1) % 4) = (4 * w + 5) - j
<1> DEFINE w == (i - 1) \div 4
           j == ((i - 1) % 4) + 1
<1>1. w \in 0..(v - 1) /\ j \in 1..4 /\ i = 4 * w + j
  OBVIOUS
<1>2. 4 * w + 4 - ((i - 1) % 4) = (4 * w + 5) - j
  BY <1>1
<1> HIDE DEF w, j
<1>3. 4 * ((i - 1) \div 4) + 4 - ((i - 1) % 4) = (4 * w + 5) - j
  BY <1>2 DEF w
<1> QED
  BY <1>1, <1>3

(* The words a block is written with, read back behind its function and its
   location, are its image. *)
LEMMA ImageRead ==
  ASSUME NEW p \in Packets, NEW image \in Seq(Byte), NEW b, Len(image) % 4 = 0,
         p.payload = WriteFrame(1, Storage, Location(b), image).payload,
         Len(p.payload) = FrameWords, NEW out, Framed(p, out)
  PROVE  WireToImage(SubSeq(out, 13, 4 + 4 * FrameWords)) = image
<1> DEFINE L == Len(image)
           v == L \div 4
           words == [i \in 1..v |-> WireWord(image, i)]
           opener == <<Storage, Location(b)>>
           q == SubSeq(out, 13, 4 + 4 * FrameWords)
           r == WireToImage(q)
<1>1. L \in Nat /\ v \in Nat /\ L = 4 * v
  <2>1. L \in Nat /\ L % 4 = 0
    OBVIOUS
  <2> HIDE DEF L
  <2> QED
    BY <2>1
<1>2. p.payload = opener \o words
  BY DEF WriteFrame
<1>3. \A w \in 1..v, j \in 1..4 : words[w][j] = image[4 * w - j + 1]
  BY DEF WireWord
<1>4. words \in Seq([1..4 -> Byte]) /\ Len(words) = v
  <2> DEFINE e(w) == WireWord(image, w)
  <2>1. \A w \in 1..v : e(w) \in [1..4 -> Byte]
    <3> SUFFICES ASSUME NEW w \in 1..v, NEW j \in 1..4 PROVE image[4 * w - j + 1] \in Byte
      BY DEF WireWord
    <3> DEFINE x == 4 * w - j + 1
    <3>1. x \in 1..L
      <4> HIDE DEF L, v
      <4> QED
        BY <1>1
    <3> HIDE DEF x
    <3>2. image[x] \in Byte
      BY <3>1
    <3> QED
      BY <3>2 DEF x
  <2>2. words = [w \in 1..v |-> e(w)]
    OBVIOUS
  <2> HIDE DEF e, words, v
  <2>3. [w \in 1..v |-> e(w)] \in Seq([1..4 -> Byte]) /\ Len([w \in 1..v |-> e(w)]) = v
    BY <1>1, <2>1, IsASeq
  <2> QED
    BY <2>2, <2>3
<1>5. opener \in Seq([1..4 -> Byte] \cup {Storage, Location(b)}) /\ Len(opener) = 2
  <2> HIDE DEF Storage, Location
  <2> QED
    OBVIOUS
<1>6. /\ Len(p.payload) = 2 + v
      /\ \A w \in 1..v : p.payload[w + 2] = words[w]
  <2> DEFINE S == [1..4 -> Byte] \cup {Storage, Location(b)}
  <2>1. words \in Seq(S) /\ opener \in Seq(S)
    <3>1. [1..4 -> Byte] \subseteq S
      OBVIOUS
    <3> HIDE DEF S, words, opener
    <3>2. words \in Seq(S)
      BY <1>4, <3>1, SeqMonotonic
    <3> QED
      BY <1>5, <3>2 DEF S
  <2> HIDE DEF S, words, opener
  <2>2. /\ Len(opener \o words) = Len(opener) + Len(words)
        /\ \A i \in 1..Len(opener) + Len(words) :
             (opener \o words)[i] = IF i <= Len(opener) THEN opener[i]
                                    ELSE words[i - Len(opener)]
    BY <2>1, ConcatProperties
  <2>3. /\ Len(p.payload) = 2 + v
        /\ \A i \in 1..(2 + v) :
             p.payload[i] = IF i <= 2 THEN opener[i] ELSE words[i - 2]
    BY <1>2, <1>4, <1>5, <2>2
  <2> HIDE DEF v
  <2> SUFFICES ASSUME NEW w \in 1..v PROVE p.payload[w + 2] = words[w]
    BY <2>3
  <2>4. w + 2 \in 1..(2 + v) /\ ~(w + 2 <= 2) /\ (w + 2) - 2 = w
    BY <1>1
  <2> QED
    BY <2>3, <2>4
<1>7. FrameWords = 2 + v /\ 4 + 4 * FrameWords = 12 + L
  <2>1. FrameWords = 2 + v
    BY <1>6
  <2> HIDE DEF v, L
  <2> QED
    BY <1>1, <2>1
<1>8. /\ out \in Seq(Byte) /\ Len(out) = 13 + L
      /\ \A w \in 1..v, j \in 1..4 : out[4 * (w + 2) + j] = words[w][j]
  <2> DEFINE n == Len(p.payload)
  <2>1. /\ out \in Seq(Byte) /\ Len(out) = FrameLen(n)
        /\ \A w \in 1..n, j \in 1..4 : out[4 * w + j] = p.payload[w][j]
    BY DEF Framed
  <2>2. n = 2 + v
    BY <1>6
  <2> HIDE DEF n, words, v, L
  <2>3. FrameLen(n) = 13 + L
    BY <1>1, <2>2 DEF FrameLen
  <2> SUFFICES ASSUME NEW w \in 1..v, NEW j \in 1..4
               PROVE  out[4 * (w + 2) + j] = words[w][j]
    BY <2>1, <2>3
  <2>4. w + 2 \in 1..n
    BY <1>1, <2>2
  <2> QED
    BY <1>6, <2>1, <2>4
<1> HIDE DEF words, opener, v, L
<1>9. /\ q \in Seq(Byte) /\ Len(q) = L /\ \A i \in 1..L : q[i] = out[12 + i]
  <2> DEFINE k == 13 + L
             e == 12 + L
             o == SubSeq(out, 13, e)
  <2>1. k \in Nat /\ e \in Nat /\ e <= k /\ Len(out) = k /\ 13 <= e + 1
    BY <1>1, <1>8
  <2>2. q = o
    BY <1>7
  <2> HIDE DEF k, e, q
  <2>3. o \in Seq(Byte) /\ Len(o) = e - 12 /\ \A i \in 1..(e - 12) : o[i] = out[12 + i]
    BY <1>8, <2>1
  <2>4. e - 12 = L
    BY <1>1 DEF e
  <2> HIDE DEF o
  <2> QED
    BY <2>2, <2>3, <2>4
<1> HIDE DEF q
<1>10. \A i \in 1..L : r[i] = image[i]
  <2> SUFFICES ASSUME NEW i \in 1..L PROVE r[i] = image[i]
    OBVIOUS
  <2>1. PICK w0 \in 0..(v - 1), j \in 1..4 :
          /\ i = 4 * w0 + j
          /\ 4 * ((i - 1) \div 4) + 4 - ((i - 1) % 4) = (4 * w0 + 5) - j
    BY <1>1, WordPlaces
  <2> DEFINE x == 4 * ((i - 1) \div 4) + 4 - ((i - 1) % 4)
             w == w0 + 1
  <2>2. r[i] = q[x]
    <3>1. i \in DOMAIN q
      BY <1>9
    <3> QED
      BY <3>1 DEF WireToImage
  <2>3. x = (4 * w0 + 5) - j
    BY <2>1
  <2> HIDE DEF x, r
  <2>4. x \in 1..L /\ w \in 1..v /\ 5 - j \in 1..4 /\ 12 + x = 4 * (w + 2) + (5 - j)
    BY <1>1, <2>1, <2>3
  <2>5. q[x] = words[w][5 - j]
    <3> DEFINE z == 5 - j
               a == 12 + x
    <3>1. q[x] = out[a] /\ w \in 1..v /\ z \in 1..4 /\ a = 4 * (w + 2) + z
      BY <1>9, <2>4
    <3> HIDE DEF a, z, w
    <3>2. out[4 * (w + 2) + z] = words[w][z]
      BY <1>8, <3>1, Zenon
    <3> QED
      BY <3>1, <3>2, Zenon DEF z
  <2> DEFINE y == 5 - j
  <2>6. words[w][y] = image[4 * w - y + 1]
    BY <1>3, <2>4
  <2>7. 4 * w - y + 1 = i
    BY <1>1, <2>1
  <2> HIDE DEF y
  <2>8. words[w][y] = image[i]
    BY <2>6, <2>7
  <2> QED
    BY <2>2, <2>5, <2>8 DEF y
<1>11. r \in Seq(Byte) /\ Len(r) = L
  <2> DEFINE e(i) == q[4 * ((i - 1) \div 4) + 4 - ((i - 1) % 4)]
  <2>0. DOMAIN q = 1..L
    BY <1>9
  <2>1. r = [i \in 1..L |-> e(i)]
    BY <2>0, Zenon DEF WireToImage
  <2>2. \A i \in 1..L : e(i) = image[i]
    BY <1>10, <2>1
  <2> HIDE DEF e, r
  <2>3. \A i \in 1..L : e(i) \in Byte
    BY <2>2 DEF L
  <2>4. [i \in 1..L |-> e(i)] \in Seq(Byte) /\ Len([i \in 1..L |-> e(i)]) = L
    BY <1>1, <2>3, IsASeq
  <2> QED
    BY <2>1, <2>4
<1> HIDE DEF r
<1>12. r = image
  BY <1>10, <1>11, SeqEqual DEF L
<1> QED
  BY <1>12 DEF r, q

(* A block's frame is tested by what its packet is: the words finish looks at
   are the packet's. *)
LEMMA BlockFrame ==
  ASSUME NEW p \in Packets, NEW out, Framed(p, out), Len(p.payload) = FrameWords, NEW b
  PROVE  /\ out[1] = FrameWords /\ out[4] = p.command /\ Crc(out) = 0
         /\ Word(out, 0) = p.payload[1] /\ Word(out, 1) = p.payload[2]
<1>1. 1 \in 1..Len(p.payload) /\ 2 \in 1..Len(p.payload)
  BY BusAssumption
<1>2. SubSeq(out, 4 * 1 + 1, 4 * 1 + 4) = p.payload[1]
  BY <1>1, FramedWord
<1>3. SubSeq(out, 4 * 2 + 1, 4 * 2 + 4) = p.payload[2]
  BY <1>1, FramedWord
<1>4. /\ 4 * 1 + 1 = 4 * 0 + 5 /\ 4 * 1 + 4 = 4 * 0 + 8
      /\ 4 * 2 + 1 = 4 * 1 + 5 /\ 4 * 2 + 4 = 4 * 1 + 8
  OBVIOUS
<1>5. Word(out, 0) = p.payload[1] /\ Word(out, 1) = p.payload[2]
  BY <1>2, <1>3, <1>4 DEF Word
<1> QED
  BY <1>5 DEF Framed

(* What is accepted of a legible reply is the block that was asked for, with the
   image it was written with, whatever bit of it is wrong, wherever it pauses
   or stops: the decode in slices, the checksum and the words finish compares
   (block_read.rs:603-643) let nothing else through. *)
THEOREM LegibleBlockAsSent ==
  ASSUME CardsAnswer, NEW k \in ReadLines, Legible(k)
  PROVE  BlockAsSent(k)
<1> DEFINE p == Lines[k].packet
           out == End[k].out
<1>1. k \in DOMAIN Lines
  BY BusAssumption
<1>2. p \in Packets /\ Lines[k].image \in Seq(Byte)
  BY <1>1, LineType
<1> SUFFICES ASSUME NEW b \in Blocks, Accepted[k][b]
             PROVE  SentBlock(k, b) /\ DataOf[k] = Lines[k].image
  BY DEF BlockAsSent
<1>3. End[k].done = "Complete" /\ IsBlock(out, b)
  BY <1>1 DEF Accepted
<1>4. Framed(p, out)
  BY <1>1, <1>3, CompleteIsFrame DEF IsBlock
<1> HIDE DEF p, out
<1>5. Len(p.payload) = FrameWords
  BY <1>3, <1>4 DEF IsBlock, Framed
<1>6. /\ p.command = DataTransfer /\ p.payload[1] = Storage
      /\ p.payload[2] = Location(b)
  BY <1>2, <1>3, <1>4, <1>5, BlockFrame DEF IsBlock
<1>7. SentBlock(k, b)
  BY <1>6 DEF SentBlock, p
<1> DEFINE image == Lines[k].image
<1>8. Len(image) % 4 = 0 /\ p.payload = WriteFrame(1, Storage, Location(b), image).payload
  BY <1>7 DEF CardsAnswer, p
<1>9. DataOf[k] = WireToImage(SubSeq(out, 13, 4 + 4 * FrameWords))
  BY <1>1, <1>3 DEF DataOf, out
<1>10. image \in Seq(Byte)
  BY <1>2
<1> HIDE DEF image
<1>11. WireToImage(SubSeq(out, 13, 4 + 4 * FrameWords)) = image
  BY <1>2, <1>4, <1>5, <1>8, <1>10, ImageRead
<1> QED
  BY <1>7, <1>9, <1>11 DEF image

(* A decode in slices of a legible line that was sent whole completes with the
   packet's frame, where there is room for it. *)
LEMMA IntactCompletes ==
  ASSUME NEW k \in DOMAIN Lines, Legible(k), NEW p, p = Lines[k].packet,
         Intact(p, Lines[k].fault.flip, Lines[k].fault.stop),
         FrameLen(Len(p.payload)) <= OutBytes
  PROVE  End[k].done = "Complete" /\ End[k].out = FrameBytes(p) /\ Framed(p, FrameBytes(p))
<1> DEFINE own == FrameBytes(p)
           got == Bulk[k].bytes
           d == End[k]
           n == Len(p.payload)
           m == FrameLen(n)
           bulk == Bulk[k]
           start == FindDataStart(Wave[k])
<1>1. start # NoStart /\ Received(p, Lines[k].fault.flip, Lines[k].fault.stop, got)
  BY LegibleReceived
<1>2. Framed(p, own) /\ Begins(own, got) /\ got \in Seq(Byte)
  BY <1>1, ReceivedIntact DEF Received
<1>3. /\ SameAsWhole(d, bulk, start) /\ d \in Decoder
      /\ d.done \in Outcome
  <2>1. k \in 1..Len(Lines)
    BY BusAssumption
  <2>2. End[k] = After(k, Steps) /\ Steps \in Nat
    BY StepsSuffice DEF End
  <2>3. Whole(Wave[k], End[k]) /\ End[k].done # None
    BY <2>1, <2>2, AfterWhole
  <2>4. Bulk[k] = BulkAt(Wave[k], FindDataStart(Wave[k]))
    BY DEF Bulk
  <2>5. SameAsWhole(d, bulk, start) /\ d \in Decoder /\ d.done # None
    BY <2>3, <2>4, Zenon DEF Whole
  <2> HIDE DEF d
  <2> QED
    BY <2>5 DEF Decoder, Verdict
<1>4. n \in Nat /\ m \in Nat /\ m >= 5 /\ m <= OutBytes /\ OutBytes \in Nat
  <2>1. n \in Nat
    BY <1>1 DEF Received, Packets
  <2>2. m <= OutBytes /\ OutBytes \in Nat
    BY BlockDecodeAssumption
  <2> HIDE DEF n
  <2> QED
    BY <2>1, <2>2 DEF FrameLen
<1>5. own \in Seq(Byte) /\ Len(own) = m /\ own[1] = n
  BY <1>2 DEF Framed
<1>6. bulk.bytes = got
  OBVIOUS
<1> HIDE DEF own, got, d, n, m, bulk, start
<1>7. m <= Len(got) /\ Len(got) \in Nat /\ got[1] = n /\ SubSeq(got, 1, m) = own
  <2>1. SubSeq(got, 1, Len(own)) = own /\ Len(own) <= Len(got) /\ Len(got) \in Nat
    BY <1>2, <1>5, Beginning
  <2>2. 1 \in 1..Len(own)
    BY <1>4, <1>5
  <2>3. got[1] = own[1]
    BY <1>2, <2>2 DEF Begins
  <2> QED
    BY <1>5, <2>1, <2>3
<1>8. FrameLen(got[1]) = m
  BY <1>7 DEF m
<1>9. CASE d.done = "Complete"
  <2>1. d.out = SubSeq(got, 1, Len(d.out)) /\ Len(d.out) = FrameLen(got[1])
    BY <1>3, <1>6, <1>9 DEF SameAsWhole
  <2>2. d.out = own
    BY <1>7, <1>8, <2>1
  <2> QED
    BY <1>2, <1>9, <2>2 DEF d, own
<1>10. CASE d.done = "NoStart"
  BY <1>1, <1>3, <1>10 DEF SameAsWhole
<1>11. CASE d.done = "TooLong"
  <2>1. FrameLen(got[1]) > OutBytes
    BY <1>3, <1>6, <1>11 DEF SameAsWhole
  <2> QED
    BY <1>4, <1>8, <2>1
<1>12. CASE d.done \in {"Ended", "Exhausted"}
  <2>1. d.out = got /\ (Len(d.out) >= 4 => Len(d.out) < FrameLen(got[1]))
    BY <1>3, <1>6, <1>12 DEF SameAsWhole
  <2>2. Len(got) >= 4 => Len(got) < m
    BY <1>8, <2>1
  <2> DEFINE z == Len(got)
  <2>3. z \in Nat /\ m <= z /\ (z >= 4 => z < m)
    BY <1>7, <2>2
  <2> HIDE DEF z
  <2> QED
    BY <1>4, <2>3
<1> QED
  BY <1>3, <1>9, <1>10, <1>11, <1>12 DEF Outcome

(* A legible reply is read.  A poll or a probe that catches it from its start
   has its packet or, of a reply with a wrong bit or cut short, nothing; one
   sent whole it has, and if a read asked for that block, and there is room for
   a block, its decode in slices completes and is accepted ("it can never
   produce a corrupt packet", gpio_bus.rs:1007-1010). *)
THEOREM LegibleIsRead ==
  ASSUME NEW k \in DOMAIN Lines, Legible(k), NEW p, p = Lines[k].packet
  PROVE  /\ PacketAsSent(k)
         /\ Intact(p, Lines[k].fault.flip, Lines[k].fault.stop) =>
              /\ Packet[k] = <<p>>
              /\ \A b \in Blocks :
                   (/\ SentBlock(k, b) /\ Len(p.payload) = FrameWords
                    /\ FrameLen(FrameWords) <= OutBytes) => Accepted[k][b]
<1> DEFINE got == Bulk[k].bytes
           flip == Lines[k].fault.flip
           stop == Lines[k].fault.stop
<1>1. p \in Packets
  BY LineType
<1>2. Received(p, flip, stop, got) /\ Packet[k] = ParseFrame(got)
  BY LegibleReceived DEF Packet
<1>3. PacketAsSent(k)
  BY PacketLegible
<1>4. ASSUME Intact(p, flip, stop) PROVE Packet[k] = <<p>>
  <2> HIDE DEF flip, stop, got
  <2> QED
    BY <1>2, <1>4, ReceivedParsed
<1>5. ASSUME Intact(p, flip, stop), NEW b \in Blocks, SentBlock(k, b),
             Len(p.payload) = FrameWords, FrameLen(FrameWords) <= OutBytes
      PROVE  Accepted[k][b]
  <2> DEFINE out == FrameBytes(p)
  <2>1. End[k].done = "Complete" /\ End[k].out = out /\ Framed(p, out)
    BY <1>5, IntactCompletes
  <2>2. p.command = DataTransfer /\ p.payload[1] = Storage /\ p.payload[2] = Location(b)
    BY <1>5 DEF SentBlock
  <2> HIDE DEF out
  <2>3. /\ out[1] = FrameWords /\ out[4] = p.command /\ Crc(out) = 0
        /\ Word(out, 0) = p.payload[1] /\ Word(out, 1) = p.payload[2]
    BY <1>1, <1>5, <2>1, BlockFrame
  <2>4. IsBlock(out, b)
    BY <2>2, <2>3 DEF IsBlock
  <2> QED
    BY <2>1, <2>4 DEF Accepted
<1> QED
  BY <1>3, <1>4, <1>5

(* Nothing is taken from the bus but what a peripheral sent, and for the one
   that asked, whatever order polls, probes, windows and slices come in: where
   the cards answer with what was written to them, and what is not caught from
   its start, or reads as longer or shorter than it is, is not misread, the
   driver keeps a capture to its read until it is unpacked and a frame to its
   read until the block is handed over. *)
THEOREM TakenFromTheBus ==
  ASSUME CardsAnswer, FaultsAreCaught
  PROVE  Spec => []TakenAsSent
<1>1. Init => HeardAsSent
  BY DEF Init, HeardAsSent
<1>2. HeardAsSent /\ [Next]_vars => HeardAsSent'
  <2>1. \A k \in PollLines \cup ProbeLines : PacketAsSent(k)
    BY BusAssumption, PacketLegible DEF FaultsAreCaught
  <2> QED
    BY <2>1, HeardNext
<1>3. \A k \in ReadLines : BlockAsSent(k)
  BY LegibleBlockAsSent DEF FaultsAreCaught
<1>4. BusInv /\ HeardAsSent => TakenAsSent
  <2> SUFFICES ASSUME BusInv, HeardAsSent PROVE TakenAsSent
    OBVIOUS
  <2>1. (latched # None /\ latched.captured # None)
           => streams[latched.captured] = latched.of
    BY DEF BusInv, LatchedAsRead
  <2>2. decoding # None => frame = decoding.of
    BY DEF BusInv, DecodedAsRead
  <2>3. ready # None => /\ SentBlock(ready.of, ready.block)
                        /\ ready.data = Lines[ready.of].image
    BY <1>3 DEF BusInv, ReadyAsRead, BlockAsSent
  <2> QED
    BY <2>1, <2>2, <2>3 DEF HeardAsSent, TakenAsSent
<1> QED
  BY <1>1, <1>2, <1>4, BusInvHolds, PTL DEF Spec
=============================================================================
