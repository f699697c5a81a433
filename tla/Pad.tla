-------------------------------- MODULE Pad --------------------------------
(***************************************************************************)
(* From a poll of the controller to the report a host holds, and the watch  *)
(* that tells a pad at rest: the poll loop's handling of a sample (main.rs), *)
(* the one-slot signal, the notify loop of a connection (ble/task.rs) with   *)
(* its Guide chord, dedup cache and failure budget.                         *)
(*                                                                          *)
(* One Time step stands for every clock; ages stop at their bounds.  A       *)
(* notify tick takes the latest sample, so its two takes are one.  Left out: *)
(* the readable report attribute, the home glyph and the inactivity clock.   *)
(***************************************************************************)
EXTENDS PadReport

CONSTANTS
  Replies,      \* condition replies a controller gives
  Boots,        \* the maps and profiles a boot may load, a sequence
  HoldAge,      \* GUIDE_HOLD_MS
  PulseAge,     \* GUIDE_PULSE_MS
  IdleAge,      \* IDLE_AFTER_TICKS
  Limit,        \* MAX_NOTIFY_FAILURES
  LostAfter     \* CONTROLLER_LOST_THRESHOLD

ASSUME PadAssumption ==
  /\ {HoldAge, PulseAge, IdleAge, Limit, LostAfter} \subseteq Nat \ {0}
  /\ \A b \in DOMAIN Boots : ValidMap(Boots[b].map)

VARIABLES
  boot,        \* which of them this one loaded, before the tasks started
  loop,        \* main: "Out" of the poll loop, "Poll", "Drain" (no host), "Search"
  fail_count,
  pad,         \* the sample RAW_CONTROLLER_STATE was last given
  unread,      \* and whether nobody has taken it
  watch,       \* main's IdleWatch
  link,        \* the connection: up, encrypted, subscribed to input reports
  current,     \* the notify loop's current_state
  chord,       \* its GuideChord
  failures,    \* and its NotifyBudget
  cache,       \* LAST_REPORT
  host,        \* the report the host of this connection was last given
  rested,      \* history: the sample at which the pad last moved
  met          \* history: what this connection met

mainVars == <<loop, fail_count, watch, rested>>
notifyVars == <<current, chord, failures, cache, host, met>>
padVars == <<boot, mainVars, pad, unread, link, notifyVars>>

Unset == -1            \* a clock that does not run
NoReport == <<>>
Down == [up |-> FALSE, encrypted |-> FALSE, subscribed |-> FALSE]
NoChord == [since |-> Unset, fired |-> Unset]
NothingMet == [withheld |-> 0, refused |-> FALSE, hung_up |-> FALSE]

Aged(age, bound) == IF age \in {Unset, bound} THEN age ELSE age + 1

---------------------------------------------------------------------------
(* GuideChord *)

IsHeld(state) ==
  state.trigger_l >= 200 /\ state.trigger_r >= 200 /\ "start" \in state.buttons

Started(age) == IF age = Unset THEN 0 ELSE age

\* Where update leaves the chord...
Updated(c, state) ==
  IF ~IsHeld(state) THEN NoChord
  ELSE [since |-> Started(c.since),
        fired |-> IF Started(c.since) < HoldAge THEN c.fired ELSE Started(c.fired)]

\* ...and whether it emits Guide there: a tap, however long the hold.
EmitsGuide(c) == c.fired # Unset /\ c.fired < PulseAge

---------------------------------------------------------------------------
(* NotifyBudget *)

MaySend(encrypted) == encrypted

Outcomes == {"Withheld", "Sent", "QueueFull", "NotSubscribed", "AttrsMissing", "Refused"}

(* Mutant: every failure counts, those that retrying fixes too. *)
RecordedAll(count, encrypted, outcome) == IF outcome = "Sent" THEN 0 ELSE count + 1

(* Mutant: only what was refused counts; an unencrypted peer stays. *)
RecordedRefused(count, encrypted, outcome) ==
  IF outcome = "Sent" THEN 0 ELSE IF outcome = "Refused" THEN count + 1 ELSE count

Recorded(count, encrypted, outcome) ==
  IF encrypted /\ outcome = "Sent" THEN 0
  ELSE IF encrypted /\ outcome \in {"QueueFull", "NotSubscribed", "AttrsMissing"} THEN count
  ELSE count + 1

HangsUp(count) == count > Limit

---------------------------------------------------------------------------
(* IdleWatch: the anchor is the sample stillness is measured from. *)

NewWatch == [anchor |-> Neutral, since |-> 0, fresh |-> TRUE]

Move == 6              \* STICK_MOVE, TRIGGER_MOVE

Moved(a, b) ==
  \/ a.buttons # b.buttons
  \/ Away(a.stick_x, b.stick_x) > Move \/ Away(a.stick_y, b.stick_y) > Move
  \/ Away(a.trigger_l, b.trigger_l) > Move \/ Away(a.trigger_r, b.trigger_r) > Move

(* Mutant: the anchor is the previous sample. *)
NotedPrevious(w, state) ==
  [anchor |-> state, fresh |-> FALSE, since |-> IF w.fresh \/ Moved(w.anchor, state) THEN 0 ELSE w.since]

Noted(w, state) ==
  IF w.fresh \/ Moved(w.anchor, state) THEN [anchor |-> state, since |-> 0, fresh |-> FALSE] ELSE w

IdleAt(w) == ~w.fresh /\ w.since >= IdleAge

---------------------------------------------------------------------------
PadInit ==
  /\ boot \in DOMAIN Boots
  /\ loop = "Out" /\ fail_count = 0 /\ watch = NewWatch /\ rested = Neutral
  /\ pad = Neutral /\ unread = FALSE
  /\ link = Down
  /\ current = Neutral /\ chord = NoChord /\ failures = 0
  /\ cache = NoReport /\ host = NoReport /\ met = NothingMet

Sample == [reply \in {r \in Replies : IsController(r)} |-> FromPayload(reply)]

Publish(state) == pad' = state /\ unread' = TRUE

(* Main enters the poll loop of a new session. *)
Enter ==
  /\ loop = "Out" /\ link.up
  /\ loop' = "Poll" /\ fail_count' = 0 /\ watch' = NewWatch /\ rested' = Neutral
  /\ UNCHANGED <<boot, pad, unread, link, notifyVars>>

(* The head of a pass or of a try to detect the controller again: main sees
   the drop and lets the buttons go; it may stay to drain. *)
SeesDrop ==
  /\ loop \in {"Poll", "Search"} /\ ~link.up
  /\ Publish(Neutral)
  /\ loop' \in IF loop = "Poll" THEN {"Out", "Drain"} ELSE {"Out"}
  /\ UNCHANGED <<boot, fail_count, watch, rested, link, notifyVars>>

DrainEnds ==
  /\ loop = "Drain"
  /\ loop' = IF link.up THEN "Poll" ELSE "Out"
  /\ UNCHANGED <<boot, fail_count, watch, rested, pad, unread, link, notifyVars>>

PollAnswered(reply) ==
  /\ loop \in {"Poll", "Drain"} /\ IsController(reply)
  /\ LET state == Sample[reply]
     IN  /\ Publish(state)
         /\ watch' = Noted(watch, state)
         /\ rested' = IF watch.fresh \/ Moved(watch.anchor, state) THEN state ELSE rested
  /\ fail_count' = 0
  /\ UNCHANGED <<boot, loop, link, notifyVars>>

(* No answer, or none of a controller; enough of them and it is lost. *)
PollFails ==
  /\ loop \in {"Poll", "Drain"}
  /\ fail_count' = fail_count + 1
  /\ IF fail_count' = LostAfter
     THEN Publish(Neutral) /\ watch' = NewWatch /\ loop' = "Search"
     ELSE UNCHANGED <<pad, unread, watch, loop>>
  /\ UNCHANGED <<boot, rested, link, notifyVars>>

Redetected ==
  /\ loop = "Search" /\ link.up
  /\ loop' = "Poll" /\ fail_count' = 0
  /\ UNCHANGED <<boot, watch, rested, pad, unread, link, notifyVars>>

---------------------------------------------------------------------------
(* The connection. *)

\* A connection starts with fresh locals; its CCCD may be restored with the bond.
Connect ==
  /\ ~link.up
  /\ link' = [Down EXCEPT !.up = TRUE]
  /\ met' = NothingMet
  /\ UNCHANGED <<boot, mainVars, pad, unread, current, chord, failures, cache, host>>

Encrypt ==
  /\ link.up /\ ~link.encrypted
  /\ link' = [link EXCEPT !.encrypted = TRUE]
  /\ UNCHANGED <<boot, mainVars, pad, unread, notifyVars>>

WritesCccd ==
  /\ link.up
  /\ link' = [link EXCEPT !.subscribed = ~@]
  /\ UNCHANGED <<boot, mainVars, pad, unread, notifyVars>>

(* Every end of a connection forgets the last report. *)
Ends ==
  /\ link' = Down
  /\ current' = Neutral /\ chord' = NoChord /\ failures' = 0
  /\ cache' = NoReport /\ host' = NoReport

Drop ==
  /\ link.up /\ Ends
  /\ UNCHANGED <<boot, mainVars, pad, unread, met>>

(* The bytes of each sample under each map, Guide folded in or not. *)
Wire ==
  [b \in DOMAIN Boots |->
   [state \in {Neutral} \cup {Sample[r] : r \in DOMAIN Sample} |-> [guide \in BOOLEAN |->
     ToBytes(RemappedReport(state, Boots[b].map, IsHeld(state), guide), Boots[b].profile)]]]

(* send_report: what may become of these bytes, and of the cache. *)
OutcomesOf(bytes) ==
  IF ~MaySend(link.encrypted) THEN {"Withheld"}
  ELSE IF cache = bytes THEN {"Sent"}
  ELSE {"QueueFull", "NotSubscribed", "AttrsMissing", "Refused"}
       \cup (IF link.subscribed THEN {"Sent"} ELSE {})

(* Mutant: the cache is written before the stack accepts. *)
CachedFirst(bytes, outcome) == IF outcome = "Withheld" THEN cache ELSE bytes

CachedAfter(bytes, outcome) == IF outcome = "Sent" THEN bytes ELSE cache

(* A report is due. *)
NotifyTick(outcome) ==
  /\ link.up
  /\ unread' = FALSE
  /\ LET state  == IF unread THEN pad ELSE current
         held   == Updated(chord, state)
         bytes  == Wire[boot][state][EmitsGuide(held)]
         count  == Recorded(failures, link.encrypted, outcome)
     IN  /\ outcome \in OutcomesOf(bytes)
         /\ IF HangsUp(count) THEN Ends
            ELSE /\ current' = state /\ chord' = held /\ failures' = count
                 /\ cache' = CachedAfter(bytes, outcome)
                 /\ host' = IF outcome = "Sent" /\ cache # bytes THEN bytes ELSE host
                 /\ UNCHANGED link
         /\ met' = [withheld |-> IF outcome = "Withheld" /\ met.withheld <= Limit
                                 THEN met.withheld + 1 ELSE met.withheld,
                    refused |-> met.refused \/ outcome = "Refused",
                    hung_up |-> HangsUp(count)]
  /\ UNCHANGED <<boot, mainVars, pad>>

Time ==
  /\ chord' = [since |-> Aged(chord.since, HoldAge), fired |-> Aged(chord.fired, PulseAge)]
  /\ watch' = [watch EXCEPT !.since = IF watch.fresh THEN @ ELSE Aged(@, IdleAge)]
  /\ UNCHANGED <<boot, loop, fail_count, rested, pad, unread, link, current, failures, cache, host, met>>

Polls == PollFails \/ \E reply \in Replies : PollAnswered(reply)

Sent == NotifyTick("Sent") /\ host' # host

PadNext ==
  \/ Enter \/ SeesDrop \/ DrainEnds \/ Redetected \/ Polls
  \/ Connect \/ Encrypt \/ WritesCccd \/ Drop
  \/ \E outcome \in Outcomes : NotifyTick(outcome)
  \/ Time

PadSpec == PadInit /\ [][PadNext]_padVars

\* Main runs, polls end, the notify timer fires, clocks advance, and a queue that
\* drains again and again takes a report.
FairSpec ==
  /\ PadSpec
  /\ WF_padVars(Enter \/ SeesDrop \/ DrainEnds) /\ WF_padVars(Polls)
  /\ WF_padVars(\E outcome \in Outcomes : NotifyTick(outcome))
  /\ WF_padVars(Time)
  /\ SF_padVars(Sent)

---------------------------------------------------------------------------
(* A sample after which the pad reads idle is within rest noise of the one at
   which it last counted as moving, however slowly it was pushed
   (input_idle.rs:15-22). *)
SlowPushIsInput ==
  [][pad' # pad /\ loop' = loop /\ IdleAt(watch') => ~Moved(rested', pad')]_<<pad, mainVars>>

(* A connection is hung up on only after the stack refused a report for good,
   or after more reports than the budget fell due on a link never encrypted: a
   full queue or a host slow to subscribe never costs it the link. *)
HangsUpForCause == met.hung_up => met.refused \/ met.withheld > Limit

Served == link.up /\ link.encrypted /\ link.subscribed

Shown == Wire[boot][pad][FALSE]

(* Once the pad rests and the link stays, the host's report becomes the pad's
   and stays so, whatever was refused, withheld, skipped as unchanged or
   suppressed by a chord on the way. *)
HostCatchesUp ==
  (<>[]Served /\ <>[][pad' = pad]_pad) => <>[](host = Shown)

(* A peer that never encrypts does not keep the only connection, even while
   the pad is untouched and no report would have been sent. *)
PlainPeerIsShed == link.up ~> link.encrypted \/ ~link.up
=============================================================================
