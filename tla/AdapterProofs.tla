---- MODULE AdapterProofs ----
(***************************************************************************)
(* Theorems of Adapter, the three tasks together, for every bound on the   *)
(* saves under way: what runs belongs to somebody, a closed admission has  *)
(* its end coming, and nobody goes down over an acknowledged save.         *)
(***************************************************************************)
EXTENDS Adapter, TLAPS

USE SavesAssumption DEF mainOwn, bleOwn, buttonOwn, signals, flags, service

---------------------------------------------------------------------------
(* Types. *)

\* TypeOK, a conjunct to a variable.
Typed ==
  /\ sync_mode \in BOOLEAN /\ wake_request \in BOOLEAN /\ profile_change \in BOOLEAN
  /\ sleep_request \in BOOLEAN /\ goodbye_pending \in BOOLEAN
  /\ shutdown_forced \in BOOLEAN /\ dfu_pending \in BOOLEAN
  /\ rumble_level \in BOOLEAN /\ vmu_present \in BOOLEAN
  /\ writes_paused \in BOOLEAN
  /\ link_lost \in BOOLEAN /\ rail \in BOOLEAN /\ splash_tried \in BOOLEAN
  /\ motor \in BOOLEAN
  /\ bonded \in BOOLEAN /\ had_connection \in BOOLEAN
  /\ blink_is_older \in BOOLEAN /\ in_sync \in BOOLEAN
  /\ connection_state \in ConnectionState
  /\ saves \in 0..MaxSaves /\ down \in Down \cup {"No"}
  /\ main \in Places /\ goodbye_state \in GoodbyeState /\ rail_hold \in RailHold
  /\ ble \in Awaits /\ button \in Gestures

LEMMA TypesTyped == TypeOK <=> Typed
BY DEF Typed, TypeOK, StateTypeOK, MainTypeOK, BleTypeOK, ButtonTypeOK

LEMMA MainTypes ==
  ASSUME Typed, MainSteps
  PROVE  Typed'
<1> USE DEF MainSteps, Places, GoodbyeState, RailHold
<1>1. CASE ConnectionSeen
  <2>1. rail' \in BOOLEAN /\ splash_tried' \in BOOLEAN
    BY <1>1, Zenon DEF Typed, ConnectionSeen
  <2> QED
    BY <1>1, <2>1 DEF Typed, ConnectionSeen
<1>2. ASSUME NEW elapsed \in BOOLEAN, P1Goodbye(elapsed)
      PROVE  Typed'
  <2>1. rail' \in BOOLEAN /\ splash_tried' \in BOOLEAN
    BY <1>2, Zenon DEF Typed, P1Goodbye, StillTried
  <2> QED
    BY <1>2, <2>1 DEF Typed, P1Goodbye, PassHead, StillTried
<1>3. ASSUME NEW elapsed \in BOOLEAN, P1DfuAsked(elapsed)
      PROVE  Typed'
  <2>1. dfu_pending' \in BOOLEAN /\ rail' \in BOOLEAN /\ splash_tried' \in BOOLEAN
    BY <1>3, Zenon DEF Typed, P1DfuAsked, StillTried
  <2> QED
    BY <1>3, <2>1 DEF Typed, P1DfuAsked, PassHead, StillTried
<1>4. ASSUME NEW elapsed \in BOOLEAN, P1Pass(elapsed)
      PROVE  Typed'
  <2>1. rail' \in BOOLEAN /\ splash_tried' \in BOOLEAN
    BY <1>4, Zenon DEF Typed, P1Pass, PassHead, RestOfPass, StillTried
  <2> QED
    BY <1>4, <2>1 DEF Typed, P1Pass, PassHead, RestOfPass
<1>5. CASE P1DfuRefused
  <2>1. rail' \in BOOLEAN /\ splash_tried' \in BOOLEAN
    BY <1>5, Zenon DEF Typed, P1DfuRefused, RestOfPass, StillTried
  <2> QED
    BY <1>5, <2>1 DEF Typed, P1DfuRefused, RestOfPass
<1>6. CASE DetectAborted
  <2>1. rumble_level' \in BOOLEAN
    BY <1>6, Zenon DEF Typed, DetectAborted
  <2> QED
    BY <1>6, <2>1 DEF Typed, DetectAborted
<1>7. CASE P2DfuAsked
  <2>1. dfu_pending' \in BOOLEAN
    BY <1>7, Zenon DEF Typed, P2DfuAsked
  <2> QED
    BY <1>7, <2>1 DEF Typed, P2DfuAsked
<1>8. CASE Found
  <2>1. link_lost' \in BOOLEAN
    BY <1>8, Zenon DEF Typed, Found
  <2> QED
    BY <1>8, <2>1 DEF Typed, Found
<1>9. ASSUME NEW elapsed \in BOOLEAN, PassConnected(elapsed)
      PROVE  Typed'
  <2>1. /\ link_lost' \in BOOLEAN /\ motor' \in BOOLEAN
        /\ rumble_level' \in BOOLEAN /\ dfu_pending' \in BOOLEAN
    BY <1>9, Zenon DEF Typed, PassConnected, RumbleApplied, DfuTaken
  <2> QED
    BY <1>9, <2>1 DEF Typed, PassConnected, GoodbyeNext, RumbleApplied, DfuTaken
<1>10. ASSUME NEW elapsed \in BOOLEAN, PassHeld(elapsed)
      PROVE  Typed'
  <2>1. /\ link_lost' \in BOOLEAN /\ motor' \in BOOLEAN
        /\ rumble_level' \in BOOLEAN /\ dfu_pending' \in BOOLEAN
    BY <1>10, Zenon DEF Typed, PassHeld, RumbleApplied, Silenced, DfuTaken
  <2> QED
    BY <1>10, <2>1 DEF Typed, PassHeld, GoodbyeNext, RumbleApplied, Silenced,
       DfuTaken
<1>11. ASSUME NEW late \in BOOLEAN, NEW drawable \in BOOLEAN, PassLeaves(late, drawable)
      PROVE  Typed'
  <2>1. /\ link_lost' \in BOOLEAN /\ motor' \in BOOLEAN
        /\ rumble_level' \in BOOLEAN /\ splash_tried' \in BOOLEAN
        /\ vmu_present' \in BOOLEAN
    BY <1>11, Zenon DEF Typed, PassLeaves, Left, Silenced, Unwatched
  <2> QED
    BY <1>11, <2>1 DEF Typed, PassLeaves, Left, Silenced, Unwatched
<1>12. CASE SyncShown
  <2>1. link_lost' \in BOOLEAN /\ vmu_present' \in BOOLEAN
    BY <1>12, Zenon DEF Typed, SyncShown, Left, Unwatched
  <2> QED
    BY <1>12, <2>1 DEF Typed, SyncShown, Left, Unwatched
<1>13. ASSUME NEW allowed \in BOOLEAN, DfuGated(allowed)
      PROVE  Typed'
  <2>1. writes_paused' \in BOOLEAN
    BY <1>13, Zenon DEF Typed, DfuGated, PauseWritesUnlessDraining
  <2> QED
    BY <1>13, <2>1 DEF Typed, DfuGated, PauseWritesUnlessDraining
<1>14. CASE CardGone
  <2>1. vmu_present' \in BOOLEAN
    BY <1>14, Zenon DEF Typed, CardGone, Unwatched
  <2> QED
    BY <1>14, <2>1 DEF Typed, CardGone, BodyDone, Unwatched
<1>15. CASE ControllerLost
  <2>1. vmu_present' \in BOOLEAN
    BY <1>15, Zenon DEF Typed, ControllerLost, Unwatched
  <2> QED
    BY <1>15, <2>1 DEF Typed, ControllerLost, Unwatched
<1>16. CASE RedetectAborted
  <2>1. /\ link_lost' \in BOOLEAN /\ motor' \in BOOLEAN
        /\ rumble_level' \in BOOLEAN /\ vmu_present' \in BOOLEAN
    BY <1>16, Zenon DEF Typed, RedetectAborted, Left, Unwatched
  <2> QED
    BY <1>16, <2>1 DEF Typed, RedetectAborted, Left, Unwatched
<1>17. CASE P1DfuAllowed
  BY <1>17 DEF Typed, P1DfuAllowed
<1>18. ASSUME NEW seen \in BOOLEAN, P1SyncShown(seen)
      PROVE  Typed'
  BY <1>18 DEF Typed, P1SyncShown
<1>19. CASE P2DfuRefused
  BY <1>19 DEF Typed, P2DfuRefused
<1>20. CASE NothingNew
  BY <1>20 DEF Typed, NothingNew, BodyDone
<1>21. CASE CardFound
  BY <1>21 DEF Typed, CardFound, BodyDone
<1>22. CASE SaveWritten
  BY <1>22 DEF Typed, SaveWritten, BodyDone, Draining
<1>23. CASE SaveRefused
  BY <1>23 DEF Typed, SaveRefused, BodyDone
<1>24. CASE Refound
  BY <1>24 DEF Typed, Refound
<1>30. CASE Phase1
  BY <1>30, <1>1, <1>2, <1>3, <1>4, <1>5, <1>17, <1>18 DEF Phase1
<1>31. CASE Phase2
  BY <1>31, <1>6, <1>7, <1>8, <1>19 DEF Phase2
<1>32. CASE Phase3
  <2>1. link_lost \in BOOLEAN
    BY DEF Typed
  <2>2. CASE \E late \in {FALSE, link_lost},
                drawable \in {FALSE, connection_state = "SyncMode"} : PassLeaves(late, drawable)
    BY <2>1, <2>2, <1>11
  <2> QED
    BY <1>32, <2>2, <1>9, <1>10, <1>11, <1>12, <1>13, <1>14, <1>15, <1>16,
       <1>20, <1>21, <1>22, <1>23, <1>24 DEF Phase3
<1> QED
  BY <1>30, <1>31, <1>32 DEF MainRuns

LEMMA BleTypes ==
  ASSUME Typed, BleSteps
  PROVE  Typed'
<1> USE DEF BleSteps, Awaits, ConnectionState, Goes
<1>1. CASE OpenWindow
  <2>1. sync_mode' \in BOOLEAN
    BY <1>1, Zenon DEF Typed, OpenWindow
  <2> QED
    BY <1>1, <2>1 DEF Typed, OpenWindow
<1>2. CASE SyncWhileApart
  <2>1. sync_mode' \in BOOLEAN /\ wake_request' \in BOOLEAN
    BY <1>2, Zenon DEF Typed, SyncWhileApart
  <2> QED
    BY <1>2, <2>1 DEF Typed, SyncWhileApart
<1>3. CASE Woken
  <2>1. wake_request' \in BOOLEAN /\ had_connection' \in BOOLEAN
    BY <1>3, Zenon DEF Typed, Woken
  <2> QED
    BY <1>3, <2>1 DEF Typed, Woken
<1>4. CASE RequestSleep
  <2>1. wake_request' \in BOOLEAN
    BY <1>4, Zenon DEF Typed, RequestSleep
  <2> QED
    BY <1>4, <2>1 DEF Typed, RequestSleep
<1>5. CASE WindowOver
  <2>1. had_connection' \in BOOLEAN
    BY <1>5, Zenon DEF Typed, WindowOver
  <2> QED
    BY <1>5, <2>1 DEF Typed, WindowOver
<1>6. CASE RefusedForSync
  <2>1. sync_mode' \in BOOLEAN
    BY <1>6, Zenon DEF Typed, RefusedForSync
  <2> QED
    BY <1>6, <2>1 DEF Typed, RefusedForSync
<1>7. ASSUME NEW blinking \in BOOLEAN, Connected(blinking)
      PROVE  Typed'
  <2>1. writes_paused' \in BOOLEAN /\ blink_is_older' \in BOOLEAN
    BY <1>7, Zenon DEF Typed, Connected, ServiceReset
  <2> QED
    BY <1>7, <2>1 DEF Typed, Connected, ServiceReset
<1>8. ASSUME NEW stays \in BOOLEAN, CandidateBonds(stays)
      PROVE  Typed'
  <2>1. bonded' \in BOOLEAN /\ had_connection' \in BOOLEAN
    BY <1>8, Zenon DEF Typed, CandidateBonds
  <2> QED
    BY <1>8, <2>1 DEF Typed, CandidateBonds
<1>9. CASE SessionSynced
  <2>1. sync_mode' \in BOOLEAN
    BY <1>9, Zenon DEF Typed, SessionSynced
  <2> QED
    BY <1>9, <2>1 DEF Typed, SessionSynced
<1>10. ASSUME NEW intentional \in BOOLEAN, SessionEnded(intentional)
      PROVE  Typed'
  <2>1. had_connection' \in BOOLEAN
    BY <1>10, Zenon DEF Typed, SessionEnded
  <2> QED
    BY <1>10, <2>1 DEF Typed, SessionEnded
<1>11. CASE NoBondYet
  BY <1>11 DEF Typed, NoBondYet
<1>12. CASE Reconnect
  BY <1>12 DEF Typed, Reconnect
<1>13. CASE BurstOver
  BY <1>13 DEF Typed, BurstOver
<1>14. CASE HungUpForSync
  BY <1>14 DEF Typed, HungUpForSync
<1>15. CASE CandidateRefused
  BY <1>15 DEF Typed, CandidateRefused
<1>16. CASE SaveAcked
  BY <1>16 DEF Typed, SaveAcked
<1>17. ASSUME NEW linked \in BOOLEAN, SessionStarts(linked)
      PROVE  Typed'
  BY <1>17 DEF Typed, SessionStarts
<1>18. CASE SessionDrops
  BY <1>18 DEF Typed, SessionDrops
<1>19. ASSUME NEW running \in BOOLEAN, RumbleWritten(running)
      PROVE  Typed'
  BY <1>19 DEF Typed, RumbleWritten
<1>20. CASE BleRuns
  BY <1>20, <1>1, <1>2, <1>3, <1>4, <1>5, <1>9, <1>10, <1>11, <1>12, <1>13, <1>14,
     <1>15, <1>17 DEF BleRuns
<1>21. CASE Peers(button = "Blinking", motor)
  <2>1. (button = "Blinking") \in BOOLEAN /\ motor \in BOOLEAN
    BY DEF Typed
  <2> QED
    BY <2>1, <1>21, <1>6, <1>7, <1>8, <1>16, <1>18, <1>19 DEF Peers
<1> QED
  BY <1>20, <1>21

LEMMA ButtonTypes ==
  ASSUME Typed, ButtonSteps
  PROVE  Typed'
<1> USE DEF ButtonSteps, Gestures
<1>1. CASE Press
  <2>1. in_sync' \in BOOLEAN
    BY <1>1, Zenon DEF Typed, Press
  <2> QED
    BY <1>1, <2>1 DEF Typed, Press
<1>2. ASSUME NEW silent \in BOOLEAN, ShortPress(silent)
      PROVE  Typed'
  <2>1. wake_request' \in BOOLEAN /\ in_sync' \in BOOLEAN
    BY <1>2, Zenon DEF Typed, ShortPress, Wakes
  <2> QED
    BY <1>2, <2>1 DEF Typed, ShortPress, Wakes
<1>3. ASSUME NEW silent \in BOOLEAN, TriplePress(silent)
      PROVE  Typed'
  <2>1. wake_request' \in BOOLEAN /\ writes_paused' \in BOOLEAN
    BY <1>3, Zenon DEF Typed, TriplePress, Wakes, PauseWritesUnlessDraining
  <2> QED
    BY <1>3, <2>1 DEF Typed, TriplePress, Wakes, PauseWritesUnlessDraining
<1>4. CASE PassesSync
  <2>1. in_sync' \in BOOLEAN
    BY <1>4, Zenon DEF Typed, PassesSync
  <2> QED
    BY <1>4, <2>1 DEF Typed, PassesSync
<1>5. CASE ReleaseForSync
  <2>1. sync_mode' \in BOOLEAN /\ writes_paused' \in BOOLEAN
    BY <1>5, Zenon DEF Typed, ReleaseForSync, PauseWritesUnlessDraining
  <2> QED
    BY <1>5, <2>1 DEF Typed, ReleaseForSync, PauseWritesUnlessDraining
<1>6. CASE RequestDfu
  BY <1>6 DEF Typed, RequestDfu
<1>7. CASE RequestConfig
  BY <1>7 DEF Typed, RequestConfig
<1>8. CASE CommitSleep
  BY <1>8 DEF Typed, CommitSleep
<1>9. CASE ForceOff
  BY <1>9 DEF Typed, ForceOff
<1>10. CASE Release
  BY <1>10 DEF Typed, Release
<1> QED
  BY <1>1, <1>2, <1>3, <1>4, <1>5, <1>6, <1>7, <1>8, <1>9, <1>10 DEF Person

LEMMA BlinkTypes ==
  ASSUME Typed, BlinkEnds
  PROVE  Typed'
<1>1. blink_is_older' \in BOOLEAN
  BY Zenon DEF BlinkEnds
<1> QED
  BY <1>1 DEF Typed, BlinkEnds, Blinked, Gestures

LEMMA DownTypes ==
  ASSUME Typed, NEW how \in Down, GoesDown(how)
  PROVE  Typed'
<1>1. /\ sync_mode' \in BOOLEAN /\ wake_request' \in BOOLEAN
      /\ profile_change' \in BOOLEAN
      /\ sleep_request' \in BOOLEAN /\ goodbye_pending' \in BOOLEAN
      /\ shutdown_forced' \in BOOLEAN /\ dfu_pending' \in BOOLEAN
      /\ rumble_level' \in BOOLEAN /\ vmu_present' \in BOOLEAN
      /\ writes_paused' \in BOOLEAN
  BY Zenon DEF GoesDown, StateLost
<1>2. /\ link_lost' \in BOOLEAN /\ rail' \in BOOLEAN /\ splash_tried' \in BOOLEAN
      /\ motor' \in BOOLEAN
  BY Zenon DEF GoesDown, MainLost
<1>3. /\ bonded' \in BOOLEAN /\ had_connection' \in BOOLEAN
      /\ blink_is_older' \in BOOLEAN
      /\ in_sync' \in BOOLEAN
  BY Zenon DEF GoesDown, BleLost, ButtonLost, Typed
<1> QED
  BY <1>1, <1>2, <1>3 DEF Typed, GoesDown, StateLost, MainLost, BleLost,
     ButtonLost,
     ConnectionState, Places, GoodbyeState, RailHold, Awaits, Gestures

---------------------------------------------------------------------------
(* The inductive invariant. *)

Loop      == {"Top", "Battery", "Boot", "SyncSplash", "Body", "Redetect"}
InSession == {"Setup", "Admitted", "Serving", "Ending", "SyncDrop"}

(* What runs, and for whom.  In Phases 2 and 3 the rail is up; in Phase 1 a
   hold owns it, but while a splash is drawn or a reboot under way. *)
Owned ==
  /\ main \in {"Wait", "P1Battery"} => (rail <=> rail_hold # "Released")
  /\ main \in {"Detect", "P2Battery"} \cup Loop => rail
  /\ main = "SyncSplash" => rail_hold = "Sync"
  /\ main \notin {"Top", "Battery", "Boot", "Body", "Redetect"} => ~motor

(* The card is watched from the poll loop alone, and saves are staged for a
   card that is watched. *)
Watched ==
  /\ vmu_present => main \in Loop \ {"Redetect"}
  /\ saves > 0 => vmu_present

(* Where ble_task is and what it says of the connection. *)
Stated ==
  /\ ble \in InSession <=> connection_state = "Connected"
  /\ ble \in {"Window", "Provisional"} => connection_state = "SyncMode"
  /\ ~bonded => ble \in {"Top", "Window", "Provisional", "Parked"} /\ saves = 0

(* From the moment a drop was seen the motor is silent, and no level is left
   to start it: a level can only come from a session, and by the time a session
   may end the loop has seen it begin, or has lost its controller and card. *)
Silent ==
  /\ link_lost => main \in {"Top", "SyncSplash", "Body", "Redetect"} /\ ~motor
  /\ link_lost /\ ble \in {"Serving", "Ending", "SyncDrop"} =>
       ~vmu_present /\ main # "Body"
  /\ link_lost /\ connection_state # "Connected" /\ (vmu_present \/ main = "Body")
       => ~rumble_level

(* A sync press closes admission over an empty drain, and a window opens over
   one. *)
Closed ==
  /\ sync_mode => writes_paused /\ saves = 0
  /\ connection_state = "SyncMode" \/ ble = "SyncDrop" => saves = 0

(* Admission is closed for something that is still under way, in every state of
   a link that may come to be served. *)
Pending ==
  ble \in {"Setup", "Provisional", "Admitted", "Serving"} /\ writes_paused =>
    sync_mode \/ profile_change \/ button = "Blinking" \/ main = "Boot"

Accounts == Owned /\ Watched /\ Stated /\ Silent /\ Closed /\ Pending

LEMMA MainKeeps ==
  ASSUME Typed, Accounts, MainSteps
  PROVE  Accounts'
<1> USE DEF MainSteps, Typed, Accounts, Loop, InSession, Owned, Watched, Stated, Silent,
            Closed, Pending, Draining
<1>1. CASE ConnectionSeen
  BY <1>1 DEF ConnectionSeen
<1>2. CASE P1DfuRefused
  BY <1>2 DEF P1DfuRefused, RestOfPass, StillTried
<1>3. CASE P1DfuAllowed
  BY <1>3 DEF P1DfuAllowed
<1>4. ASSUME NEW elapsed \in BOOLEAN, P1Goodbye(elapsed)
      PROVE  Accounts'
  BY <1>4 DEF P1Goodbye, PassHead, IsOver, StillTried
<1>5. ASSUME NEW elapsed \in BOOLEAN, P1DfuAsked(elapsed)
      PROVE  Accounts'
  BY <1>5 DEF P1DfuAsked, PassHead, IsOver, StillTried
<1>6. ASSUME NEW elapsed \in BOOLEAN, P1Pass(elapsed)
      PROVE  Accounts'
  BY <1>6 DEF P1Pass, PassHead, IsOver, RestOfPass, StillTried
<1>7. ASSUME NEW seen \in BOOLEAN, P1SyncShown(seen)
      PROVE  Accounts'
  BY <1>7 DEF P1SyncShown
<1>8. CASE DetectAborted
  BY <1>8 DEF DetectAborted
<1>9. CASE P2DfuAsked
  BY <1>9 DEF P2DfuAsked, GoodbyeDue
<1>10. CASE P2DfuRefused
  BY <1>10 DEF P2DfuRefused
<1>11. CASE Found
  BY <1>11 DEF Found, GoodbyeDue
<1>12. ASSUME NEW elapsed \in BOOLEAN, PassConnected(elapsed)
      PROVE  Accounts'
    BY <1>12 DEF PassConnected, GoodbyeNext, MaySleep, GoodbyeStarts, ByeWaited,
     RumbleApplied, DfuTaken
<1>13. ASSUME NEW elapsed \in BOOLEAN, PassHeld(elapsed)
      PROVE  Accounts'
    BY <1>13 DEF PassHeld, GoodbyeNext, MaySleep, GoodbyeStarts, ByeWaited, Holds,
     DfuTaken, RumbleApplied, Silenced
<1>14. ASSUME NEW late \in BOOLEAN, NEW drawable \in BOOLEAN, PassLeaves(late, drawable)
      PROVE  Accounts'
  BY <1>14 DEF PassLeaves, MaySleep, Holds, Silenced, Left, Unwatched
<1>15. CASE SyncShown
  BY <1>15 DEF SyncShown, Left, Unwatched
<1>16. ASSUME NEW allowed \in BOOLEAN, DfuGated(allowed)
      PROVE  Accounts'
  BY <1>16 DEF DfuGated, PauseWritesUnlessDraining
<1>17. CASE NothingNew
  BY <1>17 DEF NothingNew, BodyDone
<1>18. CASE CardFound
  BY <1>18 DEF CardFound, BodyDone
<1>19. CASE CardGone
  BY <1>19 DEF CardGone, BodyDone, Unwatched
<1>20. CASE SaveWritten
  BY <1>20 DEF SaveWritten, BodyDone
<1>21. CASE SaveRefused
  BY <1>21 DEF SaveRefused, BodyDone
<1>22. CASE ControllerLost
  BY <1>22 DEF ControllerLost, Unwatched
<1>23. CASE RedetectAborted
  BY <1>23 DEF RedetectAborted, Left, Unwatched
<1>24. CASE Refound
  BY <1>24 DEF Refound, GoodbyeDue
<1>30. CASE Phase1
  BY <1>30, <1>1, <1>2, <1>3, <1>4, <1>5, <1>6, <1>7 DEF Phase1
<1>31. CASE Phase2
  BY <1>31, <1>8, <1>9, <1>10, <1>11 DEF Phase2
<1>32. CASE Phase3
  <2>1. link_lost \in BOOLEAN
    BY DEF Typed
  <2>2. CASE \E late \in {FALSE, link_lost},
                drawable \in {FALSE, connection_state = "SyncMode"} : PassLeaves(late, drawable)
    BY <2>1, <2>2, <1>14
  <2> QED
    BY <1>32, <2>2, <1>12, <1>13, <1>15, <1>16, <1>17, <1>18, <1>19, <1>20,
       <1>21, <1>22, <1>23, <1>24 DEF Phase3
<1> QED
  BY <1>30, <1>31, <1>32 DEF MainSteps, MainRuns

LEMMA BleKeeps ==
  ASSUME Typed, Accounts, BleSteps
  PROVE  Accounts'
<1> USE DEF BleSteps, Goes, Typed, Accounts, Loop, InSession, Owned, Watched, Stated,
            Silent, Closed, Pending, Draining
<1>1. CASE NoBondYet
  BY <1>1 DEF NoBondYet
<1>2. CASE Reconnect
  BY <1>2 DEF Reconnect
<1>3. CASE OpenWindow
  BY <1>3 DEF OpenWindow
<1>4. CASE BurstOver
  BY <1>4 DEF BurstOver
<1>5. CASE SyncWhileApart
  BY <1>5 DEF SyncWhileApart
<1>6. CASE Woken
  BY <1>6 DEF Woken
<1>7. CASE RequestSleep
  BY <1>7 DEF RequestSleep
<1>8. CASE WindowOver
  BY <1>8 DEF WindowOver
<1>9. ASSUME NEW linked \in BOOLEAN, SessionStarts(linked)
      PROVE  Accounts'
  BY <1>9 DEF SessionStarts, DropSeen, SessionSeen
<1>10. CASE SessionSynced
  BY <1>10 DEF SessionSynced
<1>11. CASE HungUpForSync
  BY <1>11 DEF HungUpForSync
<1>12. ASSUME NEW intentional \in BOOLEAN, SessionEnded(intentional)
      PROVE  Accounts'
  BY <1>12 DEF SessionEnded
<1>13. CASE CandidateRefused
  BY <1>13 DEF CandidateRefused
<1>14. CASE RefusedForSync
  BY <1>14 DEF RefusedForSync
<1>15. ASSUME NEW blinking \in BOOLEAN, Connected(blinking)
      PROVE  Accounts'
  BY <1>15 DEF Connected, ServiceReset, DropSeen, SessionSeen
<1>16. ASSUME NEW stays \in BOOLEAN, CandidateBonds(stays)
      PROVE  Accounts'
  BY <1>16 DEF CandidateBonds, DropSeen, SessionSeen
<1>17. CASE SaveAcked
  BY <1>17 DEF SaveAcked, Served
<1>18. ASSUME NEW running \in BOOLEAN, RumbleWritten(running)
      PROVE  Accounts'
  BY <1>18 DEF RumbleWritten, Served
<1>19. CASE SessionDrops
  BY <1>19 DEF SessionDrops
<1>20. CASE BleRuns
  BY <1>20, <1>1, <1>2, <1>3, <1>4, <1>5, <1>6, <1>7, <1>8, <1>9, <1>10, <1>11, <1>12,
     <1>13 DEF BleRuns
<1>21. CASE Peers(button = "Blinking", motor)
  <2>1. (button = "Blinking") \in BOOLEAN /\ motor \in BOOLEAN
    BY DEF Typed
  <2> QED
    BY <2>1, <1>21, <1>14, <1>15, <1>16, <1>17, <1>18, <1>19 DEF Peers
<1> QED
  BY <1>20, <1>21

LEMMA ButtonKeeps ==
  ASSUME Typed, Accounts, ButtonSteps
  PROVE  Accounts'
<1> USE DEF ButtonSteps, Typed, Accounts, Loop, InSession, Owned, Watched, Stated, Silent,
            Closed, Pending, Draining
<1>1. CASE Press
  BY <1>1 DEF Press
<1>2. ASSUME NEW silent \in BOOLEAN, ShortPress(silent)
      PROVE  Accounts'
  BY <1>2 DEF ShortPress, Wakes
<1>3. ASSUME NEW silent \in BOOLEAN, TriplePress(silent)
      PROVE  Accounts'
  BY <1>3 DEF TriplePress, Wakes, PauseWritesUnlessDraining
<1>4. CASE PassesSync
  BY <1>4 DEF PassesSync
<1>5. CASE RequestDfu
  BY <1>5 DEF RequestDfu
<1>6. CASE RequestConfig
  BY <1>6 DEF RequestConfig
<1>7. CASE CommitSleep
  BY <1>7 DEF CommitSleep
<1>8. CASE ForceOff
  BY <1>8 DEF ForceOff
<1>9. CASE ReleaseForSync
  BY <1>9 DEF ReleaseForSync, PauseWritesUnlessDraining
<1>10. CASE Release
  BY <1>10 DEF Release
<1> QED
  BY <1>1, <1>2, <1>3, <1>4, <1>5, <1>6, <1>7, <1>8, <1>9, <1>10 DEF Person

LEMMA BlinkKeeps ==
  ASSUME Typed, Accounts, BlinkEnds
  PROVE  Accounts'
BY DEF Typed, Accounts, Owned, Watched, Stated, Silent, Closed, Pending,
   BlinkEnds, Blinked

\* Down, nothing is left to account for.
LEMMA DownKeeps ==
  ASSUME NEW how \in Down, GoesDown(how)
  PROVE  Accounts'
BY DEF Accounts, Owned, Watched, Stated, Silent, Closed, Pending, Loop, InSession,
   GoesDown, StateLost, MainLost, BleLost, ButtonLost

\* While the tasks run, the unit is up.
LEMMA StaysUp ==
  ASSUME MainSteps \/ BleSteps \/ BlinkEnds \/ ButtonSteps
  PROVE  down' = down
<1>1. CASE MainSteps
  <2>1. CASE Phase1
    BY <2>1 DEF Phase1, RestOfPass, ConnectionSeen, P1DfuRefused, P1DfuAllowed,
       P1Goodbye, P1DfuAsked, P1Pass, P1SyncShown
  <2>2. CASE Phase2
    BY <2>2 DEF Phase2, DetectAborted, P2DfuAsked, P2DfuRefused, Found
  <2>3. CASE Phase3
    BY <2>3 DEF Phase3, BodyDone, PassConnected, PassHeld, PassLeaves, SyncShown,
       DfuGated, NothingNew, CardFound, CardGone, SaveWritten, SaveRefused,
       ControllerLost, RedetectAborted, Refound
  <2> QED
    BY <1>1, <2>1, <2>2, <2>3 DEF MainSteps, MainRuns
<1>2. CASE BleSteps
  BY <1>2 DEF BleSteps, BleRuns, Peers, NoBondYet, Reconnect, OpenWindow, BurstOver,
     SyncWhileApart, Woken, RequestSleep, WindowOver, SessionStarts, SessionSynced,
     HungUpForSync, SessionEnded, CandidateRefused, RefusedForSync, Connected,
     CandidateBonds, SaveAcked, RumbleWritten, SessionDrops
<1>3. CASE BlinkEnds
  BY <1>3 DEF BlinkEnds, Blinked
<1>4. CASE ButtonSteps
  BY <1>4 DEF ButtonSteps, Person, Press, ShortPress, TriplePress, PassesSync,
     RequestDfu, RequestConfig, CommitSleep, ForceOff, ReleaseForSync, Release
<1> QED
  BY <1>1, <1>2, <1>3, <1>4

LEMMA AdapterInit ==
  ASSUME Init
  PROVE  Typed /\ Accounts
<1> USE DEF Init, StateInit, MainInit, BleInit, ButtonInit
<1>1. /\ sync_mode \in BOOLEAN /\ wake_request \in BOOLEAN /\ profile_change \in BOOLEAN
      /\ sleep_request \in BOOLEAN /\ goodbye_pending \in BOOLEAN
      /\ shutdown_forced \in BOOLEAN /\ dfu_pending \in BOOLEAN
      /\ rumble_level \in BOOLEAN /\ vmu_present \in BOOLEAN /\ writes_paused \in BOOLEAN
  BY Zenon
<1>2. /\ link_lost \in BOOLEAN /\ rail \in BOOLEAN /\ splash_tried \in BOOLEAN
      /\ motor \in BOOLEAN
      /\ bonded \in BOOLEAN /\ had_connection \in BOOLEAN /\ blink_is_older \in BOOLEAN
      /\ in_sync \in BOOLEAN
  BY Zenon
<1>3. Typed
  BY <1>1, <1>2 DEF Typed, ConnectionState, Places, GoodbyeState, RailHold, Awaits, Gestures
<1>4. Accounts
  BY DEF Accounts, Owned, Watched, Stated, Silent, Closed, Pending, Loop, InSession
<1> QED
  BY <1>3, <1>4

LEMMA AdapterNext ==
  ASSUME Typed, Accounts, [Next]_vars
  PROVE  Typed' /\ Accounts'
<1>1. ASSUME NEW how \in Down, GoesDown(how)
      PROVE  Typed' /\ Accounts'
  BY <1>1, DownTypes, DownKeeps
<1>2. CASE Sleep \/ OtherDowns \/ Reset
  BY <1>1, <1>2 DEF Sleep, OtherDowns, Reset, Down
<1>3. CASE MainSteps
  BY <1>3, MainTypes, MainKeeps
<1>4. CASE BleSteps
  BY <1>4, BleTypes, BleKeeps
<1>5. CASE BlinkEnds
  BY <1>5, BlinkTypes, BlinkKeeps
<1>6. CASE ButtonSteps
  BY <1>6, ButtonTypes, ButtonKeeps
<1>7. CASE Boot \/ UNCHANGED vars
    BY <1>7 DEF Boot, vars, Typed, Accounts, Owned, Watched, Stated, Silent,
     Closed, Pending
<1> QED
  BY <1>2, <1>3, <1>4, <1>5, <1>6, <1>7 DEF Next

LEMMA AdapterAccounts == Spec => [](Typed /\ Accounts)
<1>1. Init => Typed /\ Accounts
  BY AdapterInit
<1>2. Typed /\ Accounts /\ [Next]_vars => (Typed /\ Accounts)'
  BY AdapterNext
<1> QED
  BY <1>1, <1>2, PTL DEF Spec

---------------------------------------------------------------------------

\* Every variable of the three tasks keeps its type, however they interleave.
THEOREM AdapterTypes == Spec => []TypeOK
BY AdapterAccounts, TypesTyped, PTL

\* What runs belongs to somebody: whichever way main got back to waiting, the
\* rail is up exactly for a hold, and no motor runs.
THEOREM NothingIsLeftOn == Spec => []NothingRunsOn
<1>1. Typed /\ Accounts => NothingRunsOn
  BY DEF Accounts, Owned, NothingRunsOn
<1> QED
  BY <1>1, AdapterAccounts, PTL

\* A session whose saves are refused is one that something under way will end.
THEOREM PausesEnd == Spec => []PauseHasEnd
<1>1. Typed /\ Accounts => PauseHasEnd
  BY DEF Typed, Accounts, Pending, PauseHasEnd, Served
<1> QED
  BY <1>1, AdapterAccounts, PTL

\* However the gestures, drops and drains interleave, the unit sleeps or
\* changes its personality over no acknowledged save unless it was forced, and
\* no sync window is opened over one.
THEOREM NoSaveIsSleptOver == Spec => GoesDownDrained
<1> DEFINE Drained ==
      /\ down' \in {"Slept", "Config"} /\ down = "No" => ~Draining \/ shutdown_forced
      /\ connection_state = "SyncMode" /\ main \in {"Top", "SyncSplash"}
           /\ main' = "Wait" => ~Draining
<1>1. SUFFICES ASSUME Typed, Accounts, Next
               PROVE  Drained
  BY AdapterAccounts, PTL DEF Spec, GoesDownDrained
<1>2. ASSUME down' \in {"Slept", "Config"}, down = "No"
      PROVE  ~Draining \/ shutdown_forced
  <2>1. CASE Sleep
    BY <1>1, <2>1 DEF Typed, Accounts, Watched, Loop, Draining, Sleep, SleepsAsAsked,
       ByeShown, P1Sleeps, P2Goodbye, GoodbyeSleeps, RedetectGoodbye, GoodbyeDue, MaySleep
  <2>2. CASE OtherDowns
    BY <1>1, <1>2, <2>2 DEF Typed, Accounts, Watched, Loop, Draining, OtherDowns,
       SleepsUnasked, DetectTimesOut, RedetectTimesOut, Inactive, RebootsIntoConfig,
       GoesDown, StateLost
  <2>3. ~Reset
    BY <1>2 DEF Reset, GoesDown, StateLost
  <2>4. ~(MainSteps \/ BleSteps \/ BlinkEnds \/ ButtonSteps)
    BY <1>2, StaysUp
  <2> QED
    BY <1>1, <1>2, <2>1, <2>2, <2>3, <2>4 DEF Next, Boot
<1>3. connection_state = "SyncMode" => ~Draining
  BY <1>1 DEF Accounts, Closed, Draining
<1> QED
  BY <1>1, <1>2, <1>3
====
