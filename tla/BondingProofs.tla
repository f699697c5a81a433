---- MODULE BondingProofs ----
(***************************************************************************)
(* The safety of pairing and of the kept bond, for any hosts and however    *)
(* many pairings: the type invariant, what flash holds, whom the server     *)
(* answers, and who may rewrite the record.                                  *)
(***************************************************************************)
EXTENDS Bonding, TLAPS

\* A save in flight is of what is owed; while its generation is current it is
\* of what RAM holds. The page is as far as the save has got.
SaveIsCurrent ==
  save # NoSave =>
    /\ bonder.owed
    /\ bonder.taken => save.peer = bonder.peer /\ save.attrs = bonder.attrs
    /\ save.step \in {"Header", "Verify"} => page.peer = save.peer /\ page.attrs = save.attrs
    /\ save.step = "Verify" => page.sealed
    /\ save.attrs # NoSnapshot => save.attrs.of = save.peer.host

FlashInv == SaveIsCurrent /\ PersistedIsInFlash /\ SnapshotOfPeer

\* ble_task has a connection, taken up or to be.
Handled == conn \/ task \in {"Stage", "Settle", "Session", "Ended", "Hangup"}

\* A link that ble_task is done with has been hung up on. One it handles is
\* refused, a candidate's in an open window, or the bonded host's, as soon as
\* it pairs or is encrypted; there is a bond, or there is a window.
LinkInv ==
  /\ conn => task \in {"Apart", "Window"}
  /\ task = "Window" /\ ~conn => bonder.window
  /\ link # NoLink /\ ~Handled => link.closing
  /\ link # NoLink /\ Handled => bonder.window \/ bonder.peer # NoBond
  /\ link # NoLink /\ Handled /\ (link.pairing \/ link.encrypted) /\ ~bonder.refused =>
       bonder.window \/ IsPeer(bonder, link)

\* The link whose attributes are kept has a session or has bonded.
AttrsInv ==
  /\ bonder.attrs_conn => conn \/ task \notin {"Apart", "Window"}
  /\ bonder.attrs_conn /\ link # NoLink => link.real

Inv == TypeOK /\ FlashInv /\ LinkInv /\ AttrsInv

-----------------------------------------------------------------------------
(* What the methods of the bonder keep. *)

LEMMA BonderFields ==
  ASSUME NEW b \in Bonder
  PROVE  /\ b.peer \in Bond \cup {NoBond} /\ b.attrs \in Snapshot \cup {NoSnapshot}
         /\ b.window \in BOOLEAN /\ b.observed \in Observed /\ b.refused \in BOOLEAN
         /\ b.hold_attrs \in BOOLEAN /\ b.attrs_conn \in BOOLEAN
         /\ b.owed \in BOOLEAN /\ b.taken \in BOOLEAN
BY DEF Bonder

LEMMA LoadedType ==
  ASSUME NEW p \in Bond \cup {NoBond}, NEW a \in Snapshot \cup {NoSnapshot}
  PROVE  Loaded(p, a) \in Bonder
BY DEF Loaded, Bonder, Observed

(* A completed bonding: the record is the new host's, the window is over. *)
LEMMA ReplacedFields ==
  ASSUME NEW b \in Bonder, NEW l, NEW key
  PROVE  LET c == Replaced(b, l, key)
         IN  /\ c.peer = [host |-> l.host, key |-> key] /\ c.attrs = NoSnapshot
             /\ c.owed = TRUE /\ c.taken = FALSE /\ c.window = FALSE
             /\ c.hold_attrs = FALSE /\ c.attrs_conn = TRUE /\ c.refused = b.refused
BY DEF Replaced, Bonder

LEMMA RefusedFields ==
  ASSUME NEW b \in Bonder, NEW r
  PROVE  LET c == [b EXCEPT !.refused = r]
         IN  /\ c.peer = b.peer /\ c.attrs = b.attrs /\ c.owed = b.owed /\ c.taken = b.taken
             /\ c.window = b.window /\ c.hold_attrs = b.hold_attrs
             /\ c.attrs_conn = b.attrs_conn /\ c.refused = r
BY DEF Bonder

(* A snapshot moves nothing but the attributes and what is owed. *)
LEMMA SnapshotFields ==
  ASSUME NEW b \in Bonder, NEW l
  PROVE  LET c == SaveSysAttrs(b, l)
         IN  /\ c.peer = b.peer /\ c.window = b.window /\ c.refused = b.refused
             /\ c.hold_attrs = b.hold_attrs /\ c.attrs_conn = b.attrs_conn
             /\ \/ c = b
                \/ /\ MaySnapshot(b, l) /\ c.owed = TRUE /\ c.taken = FALSE
                   /\ c.attrs = [of |-> l.host, full |-> l.full]
BY DEF SaveSysAttrs, Bonder

LEMMA WindowTypes ==
  ASSUME NEW b \in Bonder, NEW there \in BOOLEAN
  PROVE  /\ BeginWindow(b) \in Bonder /\ ArmProvisional(b) \in Bonder
         /\ EndWindow(b) \in Bonder /\ OwnAttrs(b, there) \in Bonder /\ TornDown(b) \in Bonder
         /\ SnapshotDropped(b) \in Bonder
         /\ TakeGeneration(b) \in Bonder /\ MarkPersisted(b) \in Bonder
<1>1. BeginWindow(b) \in Bonder /\ ArmProvisional(b) \in Bonder /\ EndWindow(b) \in Bonder
  BY DEF BeginWindow, ArmProvisional, EndWindow, Bonder, Observed
<1>2. OwnAttrs(b, there) \in Bonder
  BY DEF OwnAttrs, Bonder
<1>3. TornDown(b) \in Bonder
  BY DEF TornDown, Bonder
<1>4. SnapshotDropped(b) \in Bonder /\ TakeGeneration(b) \in Bonder
  BY DEF SnapshotDropped, TakeGeneration, Bonder
<1>5. MarkPersisted(b) \in Bonder
  BY DEF MarkPersisted, Bonder
<1> QED
  BY <1>1, <1>2, <1>3, <1>4, <1>5

LEMMA SecurityTypes ==
  ASSUME NEW b \in Bonder, NEW l \in Link, NEW key \in {0, 1}
  PROVE  /\ SecurityParams(b, l) \in Bonder /\ OnBonded(b, l, key) \in Bonder
         /\ GetKey(b, l) \in Bonder /\ SaveSysAttrs(b, l) \in Bonder
<1>1. IsStranger(b, l) \in BOOLEAN /\ l.host \in Hosts /\ l.full \in BOOLEAN
  BY DEF IsStranger, Link
<1>2. SecurityParams(b, l) \in Bonder
  <2> DEFINE r == b.refused \/ IsStranger(b, l)
  <2>1. r \in BOOLEAN
    OBVIOUS
  <2>2. SecurityParams(b, l) \in {[b EXCEPT !.observed = "FreshPairing"], [b EXCEPT !.refused = r]}
    BY DEF SecurityParams
  <2> HIDE DEF r
  <2> QED
    BY <2>1, <2>2 DEF Bonder, Observed
<1>3. OnBonded(b, l, key) \in Bonder
  BY <1>1 DEF OnBonded, Replaced, Bonder, Bond
<1>4. GetKey(b, l) \in Bonder
  BY DEF GetKey, Bonder, Observed
<1>5. SaveSysAttrs(b, l) \in Bonder
  BY <1>1 DEF SaveSysAttrs, Bonder, Snapshot
<1> QED
  BY <1>2, <1>3, <1>4, <1>5

-----------------------------------------------------------------------------
(* Types. *)

LEMMA LinkTypes ==
  ASSUME NEW l \in Link, NEW q \in BOOLEAN
  PROVE  /\ [l EXCEPT !.pairing = q] \in Link /\ [l EXCEPT !.encrypted = q] \in Link
         /\ [l EXCEPT !.full = q] \in Link /\ [l EXCEPT !.closing = q] \in Link
         /\ [l EXCEPT !.real = q] \in Link
BY DEF Link

LEMMA ClosingType ==
  ASSUME link \in Link \cup {NoLink}
  PROVE  Closing(link) \in Link \cup {NoLink}
BY LinkTypes DEF Closing

LEMMA SavesOwedType ==
  ASSUME NEW b \in Bonder, SavesOwed(b), save = NoSave
  PROVE  bonder' \in Bonder /\ (save \in Save \cup {NoSave})' /\ bonder'.hold_attrs = b.hold_attrs
<1>1. CASE b.owed /\ b.peer # NoBond
  <2>1. bonder' = TakeGeneration(b) /\ save' = Saving(b)
    BY <1>1 DEF SavesOwed, Saves
  <2>2. Saving(b) \in Save
    BY <1>1, BonderFields DEF Saving, Save
  <2> QED
    BY <2>1, <2>2, WindowTypes DEF TakeGeneration, Bonder
<1>2. CASE ~(b.owed /\ b.peer # NoBond)
  BY <1>2 DEF SavesOwed
<1> QED
  BY <1>1, <1>2

LEMMA TypeLink == TypeOK /\ LinkNext => TypeOK'
<1> SUFFICES ASSUME TypeOK, LinkNext
             PROVE  TypeOK'
  OBVIOUS
<1> USE DEF TypeOK
<1>1. ASSUME NEW h \in Hosts, Connect(h)
      PROVE  TypeOK'
  <2>1. NewLink(h) \in Link
    BY DEF NewLink, Link
  <2> QED
    BY <1>1, <2>1 DEF Connect
<1>2. ASSUME LinkEvent
      PROVE  link \in Link /\ UNCHANGED <<task, conn, expired, page, save, failed>>
  BY <1>2 DEF LinkEvent, Speaks
<1>3. CASE PairingAsked
  <2>0. link \in Link
    BY <1>2, <1>3 DEF PairingAsked
  <2>1. bonder' \in Bonder /\ bonder'.hold_attrs = bonder.hold_attrs
    BY <1>2, <1>3, SecurityTypes DEF PairingAsked, SecurityParams, Bonder
  <2> DEFINE c == link.closing \/ (~bonder.window /\ IsStranger(bonder, link))
  <2>2. c \in BOOLEAN
    OBVIOUS
  <2>4. link' = [link EXCEPT !.pairing = TRUE, !.closing = c]
    BY <1>3 DEF PairingAsked
  <2> HIDE DEF c
  <2>3. link' \in Link
    BY <2>0, <2>2, <2>4 DEF Link
  <2> QED
    BY <1>2, <1>3, <2>1, <2>3 DEF PairingAsked
<1>4. CASE PairingEncrypts
  BY <1>2, <1>4, LinkTypes DEF PairingEncrypts
<1>5. CASE PairingFails
  BY <1>2, <1>5, LinkTypes DEF PairingFails
<1>6. CASE Bonded
  <2>0. link \in Link
    BY <1>2, <1>6 DEF Bonded
  <2>1. NewKey \in {0, 1}
    BY DEF NewKey, Bonder, Bond
  <2>2. bonder' \in Bonder /\ (bonder'.hold_attrs => bonder.hold_attrs)
    <3>1. bonder' = OnBonded(bonder, link, NewKey)
      BY <1>6 DEF Bonded
    <3>2. bonder' \in Bonder
      BY <2>0, <2>1, <3>1, SecurityTypes
    <3> QED
      BY <3>1, <3>2, ReplacedFields, RefusedFields DEF OnBonded
  <2> DEFINE c == link.closing \/ Refuses(bonder, link)
             r == link.real \/ ~Refuses(bonder, link)
  <2>3. c \in BOOLEAN /\ r \in BOOLEAN
    OBVIOUS
  <2>5. link' = [link EXCEPT !.pairing = FALSE, !.closing = c, !.real = r]
    BY <1>6 DEF Bonded
  <2> HIDE DEF c, r
  <2>4. link' \in Link
    BY <2>0, <2>3, <2>5 DEF Link
  <2> QED
    BY <1>2, <1>6, <2>2, <2>4, PairingsAssumption DEF Bonded
<1>7. CASE KeyReused
  <2>1. bonder' \in Bonder /\ bonder'.hold_attrs = bonder.hold_attrs
    BY <1>2, <1>7, SecurityTypes DEF KeyReused, GetKey, Bonder
  <2> DEFINE g == GivesKey(bonder, link)
  <2>2. g \in BOOLEAN /\ link' = [link EXCEPT !.encrypted = g]
    BY <1>7 DEF KeyReused, GivesKey
  <2> HIDE DEF g
  <2>3. link \in Link
    BY <1>2, <1>7 DEF KeyReused
  <2>4. link' \in Link
    BY <2>2, <2>3, LinkTypes
  <2>5. LinkEvent /\ pairings' = pairings
    BY <1>7 DEF KeyReused
  <2> QED
    BY <1>2, <2>1, <2>4, <2>5
<1>8. CASE Subscribed
  BY <1>2, <1>8, LinkTypes DEF Subscribed
<1>9. CASE Disconnected
  <2>1. bonder' \in Bonder /\ bonder'.hold_attrs = bonder.hold_attrs
    BY <1>9, SecurityTypes, SnapshotFields DEF Disconnected
  <2> QED
    BY <1>9, <2>1 DEF Disconnected
<1> QED
  BY <1>1, <1>3, <1>4, <1>5, <1>6, <1>7, <1>8, <1>9 DEF LinkNext

LEMMA TypeTask ==
  TypeOK /\ (TaskNext \/ OpenWindow \/ DeadlinePasses \/ BeginRefused \/ Begin(TRUE)
            \/ Refreshed \/ SessionHangsUp \/ SessionEnds) => TypeOK'
<1> SUFFICES ASSUME TypeOK,
                    TaskNext \/ OpenWindow \/ DeadlinePasses \/ BeginRefused \/ Begin(TRUE)
                    \/ Refreshed \/ SessionHangsUp \/ SessionEnds
             PROVE  TypeOK'
  OBVIOUS
<1> USE DEF TypeOK, Tasks, TaskStep
<1>1. CASE CloseWindow
  BY <1>1, WindowTypes DEF CloseWindow, EndWindow, Bonder
<1>2. CASE OpenWindow
  BY <1>2, WindowTypes DEF OpenWindow
<1>3. CASE DeadlinePasses
  BY <1>3 DEF DeadlinePasses
<1>4. CASE BeginRefused
  BY <1>4, ClosingType DEF BeginRefused
<1>5. ASSUME NEW invalid \in BOOLEAN, Begin(invalid)
      PROVE  TypeOK'
  <2> DEFINE b == IF invalid THEN SnapshotDropped(bonder) ELSE bonder
             f == Restored(b, link)
             r == link.real \/ ~bonder.window
  <2>1. b \in Bonder
    BY WindowTypes
  <2>2. (link # NoLink) \in BOOLEAN
    OBVIOUS
  <2>3. bonder' \in Bonder
    BY <1>5, <2>1, <2>2, WindowTypes DEF Begin
  <2>4. f \in BOOLEAN /\ r \in BOOLEAN
    BY DEF Restored, HasSnapshot
  <2>5. link' = IF link = NoLink THEN NoLink ELSE [link EXCEPT !.full = f, !.real = r]
    BY <1>5 DEF Begin
  <2>6. task' \in {"Stage", "Session"} /\ conn' = FALSE
        /\ UNCHANGED <<expired, save, page, pairings, failed>>
    BY <1>5 DEF Begin
  <2> HIDE DEF b, f, r
  <2>7. link' \in Link \cup {NoLink}
    BY <2>4, <2>5 DEF Link
  <2> QED
    BY <2>3, <2>6, <2>7
<1>6. CASE StageLeft \/ StageAdmits \/ SettleLeft \/ SettleGone \/ SessionEnds
  BY <1>6 DEF StageLeft, StageAdmits, SettleLeft, SettleGone, SessionEnds, Goes
<1>7. CASE StageRefuses \/ SettleOver \/ SessionHangsUp
  BY <1>7, ClosingType DEF StageRefuses, SettleOver, SessionHangsUp, HangsUp, Goes
<1>8. CASE SettleBonded
  <2>1. (link # NoLink) \in BOOLEAN
    OBVIOUS
  <2> QED
    BY <1>8, <2>1, WindowTypes, LinkTypes DEF SettleBonded, SessionBegins
<1>9. CASE PersistInSession
  <2>1. bonder' \in Bonder /\ (save \in Save \cup {NoSave})'
    BY <1>9, SavesOwedType DEF PersistInSession, SavesOwed
  <2> QED
    BY <1>9, <2>1 DEF PersistInSession
<1>10. CASE LastSnapshot
  <2> DEFINE b == IF link = NoLink THEN bonder ELSE SaveSysAttrs(bonder, link)
  <2>1. b \in Bonder
    BY SecurityTypes
  <2>2. SavesOwed(b) /\ save = NoSave
    BY <1>10 DEF LastSnapshot
  <2> HIDE DEF b
  <2>3. bonder' \in Bonder /\ (save \in Save \cup {NoSave})'
    BY <2>1, <2>2, SavesOwedType
  <2> QED
    BY <1>10, <2>3 DEF LastSnapshot
<1>11. CASE HungUp
  BY <1>11, ClosingType DEF HungUp
<1>12. CASE FlushBond
  <2>1. bonder' \in Bonder /\ (save \in Save \cup {NoSave})'
    BY <1>12, SavesOwedType DEF FlushBond
  <2> QED
    BY <1>12, <2>1 DEF FlushBond
<1>13. CASE Teardown
  <2>1. TornDown(bonder) \in Bonder
    BY WindowTypes
  <2>2. CASE bonder.window
    BY <1>13, <2>1, <2>2, WindowTypes DEF Teardown
  <2>3. CASE ~bonder.window
    BY <1>13, <2>1, <2>3, WindowTypes DEF Teardown, EndWindow, Bonder
  <2> QED
    BY <2>2, <2>3
<1>14. CASE Refreshed
  BY <1>14, SecurityTypes DEF Refreshed
<1> QED
  BY <1>1, <1>2, <1>3, <1>4, <1>5, <1>6, <1>7, <1>8, <1>9, <1>10, <1>11, <1>12, <1>13, <1>14
  DEF TaskNext, Classifies

LEMMA TypeFlash == TypeOK /\ (FlashNext \/ SaveFails \/ Boot) => TypeOK'
<1> SUFFICES ASSUME TypeOK, FlashNext \/ SaveFails \/ Boot
             PROVE  TypeOK'
  OBVIOUS
<1> USE DEF TypeOK, Tasks
<1>1. CASE Erase
  BY <1>1 DEF Erase, FlashStep, StepsTo, Erased, Page, Save
<1>2. CASE WriteBody
  BY <1>2 DEF WriteBody, FlashStep, StepsTo, Page, Save
<1>3. CASE WriteHeader
  BY <1>3 DEF WriteHeader, FlashStep, StepsTo, Page, Save
<1>4. CASE Verified
  BY <1>4, WindowTypes DEF Verified, FlashStep, MarkPersisted, Bonder
<1>5. CASE SaveFails
  BY <1>5 DEF SaveFails
<1>6. CASE Boot
  <2>1. bonder' \in Bonder /\ ~bonder'.hold_attrs
    BY <1>6, LoadedType DEF Boot, Page, Loaded
  <2> QED
    BY <1>6, <2>1 DEF Boot
<1> QED
  BY <1>1, <1>2, <1>3, <1>4, <1>5, <1>6 DEF FlashNext

-----------------------------------------------------------------------------
(* Flash. What a step makes of the record is either what it was, with the   *)
(* same owed and taken, or new and not taken.                                *)

SameRecord(c) ==
  /\ c.peer = bonder.peer /\ c.attrs = bonder.attrs
  /\ c.owed = bonder.owed /\ c.taken = bonder.taken

NewRecord(c) ==
  /\ c.owed = TRUE /\ c.taken = FALSE
  /\ c.attrs # NoSnapshot => c.peer # NoBond /\ c.attrs.of = c.peer.host

LEMMA RecordKept ==
  ASSUME FlashInv, SameRecord(bonder') \/ NewRecord(bonder'), save' = save, page' = page
  PROVE  FlashInv'
<1> USE DEF FlashInv, SaveIsCurrent, PersistedIsInFlash, SnapshotOfPeer
<1>1. CASE SameRecord(bonder')
  BY <1>1 DEF SameRecord
<1>2. CASE NewRecord(bonder')
  BY <1>2 DEF NewRecord
<1> QED
  BY <1>1, <1>2

LEMMA RecordSaved ==
  ASSUME FlashInv, NEW c \in Bonder, SameRecord(c) \/ NewRecord(c), SavesOwed(c),
         save = NoSave, page' = page
  PROVE  FlashInv'
<1>1. CASE c.owed /\ c.peer # NoBond
  <2>1. bonder' = TakeGeneration(c) /\ save' = Saving(c)
    BY <1>1 DEF SavesOwed, Saves
  <2>2. /\ bonder'.peer = c.peer /\ bonder'.attrs = c.attrs /\ bonder'.owed = c.owed
    BY <2>1 DEF TakeGeneration, Bonder
  <2>3. save'.peer = c.peer /\ save'.attrs = c.attrs /\ save'.step = "Erase"
    BY <2>1 DEF Saving
  <2>4. c.attrs # NoSnapshot => c.peer # NoBond /\ c.attrs.of = c.peer.host
    BY DEF SameRecord, NewRecord, FlashInv, SnapshotOfPeer
  <2> QED
    BY <1>1, <2>2, <2>3, <2>4
    DEF FlashInv, SaveIsCurrent, PersistedIsInFlash, SnapshotOfPeer
<1>2. CASE ~(c.owed /\ c.peer # NoBond)
  <2>1. bonder' = c /\ save' = save
    BY <1>2 DEF SavesOwed
  <2> QED
    BY <2>1, RecordKept
<1> QED
  BY <1>1, <1>2

LEMMA SnapshotRecord ==
  ASSUME TypeOK, FlashInv, link # NoLink
  PROVE  LET c == SaveSysAttrs(bonder, link) IN SameRecord(c) \/ NewRecord(c)
<1> DEFINE c == SaveSysAttrs(bonder, link)
<1>1. bonder \in Bonder
  BY DEF TypeOK
<1>2. CASE c = bonder
  BY <1>2 DEF SameRecord
<1>3. CASE c # bonder
  <2>1. /\ MaySnapshot(bonder, link) /\ c.owed = TRUE /\ c.taken = FALSE
        /\ c.attrs = [of |-> link.host, full |-> link.full] /\ c.peer = bonder.peer
    BY <1>1, <1>3, SnapshotFields
  <2> QED
    BY <2>1 DEF MaySnapshot, IsPeer, NewRecord
<1> QED
  BY <1>2, <1>3

LEMMA FlashLink == TypeOK /\ FlashInv /\ LinkNext => FlashInv'
<1> SUFFICES ASSUME TypeOK, FlashInv, LinkNext
             PROVE  FlashInv'
  OBVIOUS
<1>0. bonder \in Bonder
  BY DEF TypeOK
<1>1. CASE \E h \in Hosts : Connect(h)
  BY <1>1, RecordKept DEF Connect, SameRecord
<1>2. CASE PairingAsked
  <2>1. bonder' = SecurityParams(bonder, link) /\ save' = save /\ page' = page
    BY <1>2 DEF PairingAsked, LinkEvent
  <2>2. SameRecord(bonder')
    BY <1>0, <2>1 DEF SecurityParams, SameRecord, Bonder
  <2> QED
    BY <2>1, <2>2, RecordKept
<1>3. CASE PairingEncrypts \/ PairingFails \/ Subscribed
  <2>1. bonder' = bonder /\ save' = save /\ page' = page
    BY <1>3 DEF PairingEncrypts, PairingFails, Subscribed, LinkEvent
  <2> QED
    BY <2>1, RecordKept DEF SameRecord
<1>4. CASE Bonded
  <2>1. bonder' = OnBonded(bonder, link, NewKey) /\ save' = save /\ page' = page
    BY <1>4 DEF Bonded, LinkEvent
  <2>2. CASE Refuses(bonder, link)
    <3>1. SameRecord(bonder')
      BY <1>0, <2>1, <2>2, RefusedFields DEF OnBonded, SameRecord
    <3> QED
      BY <2>1, <3>1, RecordKept
  <2>3. CASE ~Refuses(bonder, link)
    <3>1. NewRecord(bonder')
      <4>1. bonder' = Replaced(bonder, link, NewKey)
        BY <2>1, <2>3 DEF OnBonded
      <4> QED
        BY <1>0, <4>1 DEF Replaced, NewRecord, Bonder
    <3> QED
      BY <2>1, <3>1, RecordKept
  <2> QED
    BY <2>2, <2>3
<1>5. CASE KeyReused
  <2>1. bonder' = GetKey(bonder, link) /\ save' = save /\ page' = page
    BY <1>5 DEF KeyReused, LinkEvent
  <2>2. SameRecord(bonder')
    BY <1>0, <2>1 DEF GetKey, SameRecord, Bonder
  <2> QED
    BY <2>1, <2>2, RecordKept
<1>6. CASE Disconnected
  BY <1>6, SnapshotRecord, RecordKept DEF Disconnected
<1> QED
  BY <1>1, <1>2, <1>3, <1>4, <1>5, <1>6 DEF LinkNext

LEMMA FlashTask ==
  TypeOK /\ FlashInv /\ (TaskNext \/ OpenWindow \/ DeadlinePasses \/ BeginRefused \/ Begin(TRUE)
                         \/ Refreshed \/ SessionHangsUp \/ SessionEnds) => FlashInv'
<1> SUFFICES ASSUME TypeOK, FlashInv,
                    TaskNext \/ OpenWindow \/ DeadlinePasses \/ BeginRefused \/ Begin(TRUE)
                    \/ Refreshed \/ SessionHangsUp \/ SessionEnds
             PROVE  FlashInv'
  OBVIOUS
<1> USE DEF TaskStep
<1>0. bonder \in Bonder
  BY DEF TypeOK
<1>1. CASE CloseWindow \/ OpenWindow \/ SettleBonded
  <2>1. /\ bonder' \in {EndWindow(bonder), ArmProvisional(BeginWindow(bonder)),
                       OwnAttrs(bonder, link # NoLink)}
        /\ save' = save /\ page' = page
    BY <1>1 DEF CloseWindow, OpenWindow, SettleBonded, SessionBegins
  <2>2. SameRecord(bonder')
    BY <1>0, <2>1 DEF EndWindow, ArmProvisional, BeginWindow, OwnAttrs, SameRecord, Bonder
  <2> QED
    BY <2>1, <2>2, RecordKept
<1>2. CASE DeadlinePasses \/ BeginRefused \/ StageLeft \/ StageAdmits \/ SettleLeft
           \/ SettleGone \/ SessionEnds \/ StageRefuses \/ SettleOver \/ SessionHangsUp \/ HungUp
  <2>1. bonder' = bonder /\ save' = save /\ page' = page
    BY <1>2 DEF DeadlinePasses, BeginRefused, StageLeft, StageAdmits, SettleLeft, SettleGone,
                SessionEnds, StageRefuses, SettleOver, SessionHangsUp, HungUp, Goes, HangsUp
  <2> QED
    BY <2>1, RecordKept DEF SameRecord
<1>3. ASSUME NEW invalid \in BOOLEAN, Begin(invalid)
      PROVE  FlashInv'
  <2> DEFINE b == IF invalid THEN SnapshotDropped(bonder) ELSE bonder
  <2>1. /\ bonder' = IF bonder.window THEN b ELSE OwnAttrs(b, link # NoLink)
        /\ save' = save /\ page' = page
    BY <1>3 DEF Begin
  <2>2. b \in Bonder /\ (SameRecord(b) \/ NewRecord(b))
    BY <1>0, WindowTypes DEF SnapshotDropped, SameRecord, NewRecord, Bonder
  <2> HIDE DEF b
  <2>3. SameRecord(bonder') \/ NewRecord(bonder')
    BY <2>1, <2>2 DEF OwnAttrs, SameRecord, NewRecord, Bonder
  <2> QED
    BY <2>1, <2>3, RecordKept
<1>4. CASE PersistInSession \/ FlushBond
  <2>1. SavesOwed(bonder) /\ save = NoSave /\ page' = page
    BY <1>4 DEF PersistInSession, FlushBond, SavesOwed
  <2> QED
    BY <1>0, <2>1, RecordSaved DEF SameRecord
<1>5. CASE LastSnapshot
  <2> DEFINE b == IF link = NoLink THEN bonder ELSE SaveSysAttrs(bonder, link)
  <2>1. b \in Bonder
    BY <1>0, SecurityTypes DEF TypeOK
  <2>2. SavesOwed(b) /\ save = NoSave /\ page' = page
    BY <1>5 DEF LastSnapshot
  <2>3. SameRecord(b) \/ NewRecord(b)
    BY SnapshotRecord DEF SameRecord
  <2> HIDE DEF b
  <2> QED
    BY <2>1, <2>2, <2>3, RecordSaved
<1>6. CASE Teardown
  <2>1. /\ bonder' \in {ArmProvisional(TornDown(bonder)), EndWindow(TornDown(bonder))}
        /\ save' = save /\ page' = page
    BY <1>6 DEF Teardown
  <2>2. SameRecord(bonder')
    BY <1>0, <2>1 DEF EndWindow, ArmProvisional, TornDown, SameRecord, Bonder
  <2> QED
    BY <2>1, <2>2, RecordKept
<1>7. CASE Refreshed
  BY <1>7, SnapshotRecord, RecordKept DEF Refreshed
<1> QED
  BY <1>1, <1>2, <1>3, <1>4, <1>5, <1>6, <1>7 DEF TaskNext, Classifies

LEMMA FlashFlash == TypeOK /\ FlashInv /\ (FlashNext \/ SaveFails \/ Boot) => FlashInv'
<1> SUFFICES ASSUME TypeOK, FlashInv, FlashNext \/ SaveFails \/ Boot
             PROVE  FlashInv'
  OBVIOUS
<1> USE DEF FlashInv, SaveIsCurrent, PersistedIsInFlash, SnapshotOfPeer
<1>0. bonder \in Bonder /\ page \in Page /\ (save # NoSave => save \in Save)
  BY DEF TypeOK
<1>1. CASE Erase
  <2>1. /\ page' = Erased /\ bonder' = bonder /\ save # NoSave
        /\ save'.peer = save.peer /\ save'.attrs = save.attrs /\ save'.step = "Body"
    BY <1>0, <1>1 DEF Erase, FlashStep, StepsTo, Save
  <2> QED
    BY <2>1 DEF Erased
<1>2. CASE WriteBody
  <2>1. /\ page' = [peer |-> save.peer, attrs |-> save.attrs, sealed |-> FALSE]
        /\ bonder' = bonder /\ save # NoSave
        /\ save'.peer = save.peer /\ save'.attrs = save.attrs /\ save'.step = "Header"
    BY <1>0, <1>2 DEF WriteBody, FlashStep, StepsTo, Save
  <2> QED
    BY <2>1
<1>3. CASE WriteHeader
  <2>1. /\ page'.peer = save.peer /\ page'.attrs = save.attrs /\ page'.sealed
        /\ bonder' = bonder /\ save # NoSave /\ save.peer # NoBond
        /\ save'.peer = save.peer /\ save'.attrs = save.attrs /\ save'.step = "Verify"
    BY <1>0, <1>3, HostsAssumption DEF WriteHeader, FlashStep, StepsTo, Save, Page, Bond
  <2> QED
    BY <2>1
<1>4. CASE Verified
  <2>1. /\ save # NoSave /\ save.step = "Verify" /\ save' = NoSave /\ page' = page
        /\ page.sealed = TRUE /\ page.peer = save.peer /\ page.attrs = save.attrs
    BY <1>0, <1>4 DEF Verified, FlashStep, Page
  <2>2. bonder' = MarkPersisted(bonder)
    BY <1>4, <2>1 DEF Verified
  <2>3. bonder'.peer = bonder.peer /\ bonder'.attrs = bonder.attrs
    BY <1>0, <2>2 DEF MarkPersisted, Bonder
  <2>4. CASE bonder.taken
    BY <1>0, <2>1, <2>3, <2>4 DEF Page
  <2>5. CASE ~bonder.taken
    BY <1>0, <2>1, <2>2, <2>5 DEF MarkPersisted
  <2> QED
    BY <2>4, <2>5
<1>5. CASE SaveFails
  BY <1>0, <1>5 DEF SaveFails
<1>6. CASE Boot
  BY <1>0, <1>6 DEF Boot, Loaded, Page
<1> QED
  BY <1>1, <1>2, <1>3, <1>4, <1>5, <1>6 DEF FlashNext

-----------------------------------------------------------------------------
(* The link. *)

LEMMA SpeakerHandled ==
  ASSUME TypeOK, LinkInv, LinkEvent
  PROVE  /\ link \in Link /\ link # NoLink /\ Handled
         /\ task' = task /\ conn' = conn /\ Handled'
         /\ bonder \in Bonder
BY DEF TypeOK, LinkInv, LinkEvent, Speaks, Handled

LEMMA LinkLink == TypeOK /\ LinkInv /\ AttrsInv /\ LinkNext => LinkInv' /\ AttrsInv'
<1> SUFFICES ASSUME TypeOK, LinkInv, AttrsInv, LinkNext
             PROVE  LinkInv' /\ AttrsInv'
  OBVIOUS
<1>0. bonder \in Bonder
  BY DEF TypeOK
<1>1. ASSUME NEW h \in Hosts, Connect(h)
      PROVE  LinkInv' /\ AttrsInv'
  BY <1>1 DEF Connect, Advertising, NewLink, LinkInv, AttrsInv, Handled
<1>2. CASE PairingAsked
  <2>1. link \in Link /\ link # NoLink /\ Handled /\ Handled' /\ task' = task /\ conn' = conn
    BY <1>2, SpeakerHandled DEF PairingAsked
  <2>2. /\ link'.host = link.host /\ link'.real = link.real
    BY <1>2, <2>1 DEF PairingAsked, Link
  <2>3. bonder' = SecurityParams(bonder, link)
    BY <1>2 DEF PairingAsked
  <2>4. /\ bonder'.peer = bonder.peer /\ bonder'.window = bonder.window
        /\ bonder'.attrs_conn = bonder.attrs_conn
    BY <1>0, <2>3 DEF SecurityParams, Bonder
  <2>5. ~bonder'.refused => bonder'.window \/ ~IsStranger(bonder, link)
    BY <1>0, <2>3, RefusedFields DEF SecurityParams, Bonder
  <2> QED
    BY <2>1, <2>2, <2>4, <2>5 DEF LinkInv, AttrsInv, IsStranger, IsPeer
<1>3. CASE PairingEncrypts \/ PairingFails \/ Subscribed
  <2>1. link \in Link /\ link # NoLink /\ Handled /\ Handled' /\ task' = task /\ conn' = conn
    BY <1>3, SpeakerHandled DEF PairingEncrypts, PairingFails, Subscribed
  <2>2. /\ link'.host = link.host /\ link'.real = link.real
        /\ link'.pairing \/ link'.encrypted => link.pairing \/ link.encrypted
        /\ bonder' = bonder
    BY <1>3, <2>1 DEF PairingEncrypts, PairingFails, Subscribed, Link
  <2> QED
    BY <2>1, <2>2 DEF LinkInv, AttrsInv, IsPeer
<1>4. CASE Bonded
  <2>1. link \in Link /\ link # NoLink /\ Handled /\ Handled' /\ task' = task /\ conn' = conn
    BY <1>4, SpeakerHandled DEF Bonded
  <2>2. bonder' = OnBonded(bonder, link, NewKey)
    BY <1>4 DEF Bonded
  <2>3. link'.host = link.host /\ link'.real = (link.real \/ ~Refuses(bonder, link))
    BY <1>4, <2>1 DEF Bonded, Link
  <2>4. CASE Refuses(bonder, link)
    <3>1. /\ bonder'.peer = bonder.peer /\ bonder'.window = bonder.window
          /\ bonder'.attrs_conn = bonder.attrs_conn /\ bonder'.refused
      BY <1>0, <2>2, <2>4, RefusedFields DEF OnBonded
    <3> QED
      BY <2>1, <2>3, <3>1 DEF LinkInv, AttrsInv
  <2>5. CASE ~Refuses(bonder, link)
    <3>1. bonder' = Replaced(bonder, link, NewKey)
      BY <2>2, <2>5 DEF OnBonded
    <3>2. bonder'.peer = [host |-> link.host, key |-> NewKey]
      BY <1>0, <3>1 DEF Replaced, Bonder
    <3>3. bonder'.peer \in Bond /\ bonder'.peer.host = link.host
      BY <1>0, <2>1, <3>2 DEF Bond, Link, NewKey, Bonder
    <3>4. bonder'.peer # NoBond
      BY <3>3, HostsAssumption DEF Bond
    <3> QED
      BY <2>1, <2>3, <2>5, <3>3, <3>4 DEF LinkInv, AttrsInv, IsPeer, Handled
  <2> QED
    BY <2>4, <2>5
<1>5. CASE KeyReused
  <2>1. link \in Link /\ link # NoLink /\ Handled /\ Handled' /\ task' = task /\ conn' = conn
    BY <1>5, SpeakerHandled DEF KeyReused
  <2>2. bonder' = GetKey(bonder, link)
    BY <1>5 DEF KeyReused
  <2>3. link'.host = link.host /\ link'.real = link.real /\ link'.pairing = link.pairing
        /\ link'.encrypted = GivesKey(bonder, link)
    BY <1>5, <2>1 DEF KeyReused, Link
  <2>4. /\ bonder'.peer = bonder.peer /\ bonder'.window = bonder.window
        /\ bonder'.attrs_conn = bonder.attrs_conn /\ bonder'.refused = bonder.refused
    BY <1>0, <2>2 DEF GetKey, Bonder
  <2> QED
    BY <2>1, <2>3, <2>4 DEF LinkInv, AttrsInv, IsPeer, GivesKey
<1>6. CASE Disconnected
  <2>1. /\ bonder'.window = bonder.window /\ bonder'.attrs_conn = bonder.attrs_conn
        /\ link' = NoLink /\ task' = task /\ conn' = conn
    BY <1>0, <1>6, SnapshotFields DEF Disconnected
  <2> QED
    BY <2>1 DEF LinkInv, AttrsInv, Handled
<1> QED
  BY <1>1, <1>2, <1>3, <1>4, <1>5, <1>6 DEF LinkNext

LEMMA LinkTask ==
  TypeOK /\ LinkInv /\ AttrsInv
  /\ (TaskNext \/ OpenWindow \/ DeadlinePasses \/ BeginRefused \/ Begin(TRUE)
      \/ Refreshed \/ SessionHangsUp \/ SessionEnds) => LinkInv' /\ AttrsInv'
<1> SUFFICES ASSUME TypeOK, LinkInv, AttrsInv,
                    TaskNext \/ OpenWindow \/ DeadlinePasses \/ BeginRefused \/ Begin(TRUE)
                    \/ Refreshed \/ SessionHangsUp \/ SessionEnds
             PROVE  LinkInv' /\ AttrsInv'
  OBVIOUS
<1> USE DEF TaskStep
<1>0. bonder \in Bonder /\ link \in Link \cup {NoLink} /\ task \in Tasks
  BY DEF TypeOK
<1>1. CASE CloseWindow
  <2>1. /\ bonder'.attrs_conn = bonder.attrs_conn /\ bonder'.refused = bonder.refused
        /\ link' = link /\ task = "Window" /\ task' = "Apart" /\ ~conn /\ conn' = conn
    BY <1>0, <1>1 DEF CloseWindow, EndWindow, Bonder
  <2> QED
    BY <2>1 DEF LinkInv, AttrsInv, Handled
<1>2. CASE OpenWindow
  <2>1. /\ bonder'.window /\ bonder'.attrs_conn = bonder.attrs_conn
        /\ link' = link /\ task = "Apart" /\ task' = "Window" /\ ~conn /\ conn' = conn
    BY <1>0, <1>2 DEF OpenWindow, ArmProvisional, BeginWindow, Bonder
  <2> QED
    BY <2>1 DEF LinkInv, AttrsInv, Handled
<1>3. CASE DeadlinePasses
  BY <1>3 DEF DeadlinePasses, LinkInv, AttrsInv, Handled, IsPeer
<1>4. CASE BeginRefused
  <2>1. /\ bonder' = bonder /\ conn' = FALSE /\ task' = "Flush"
        /\ link' # NoLink => link'.closing /\ link # NoLink /\ link'.real = link.real
    BY <1>0, <1>4 DEF BeginRefused, Closing, Link
  <2> QED
    BY <2>1 DEF LinkInv, AttrsInv, Handled
<1>5. ASSUME NEW invalid \in BOOLEAN, Begin(invalid)
      PROVE  LinkInv' /\ AttrsInv'
  <2> DEFINE b == IF invalid THEN SnapshotDropped(bonder) ELSE bonder
  <2>1. /\ bonder' = IF bonder.window THEN b ELSE OwnAttrs(b, link # NoLink)
        /\ conn /\ ~conn' /\ task' = IF bonder.window THEN "Stage" ELSE "Session"
    BY <1>5 DEF Begin
  <2>2. /\ b.peer = bonder.peer /\ b.window = bonder.window /\ b.refused = bonder.refused
        /\ b.attrs_conn = bonder.attrs_conn /\ b \in Bonder
    BY <1>0, WindowTypes DEF SnapshotDropped, Bonder
  <2> HIDE DEF b
  <2>3. /\ bonder'.peer = b.peer /\ bonder'.window = b.window /\ bonder'.refused = b.refused
        /\ bonder'.attrs_conn = IF bonder.window THEN b.attrs_conn ELSE link # NoLink
    BY <2>1, <2>2 DEF OwnAttrs, Bonder
  <2>4. link' # NoLink =>
          /\ link # NoLink /\ link'.host = link.host /\ link'.pairing = link.pairing
          /\ link'.encrypted = link.encrypted
          /\ link'.real = (link.real \/ ~bonder.window)
    BY <1>0, <1>5 DEF Begin, Link
  <2> QED
    BY <2>1, <2>2, <2>3, <2>4 DEF LinkInv, AttrsInv, Handled, IsPeer
<1>6. CASE StageLeft \/ SettleLeft \/ SettleGone
  <2>1. /\ UNCHANGED <<bonder, link, conn>> /\ link = NoLink /\ task' = "Flush"
        /\ task \in {"Stage", "Settle"}
    BY <1>6 DEF StageLeft, SettleLeft, SettleGone, Goes
  <2> QED
    BY <2>1 DEF LinkInv, AttrsInv, Handled
<1>7. CASE StageAdmits \/ SessionEnds
  <2>1. /\ UNCHANGED <<bonder, link, conn>> /\ task' \in {"Settle", "Ended"}
        /\ task \in {"Stage", "Session"}
    BY <1>7 DEF StageAdmits, SessionEnds, Goes
  <2> QED
    BY <2>1 DEF LinkInv, AttrsInv, Handled, IsPeer
<1>8. CASE StageRefuses \/ SettleOver \/ SessionHangsUp \/ HungUp
  <2>1. /\ UNCHANGED <<bonder, conn>> /\ task' \in {"Settle", "Hangup", "Flush"}
        /\ task \in {"Stage", "Settle", "Session", "Hangup"}
        /\ link' # NoLink =>
             /\ link # NoLink /\ link'.host = link.host /\ link'.pairing = link.pairing
             /\ link'.encrypted = link.encrypted /\ link'.real = link.real
             /\ task' = "Flush" => link'.closing
    BY <1>0, <1>8 DEF StageRefuses, SettleOver, SessionHangsUp, HungUp, Goes, HangsUp, Closing, Link
  <2> QED
    BY <2>1 DEF LinkInv, AttrsInv, Handled, IsPeer
<1>9. CASE SettleBonded
  <2>1. /\ bonder' = OwnAttrs(bonder, link # NoLink) /\ conn' = conn
        /\ task = "Settle" /\ task' = "Session"
        /\ link' # NoLink =>
             /\ link # NoLink /\ link'.host = link.host /\ link'.pairing = link.pairing
             /\ link'.encrypted = link.encrypted /\ link'.real
    BY <1>0, <1>9 DEF SettleBonded, SessionBegins, Link
  <2>2. /\ bonder'.peer = bonder.peer /\ bonder'.window = bonder.window
        /\ bonder'.refused = bonder.refused
    BY <1>0, <2>1 DEF OwnAttrs, Bonder
  <2> QED
    BY <2>1, <2>2 DEF LinkInv, AttrsInv, Handled, IsPeer
<1>10. ASSUME NEW b \in Bonder, b.peer = bonder.peer, b.window = bonder.window,
              b.refused = bonder.refused, b.attrs_conn = bonder.attrs_conn,
              bonder' \in {b, TakeGeneration(b)}, link' = link, conn' = conn,
              \/ task' = task
              \/ task = "Ended" /\ task' = "Hangup"
              \/ task = "Flush" /\ task' = "Torn"
       PROVE  LinkInv' /\ AttrsInv'
  <2>1. /\ bonder'.peer = bonder.peer /\ bonder'.window = bonder.window
        /\ bonder'.refused = bonder.refused /\ bonder'.attrs_conn = bonder.attrs_conn
    BY <1>10 DEF TakeGeneration, Bonder
  <2> QED
    BY <1>10, <2>1 DEF LinkInv, AttrsInv, Handled, IsPeer
<1>11. CASE PersistInSession \/ FlushBond
  BY <1>0, <1>10, <1>11 DEF PersistInSession, FlushBond, SavesOwed, Saves
<1>12. CASE LastSnapshot
  <2> DEFINE b == IF link = NoLink THEN bonder ELSE SaveSysAttrs(bonder, link)
  <2>1. b \in Bonder /\ b.peer = bonder.peer /\ b.window = bonder.window
        /\ b.refused = bonder.refused /\ b.attrs_conn = bonder.attrs_conn
    BY <1>0, SnapshotFields, SecurityTypes
  <2>2. SavesOwed(b) /\ link' = link /\ conn' = conn /\ task = "Ended" /\ task' = "Hangup"
    BY <1>12 DEF LastSnapshot
  <2> HIDE DEF b
  <2> QED
    BY <1>10, <2>1, <2>2 DEF SavesOwed, Saves
<1>13. CASE Refreshed
  <2> DEFINE b == SaveSysAttrs(bonder, link)
  <2>1. b \in Bonder /\ b.peer = bonder.peer /\ b.window = bonder.window
        /\ b.refused = bonder.refused /\ b.attrs_conn = bonder.attrs_conn
    BY <1>0, <1>13, SnapshotFields, SecurityTypes DEF Refreshed
  <2>2. bonder' = b /\ link' = link /\ conn' = conn /\ task' = task
    BY <1>13 DEF Refreshed
  <2> HIDE DEF b
  <2> QED
    BY <1>10, <2>1, <2>2
<1>14. CASE Teardown
  <2>1. /\ task = "Torn" /\ link' = link /\ conn' = conn
        /\ IF bonder.window
           THEN task' = "Window" /\ bonder' = ArmProvisional(TornDown(bonder))
           ELSE task' = "Apart" /\ bonder' = EndWindow(TornDown(bonder))
    BY <1>14 DEF Teardown
  <2>2. ~bonder'.attrs_conn /\ (task' = "Window" => bonder'.window)
    BY <1>0, <2>1 DEF ArmProvisional, EndWindow, TornDown, Bonder
  <2> QED
    BY <2>1, <2>2 DEF LinkInv, AttrsInv, Handled
<1> QED
  BY <1>1, <1>2, <1>3, <1>4, <1>5, <1>6, <1>7, <1>8, <1>9, <1>11, <1>12, <1>13, <1>14
  DEF TaskNext, Classifies

LEMMA LinkFlash ==
  TypeOK /\ LinkInv /\ AttrsInv /\ (FlashNext \/ SaveFails \/ Boot) => LinkInv' /\ AttrsInv'
<1> SUFFICES ASSUME TypeOK, LinkInv, AttrsInv, FlashNext \/ SaveFails \/ Boot
             PROVE  LinkInv' /\ AttrsInv'
  OBVIOUS
<1>1. CASE Boot
  <2>1. link' = NoLink /\ task' = "Apart" /\ ~bonder'.attrs_conn
    BY <1>1 DEF Boot, Loaded
  <2> QED
    BY <2>1 DEF LinkInv, AttrsInv, Handled
<1>2. CASE FlashNext \/ SaveFails
  <2>1. link' = link /\ task' = task /\ conn' = conn
    BY <1>2 DEF FlashNext, Erase, WriteBody, WriteHeader, Verified, SaveFails, FlashStep
  <2>2. /\ bonder'.peer = bonder.peer /\ bonder'.window = bonder.window
        /\ bonder'.refused = bonder.refused /\ bonder'.attrs_conn = bonder.attrs_conn
    BY <1>2 DEF FlashNext, Erase, WriteBody, WriteHeader, Verified, SaveFails, MarkPersisted,
                TypeOK, Bonder
  <2> QED
    BY <2>1, <2>2 DEF LinkInv, AttrsInv, Handled, IsPeer
<1> QED
  BY <1>1, <1>2

-----------------------------------------------------------------------------
(* The invariant. *)

LEMMA InvInit == Init => Inv
<1> SUFFICES ASSUME Init
             PROVE  Inv
  OBVIOUS
<1>1. Loaded(NoBond, NoSnapshot) \in Bonder /\ Erased \in Page
  BY LoadedType DEF Erased, Page
<1>2. TypeOK
  <2>1. bonder \in Bonder /\ page \in Page
    BY <1>1 DEF Init
  <2>2. ~bonder.hold_attrs
    BY DEF Init, Loaded
  <2>3. /\ link \in Link \cup {NoLink} /\ save \in Save \cup {NoSave} /\ task \in Tasks
    BY DEF Init, Tasks
  <2>4. conn \in BOOLEAN /\ expired \in BOOLEAN /\ failed \in BOOLEAN
    BY DEF Init
  <2>5. pairings \in 0..MaxPairings
    BY PairingsAssumption DEF Init
  <2> QED
    BY <2>1, <2>2, <2>3, <2>4, <2>5 DEF TypeOK
<1>3. FlashInv
  BY DEF Init, FlashInv, SaveIsCurrent, PersistedIsInFlash, SnapshotOfPeer, Loaded, Erased
<1>4. LinkInv /\ AttrsInv
  BY DEF Init, LinkInv, AttrsInv, Loaded
<1> QED
  BY <1>2, <1>3, <1>4 DEF Inv

LEMMA InvNext == Inv /\ [Next]_vars => Inv'
<1> SUFFICES ASSUME Inv, [Next]_vars
             PROVE  Inv'
  OBVIOUS
<1>1. CASE LinkNext
  BY <1>1, TypeLink, FlashLink, LinkLink DEF Inv
<1>2. CASE TaskNext \/ OpenWindow \/ DeadlinePasses \/ BeginRefused \/ Begin(TRUE)
           \/ Refreshed \/ SessionHangsUp \/ SessionEnds
  BY <1>2, TypeTask, FlashTask, LinkTask DEF Inv
<1>3. CASE FlashNext \/ SaveFails \/ Boot
  BY <1>3, TypeFlash, FlashFlash, LinkFlash DEF Inv
<1>4. CASE UNCHANGED vars
  BY <1>4 DEF vars, Inv, TypeOK, FlashInv, SaveIsCurrent, PersistedIsInFlash, SnapshotOfPeer,
              LinkInv, AttrsInv, Handled, IsPeer
<1> QED
  BY <1>1, <1>2, <1>3, <1>4 DEF Next

\* Types are what the methods of Bonder and the page's layout allow.
THEOREM BondingTypes == Spec => []TypeOK
<1>1. Inv => TypeOK
  BY DEF Inv
<1> QED
  BY <1>1, InvInit, InvNext, PTL DEF Spec

\* mark_persisted's promise: what is not owed is in flash, whatever arrived
\* while a save was awaited and wherever a save was cut off (security.rs).
THEOREM NothingOwedIsInFlash == Spec => []PersistedIsInFlash
<1>1. Inv => PersistedIsInFlash
  BY DEF Inv, FlashInv
<1> QED
  BY <1>1, InvInit, InvNext, PTL DEF Spec

\* The record is one host's, in RAM and in any page a boot would load, and no
\* torn page loads (flash_bond.rs, is_valid).
THEOREM RecordIsOneHosts == Spec => []SnapshotOfPeer
<1>1. Inv => SnapshotOfPeer
  BY DEF Inv, FlashInv
<1> QED
  BY <1>1, InvInit, InvNext, PTL DEF Spec

\* HostService answers the bonded host, or a candidate in an open window,
\* although a stranger's pairing encrypts its link (task.rs, host_admitted).
THEOREM OnlyBondedIsServed == Spec => []ServedIsBonded
<1>1. Inv => ServedIsBonded
  BY DEF Inv, LinkInv, ServedIsBonded, Answered, Handled
<1> QED
  BY <1>1, InvInit, InvNext, PTL DEF Spec

\* Subscriptions are kept for a link that was served or has bonded, and another
\* host's bond is taken only inside a window (security.rs, attrs_conn).
THEOREM HostsOwnTheirRecord == Spec => OnlyItsHostRewrites
<1> DEFINE Kept == bonder'.attrs \in {bonder.attrs, NoSnapshot, page.attrs}
           Same == bonder'.peer \in {bonder.peer, NoBond, page.peer}
           Attrs == Kept \/ (link # NoLink /\ link.real)
           Peer == Same \/ bonder.peer = NoBond \/ bonder.window
                   \/ bonder'.peer.host = bonder.peer.host
<1>1. ASSUME Inv, [Next]_vars
      PROVE  Attrs /\ Peer
  <2>0. TypeOK /\ AttrsInv /\ bonder \in Bonder
    BY <1>1 DEF Inv, TypeOK
  <2>1. CASE Boot
    BY <2>1 DEF Boot, Loaded
  <2>2. CASE Bonded
    <3>1. CASE Refuses(bonder, link)
      <4>1. bonder' = [bonder EXCEPT !.refused = TRUE]
        BY <2>2, <3>1 DEF Bonded, OnBonded
      <4> QED
        BY <2>0, <4>1 DEF Bonder
    <3>2. CASE ~Refuses(bonder, link)
      <4>1. bonder' = Replaced(bonder, link, NewKey)
        BY <2>2, <3>2 DEF Bonded, OnBonded
      <4>2. bonder'.attrs = NoSnapshot /\ bonder'.peer.host = link.host
        BY <2>0, <4>1 DEF Replaced, Bonder
      <4>3. bonder.peer = NoBond \/ bonder.window \/ bonder.peer.host = link.host
        BY <3>2 DEF Refuses, IsStranger
      <4> QED
        BY <4>2, <4>3
    <3> QED
      BY <3>1, <3>2
  <2>3. ASSUME NEW b, b = bonder \/ (link # NoLink /\ b = SaveSysAttrs(bonder, link)),
               bonder' \in {b, TakeGeneration(b)}
        PROVE  Attrs /\ Peer
    <3>1. b.peer = bonder.peer /\ b \in Bonder
      <4>1. CASE b = bonder
        BY <2>0, <4>1
      <4>2. CASE link # NoLink /\ b = SaveSysAttrs(bonder, link)
        BY <2>0, <4>2, SnapshotFields, SecurityTypes DEF TypeOK
      <4> QED
        BY <2>3, <4>1, <4>2
    <3>2. b.attrs = bonder.attrs \/ (link # NoLink /\ link.real)
      <4>1. CASE b = bonder
        BY <4>1
      <4>2. CASE link # NoLink /\ b = SaveSysAttrs(bonder, link)
        BY <2>0, <4>2 DEF SaveSysAttrs, MaySnapshot, AttrsInv
      <4> QED
        BY <2>3, <4>1, <4>2
    <3>3. bonder'.peer = b.peer /\ bonder'.attrs = b.attrs
      BY <2>3, <3>1 DEF TakeGeneration, Bonder
    <3> QED
      BY <3>1, <3>2, <3>3
  <2>4. CASE Disconnected \/ Refreshed
    BY <2>3, <2>4 DEF Disconnected, Refreshed
  <2>5. CASE PersistInSession \/ FlushBond
    BY <2>3, <2>5 DEF PersistInSession, FlushBond, SavesOwed, Saves
  <2>6. CASE LastSnapshot
    BY <2>3, <2>6 DEF LastSnapshot, SavesOwed, Saves
  <2>7. ASSUME bonder'.peer = bonder.peer, bonder'.attrs \in {bonder.attrs, NoSnapshot}
        PROVE  Attrs /\ Peer
    BY <2>7
  <2>8. CASE \/ UNCHANGED bonder
             \/ bonder' = OwnAttrs(bonder, link # NoLink)
             \/ bonder' = MarkPersisted(bonder)
             \/ bonder' = EndWindow(bonder)
             \/ bonder' = ArmProvisional(BeginWindow(bonder))
             \/ bonder' = GetKey(bonder, link)
             \/ bonder' = SecurityParams(bonder, link)
             \/ bonder' = SnapshotDropped(bonder)
             \/ bonder' = OwnAttrs(SnapshotDropped(bonder), link # NoLink)
             \/ bonder' = ArmProvisional(TornDown(bonder))
             \/ bonder' = EndWindow(TornDown(bonder))
    BY <2>0, <2>7, <2>8 DEF OwnAttrs, MarkPersisted, EndWindow, ArmProvisional, BeginWindow,
         GetKey, SecurityParams, SnapshotDropped, TornDown, Bonder
  <2>9. CASE LinkNext
    BY <2>2, <2>4, <2>8, <2>9 DEF LinkNext, Connect, PairingAsked, PairingEncrypts,
         PairingFails, KeyReused, Subscribed
  <2>10. CASE \E invalid \in BOOLEAN : Begin(invalid)
    BY <2>8, <2>10 DEF Begin
  <2>11. CASE Classifies \/ SessionHangsUp \/ SessionEnds \/ HungUp \/ BeginRefused
    BY <2>8, <2>11 DEF Classifies, StageLeft, StageAdmits, StageRefuses, SettleLeft,
         SettleBonded, SettleGone, SettleOver, SessionHangsUp, SessionEnds, HungUp,
         BeginRefused, SessionBegins, HangsUp, Goes
  <2>12. CASE CloseWindow \/ OpenWindow \/ DeadlinePasses \/ Teardown
    BY <2>8, <2>12 DEF CloseWindow, OpenWindow, DeadlinePasses, Teardown
  <2>13. CASE FlashNext \/ SaveFails
    BY <2>8, <2>13 DEF FlashNext, Erase, WriteBody, WriteHeader, Verified, SaveFails
  <2>14. CASE UNCHANGED vars
    BY <2>8, <2>14 DEF vars
  <2> QED
    BY <1>1, <2>1, <2>4, <2>5, <2>6, <2>9, <2>10, <2>11, <2>12, <2>13, <2>14
    DEF Next, TaskNext
<1>2. Inv /\ [Next]_vars =>
        [/\ bonder'.attrs \notin {bonder.attrs, NoSnapshot, page.attrs} =>
               link # NoLink /\ link.real
         /\ bonder'.peer \notin {bonder.peer, NoBond, page.peer} /\ bonder.peer # NoBond =>
               bonder.window \/ bonder'.peer.host = bonder.peer.host]_vars
  BY <1>1
<1> QED
  BY <1>2, InvInit, InvNext, PTL DEF Spec, OnlyItsHostRewrites
====
