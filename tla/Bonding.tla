---- MODULE Bonding ----
(***************************************************************************)
(* Sessions and pairing windows: what the one link there can be does, what  *)
(* ble_task makes of it, and how the bond gets to the flash page. Events of *)
(* the link are dispatched whatever ble_task waits for.                     *)
(***************************************************************************)
EXTENDS Bonder

CONSTANTS
  NoSave,
  MaxPairings   \* bound on pairings that complete

ASSUME PairingsAssumption == MaxPairings \in Nat

VARIABLES
  bonder,
  link,      \* the link, or NoLink
  task,      \* where ble_task is
  conn,      \* advertise has a connection ble_task has not taken up
  expired,   \* the window's deadline has passed
  page,      \* the bond page in flash
  save,      \* the save ble_task awaits
  pairings,
  failed     \* a flash operation has failed

vars == <<bonder, link, task, conn, expired, page, save, pairings, failed>>

Tasks ==
  {"Apart",     \* advertising to the bonded host, or silent
   "Window",    \* advertising in the pairing window
   "Stage",     \* a candidate is being classified
   "Settle",    \* admitted, not bonded yet
   "Session",
   "Ended",     \* the session is over, its last save to be made
   "Hangup",    \* disconnect() called, waiting for the link to go
   "Flush",     \* the teardown that every session ends in
   "Torn"}      \* its last save

\* The body of the record and the header that is written last, which carries
\* the body's check sum: a page without it does not load.
Page == [peer : Bond \cup {NoBond}, attrs : Snapshot \cup {NoSnapshot}, sealed : BOOLEAN]

Erased == [peer |-> NoBond, attrs |-> NoSnapshot, sealed |-> FALSE]

Save == [peer : Bond, attrs : Snapshot \cup {NoSnapshot},
         step : {"Erase", "Body", "Header", "Verify"}]

Init ==
  /\ bonder = Loaded(NoBond, NoSnapshot) /\ page = Erased /\ save = NoSave
  /\ link = NoLink /\ task = "Apart" /\ conn = FALSE /\ expired = FALSE
  /\ pairings = 0 /\ failed = FALSE

-----------------------------------------------------------------------------
(* The link *)

NewLink(h) == [host |-> h, encrypted |-> FALSE, pairing |-> FALSE, full |-> FALSE,
               closing |-> FALSE, real |-> FALSE]

Closing(l) == IF l = NoLink THEN l ELSE [l EXCEPT !.closing = TRUE]

Advertising ==
  \/ task = "Apart" /\ bonder.peer # NoBond
  \/ task = "Window" /\ ~expired

Connect(h) ==
  /\ Advertising /\ ~conn /\ link = NoLink
  /\ link' = NewLink(h) /\ conn' = TRUE
  /\ UNCHANGED <<bonder, task, expired, page, save, pairings, failed>>

\* A link hung up on is quiet by the time its connection is given up, half a
\* second to two seconds later; only its end may still be reported.
Speaks ==
  link # NoLink /\ (link.closing => conn \/ task \in {"Stage", "Settle", "Session", "Ended", "Hangup"})

LinkEvent == Speaks /\ UNCHANGED <<task, conn, expired, page, save, failed>>

PairingAsked ==
  /\ LinkEvent /\ ~link.pairing /\ pairings < MaxPairings
  /\ bonder' = SecurityParams(bonder, link)
  /\ link' = [link EXCEPT !.pairing = TRUE,
                          !.closing = @ \/ (~bonder.window /\ IsStranger(bonder, link))]
  /\ UNCHANGED pairings

PairingEncrypts ==
  /\ LinkEvent /\ link.pairing /\ ~link.encrypted
  /\ link' = [link EXCEPT !.encrypted = TRUE]
  /\ UNCHANGED <<bonder, pairings>>

PairingFails ==
  /\ LinkEvent /\ link.pairing
  /\ link' = [link EXCEPT !.pairing = FALSE]
  /\ UNCHANGED <<bonder, pairings>>

NewKey == IF bonder.peer = NoBond THEN 0 ELSE 1 - bonder.peer.key

Bonded ==
  /\ LinkEvent /\ link.pairing /\ link.encrypted /\ pairings < MaxPairings
  /\ bonder' = OnBonded(bonder, link, NewKey)
  /\ link' = [link EXCEPT !.pairing = FALSE,
                          !.closing = @ \/ Refuses(bonder, link),
                          !.real = @ \/ ~Refuses(bonder, link)]
  /\ pairings' = pairings + 1

KeyReused ==
  /\ LinkEvent /\ ~link.encrypted
  /\ bonder' = GetKey(bonder, link)
  /\ link' = [link EXCEPT !.encrypted = GivesKey(bonder, link)]
  /\ UNCHANGED pairings

Subscribed ==
  /\ LinkEvent /\ ~link.full
  /\ link' = [link EXCEPT !.full = TRUE]
  /\ UNCHANGED <<bonder, pairings>>

\* The library saves the attributes on every disconnect, the handle still live.
Disconnected ==
  /\ link # NoLink
  /\ bonder' = SaveSysAttrs(bonder, link) /\ link' = NoLink
  /\ UNCHANGED <<task, conn, expired, page, save, pairings, failed>>

-----------------------------------------------------------------------------
(* ble_task *)

\* Between awaits of its own; a save is awaited where it was started.
TaskStep == save = NoSave /\ UNCHANGED <<page, pairings, failed>>

OpenWindow ==
  /\ TaskStep /\ task = "Apart" /\ ~conn
  /\ bonder' = ArmProvisional(BeginWindow(bonder))
  /\ task' = "Window" /\ expired' = FALSE
  /\ UNCHANGED <<link, conn, save>>

DeadlinePasses ==
  /\ bonder.window /\ ~expired /\ expired' = TRUE
  /\ UNCHANGED <<bonder, link, task, conn, page, save, pairings, failed>>

CloseWindow ==
  /\ TaskStep /\ task = "Window" /\ ~conn /\ expired
  /\ bonder' = EndWindow(bonder) /\ task' = "Apart"
  /\ UNCHANGED <<link, conn, expired, save>>

\* A sync press was signaled before the connection was taken up.
BeginRefused ==
  /\ TaskStep /\ conn
  /\ conn' = FALSE /\ task' = "Flush" /\ link' = Closing(link)
  /\ UNCHANGED <<bonder, expired, save>>

\* load_sys_attrs, then the stage, or the session at once. A snapshot taken
\* under another attribute table is refused, and dropped with that.
Begin(invalid) ==
  /\ TaskStep /\ conn /\ conn' = FALSE
  /\ invalid => link # NoLink /\ HasSnapshot(bonder, link)
  /\ LET b == IF invalid THEN SnapshotDropped(bonder) ELSE bonder
         staged == bonder.window
     IN  /\ bonder' = IF staged THEN b ELSE OwnAttrs(b, link # NoLink)
         /\ task' = IF staged THEN "Stage" ELSE "Session"
         /\ link' = IF link = NoLink THEN NoLink
                    ELSE [link EXCEPT !.full = Restored(b, link), !.real = @ \/ ~staged]
  /\ UNCHANGED <<expired, save>>

Goes(to) ==
  TaskStep /\ task' = to /\ UNCHANGED <<bonder, link, conn, expired, save>>

HangsUp ==
  /\ TaskStep /\ task' = "Hangup" /\ link' = Closing(link)
  /\ UNCHANGED <<bonder, conn, expired, save>>

SessionBegins ==
  /\ TaskStep /\ task' = "Session"
  /\ bonder' = OwnAttrs(bonder, link # NoLink)
  /\ link' = IF link = NoLink THEN NoLink ELSE [link EXCEPT !.real = TRUE]
  /\ UNCHANGED <<conn, expired, save>>

\* The candidate left, or its pairing was seen.
StageLeft == task = "Stage" /\ link = NoLink /\ Goes("Flush")

StageAdmits ==
  task = "Stage" /\ link # NoLink /\ bonder.observed = "FreshPairing" /\ Goes("Settle")

\* It reused the stored key, or the stage timed out; a bond may have beaten both.
StageRefuses ==
  /\ task = "Stage" /\ link # NoLink /\ bonder.observed # "FreshPairing"
  /\ IF bonder.window THEN HangsUp ELSE Goes("Settle")

SettleLeft == task = "Settle" /\ link = NoLink /\ bonder.window /\ Goes("Flush")

SettleBonded == task = "Settle" /\ ~bonder.window /\ SessionBegins

\* The bond landed and the link went before the wait was over.
SettleGone == task = "Settle" /\ ~bonder.window /\ link = NoLink /\ Goes("Flush")

SettleOver == task = "Settle" /\ link # NoLink /\ bonder.window /\ expired /\ HangsUp

\* The tick: the snapshot once a second, then whatever flash is owed.
Refreshed ==
  /\ TaskStep /\ task = "Session" /\ link # NoLink
  /\ bonder' = SaveSysAttrs(bonder, link)
  /\ UNCHANGED <<link, task, conn, expired, save>>

Saving(b) == [peer |-> b.peer, attrs |-> b.attrs, step |-> "Erase"]

\* The generation first, then the data, and persist_bond is awaited.
Saves(b) == bonder' = TakeGeneration(b) /\ save' = Saving(b)

SavesOwed(b) ==
  IF b.owed /\ b.peer # NoBond THEN Saves(b) ELSE bonder' = b /\ UNCHANGED save

PersistInSession ==
  /\ TaskStep /\ task = "Session" /\ bonder.owed /\ bonder.peer # NoBond
  /\ Saves(bonder)
  /\ UNCHANGED <<link, task, conn, expired>>

\* For pairing mode, with no last snapshot.
SessionHangsUp == task = "Session" /\ HangsUp

\* The link went, or the notify budget ran out.
SessionEnds == task = "Session" /\ Goes("Ended")

LastSnapshot ==
  /\ TaskStep /\ task = "Ended" /\ task' = "Hangup"
  /\ SavesOwed(IF link = NoLink THEN bonder ELSE SaveSysAttrs(bonder, link))
  /\ UNCHANGED <<link, conn, expired>>

\* The wait is bounded, the link may outlive it; the connection is dropped.
HungUp ==
  /\ TaskStep /\ task = "Hangup" /\ task' = "Flush" /\ link' = Closing(link)
  /\ UNCHANGED <<bonder, conn, expired, save>>

\* Mutant of FlushBond: what the session owes flash leaves with it.
FlushNothing == task = "Flush" /\ Goes("Torn")

FlushBond ==
  /\ TaskStep /\ task = "Flush" /\ task' = "Torn"
  /\ SavesOwed(bonder)
  /\ UNCHANGED <<link, conn, expired>>

\* Then the window's next slice, or its end; elsewhere there is nothing to end.
Teardown ==
  /\ TaskStep /\ task = "Torn"
  /\ IF bonder.window
     THEN task' = "Window" /\ bonder' = ArmProvisional(TornDown(bonder))
     ELSE task' = "Apart" /\ bonder' = EndWindow(TornDown(bonder))
  /\ UNCHANGED <<link, conn, expired, save>>

-----------------------------------------------------------------------------
(* The bond page. A step that fails ends the save, and is not tried again   *)
(* before the next one.                                                     *)

FlashStep(step) ==
  save # NoSave /\ save.step = step /\ UNCHANGED <<link, task, conn, expired, pairings>>

StepsTo(step) == save' = [save EXCEPT !.step = step]

Erase ==
  /\ FlashStep("Erase") /\ page' = Erased /\ StepsTo("Body")
  /\ UNCHANGED <<bonder, failed>>

WriteBody ==
  /\ FlashStep("Body") /\ StepsTo("Header")
  /\ page' = [peer |-> save.peer, attrs |-> save.attrs, sealed |-> FALSE]
  /\ UNCHANGED <<bonder, failed>>

WriteHeader ==
  /\ FlashStep("Header") /\ StepsTo("Verify")
  /\ page' = [page EXCEPT !.sealed = TRUE]
  /\ UNCHANGED <<bonder, failed>>

\* The keys are read back; the attributes are not compared.
Verified ==
  /\ FlashStep("Verify") /\ save' = NoSave
  /\ bonder' = IF page.sealed /\ page.peer = save.peer THEN MarkPersisted(bonder) ELSE bonder
  /\ UNCHANGED <<page, failed>>

SaveFails ==
  /\ save # NoSave /\ save.step # "Verify"
  /\ save' = NoSave /\ failed' = TRUE
  /\ UNCHANGED <<bonder, link, task, conn, expired, page, pairings>>

\* Power goes, or System OFF or a reset takes the RAM, at any moment.
Boot ==
  /\ bonder' = IF page.sealed THEN Loaded(page.peer, page.attrs) ELSE Loaded(NoBond, NoSnapshot)
  /\ link' = NoLink /\ task' = "Apart" /\ conn' = FALSE /\ expired' = FALSE /\ save' = NoSave
  /\ UNCHANGED <<page, pairings, failed>>

-----------------------------------------------------------------------------
LinkNext ==
  \/ \E h \in Hosts : Connect(h)
  \/ PairingAsked \/ PairingEncrypts \/ PairingFails \/ Bonded
  \/ KeyReused \/ Subscribed \/ Disconnected

Classifies ==
  \/ StageLeft \/ StageAdmits \/ StageRefuses
  \/ SettleLeft \/ SettleBonded \/ SettleGone \/ SettleOver

\* What ble_task does next of itself, at the latest when a timer of its ends.
TaskNext ==
  \/ CloseWindow \/ Begin(FALSE)
  \/ Classifies
  \/ PersistInSession \/ LastSnapshot \/ HungUp \/ FlushBond \/ Teardown

FlashNext == Erase \/ WriteBody \/ WriteHeader \/ Verified

Next ==
  \/ LinkNext
  \/ TaskNext
  \/ FlashNext
  \/ OpenWindow \/ DeadlinePasses \/ BeginRefused \/ Begin(TRUE)
  \/ Refreshed \/ SessionHangsUp \/ SessionEnds
  \/ SaveFails \/ Boot

Spec == Init /\ [][Next]_vars

\* Neither a connection, nor a pairing, nor the end of a session is owed by
\* anyone: the executor runs ble_task, the flash driver answers, time passes.
Fairness == WF_vars(TaskNext) /\ WF_vars(FlashNext) /\ WF_vars(DeadlinePasses)

FairSpec == Spec /\ Fairness

-----------------------------------------------------------------------------
(* Properties *)

TypeOK ==
  /\ bonder \in Bonder /\ (task = "Apart" => ~bonder.hold_attrs)
  /\ link \in Link \cup {NoLink}
  /\ task \in Tasks /\ conn \in BOOLEAN /\ expired \in BOOLEAN
  /\ page \in Page /\ save \in Save \cup {NoSave}
  /\ pairings \in 0..MaxPairings /\ failed \in BOOLEAN

\* mark_persisted's promise: when nothing is owed, a boot would load exactly
\* what is in RAM, however bonds and snapshots arrived while saves were running
\* (security.rs, "what keeps a stale write from masking a newer bond").
PersistedIsInFlash ==
  ~bonder.owed /\ bonder.peer # NoBond =>
    page = [peer |-> bonder.peer, attrs |-> bonder.attrs, sealed |-> TRUE]

\* What RAM holds, and what a boot at any moment would load, is one host's
\* record: no host's subscriptions are kept with another host's keys, and no
\* torn save loads (flash_bond.rs, is_valid).
SnapshotOfPeer ==
  /\ bonder.attrs # NoSnapshot => bonder.peer # NoBond /\ bonder.attrs.of = bonder.peer.host
  /\ page.sealed => page.peer # NoBond
  /\ page.sealed /\ page.attrs # NoSnapshot => page.attrs.of = page.peer.host

\* The server answers the link: run_connection has not given it up.
Answered == link # NoLink /\ task \in {"Stage", "Settle", "Session", "Hangup"}

\* HostService, which writes the docked VMU, is for the bonded host, or for a
\* candidate while the window is open (task.rs, host_admitted). A stranger's
\* Just Works pairing encrypts the link, and the disconnect comes later.
ServedIsBonded ==
  Answered /\ link.encrypted /\ ~bonder.refused => bonder.window \/ IsPeer(bonder, link)

\* Only a session that was real and a bonding rewrite what is kept of the
\* host, and another host only takes its place from inside a window, whatever
\* reports of refused links come late (security.rs, attrs_conn).
OnlyItsHostRewrites ==
  [][/\ bonder'.attrs \notin {bonder.attrs, NoSnapshot, page.attrs} =>
          link # NoLink /\ link.real
     /\ bonder'.peer \notin {bonder.peer, NoBond, page.peer} /\ bonder.peer # NoBond =>
          bonder.window \/ bonder'.peer.host = bonder.peer.host]_vars

\* The keys a boot would not find.
OnlyInRam == bonder.peer # NoBond /\ ~(page.sealed /\ page.peer = bonder.peer)

\* A bond accepted in RAM does not leave with the session, whichever way that
\* ends (task.rs, handle_connection), unless the flash itself failed.
BondReachesFlash == OnlyInRam ~> ~OnlyInRam \/ failed
====
