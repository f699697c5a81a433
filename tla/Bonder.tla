---- MODULE Bonder ----
(***************************************************************************)
(* The bonder: whom the adapter is paired with, the attribute snapshot kept *)
(* for that host, and the pairing window, all in RAM. Operators on its      *)
(* record, one for each method and each callback of the SoftDevice.          *)
(***************************************************************************)
EXTENDS Naturals

CONSTANTS Hosts, NoBond, NoSnapshot, NoLink

ASSUME HostsAssumption ==
  NoBond \notin [host : Hosts, key : {0, 1}] /\ NoSnapshot \notin [of : Hosts, full : BOOLEAN]

\* Any two keys a host is given one after the other differ; more is not needed.
Bond == [host : Hosts, key : {0, 1}]

\* The CCCDs of a link, which the host has set or not.
Snapshot == [of : Hosts, full : BOOLEAN]

Observed == {"Nothing", "OldKeyReuse", "FreshPairing"}

\* generation and persisted are only compared: `owed` says that they differ,
\* `taken` that generation is still what the save in flight took. attrs_conn
\* is the handle of the one link there can be, or none.
Bonder ==
  [peer : Bond \cup {NoBond}, attrs : Snapshot \cup {NoSnapshot},
   window : BOOLEAN, observed : Observed, refused : BOOLEAN,
   hold_attrs : BOOLEAN, attrs_conn : BOOLEAN, owed : BOOLEAN, taken : BOOLEAN]

\* new, then load_from_flash with what was found there.
Loaded(p, a) ==
  [peer |-> p, attrs |-> a, window |-> FALSE, observed |-> "Nothing",
   refused |-> FALSE, hold_attrs |-> FALSE, attrs_conn |-> FALSE,
   owed |-> FALSE, taken |-> FALSE]

Link == [host : Hosts, encrypted : BOOLEAN, pairing : BOOLEAN, full : BOOLEAN,
         closing : BOOLEAN, real : BOOLEAN]

IsPeer(b, l) == b.peer # NoBond /\ b.peer.host = l.host

IsStranger(b, l) == ~b.window /\ b.peer # NoBond /\ b.peer.host # l.host

BeginWindow(b) == [b EXCEPT !.window = TRUE, !.observed = "Nothing"]

ArmProvisional(b) == [b EXCEPT !.observed = "Nothing", !.hold_attrs = TRUE]

EndWindow(b) == [b EXCEPT !.window = FALSE, !.observed = "Nothing", !.hold_attrs = FALSE]

\* A link that is gone has no handle.
OwnAttrs(b, there) == [b EXCEPT !.attrs_conn = there]

TornDown(b) == [b EXCEPT !.attrs_conn = FALSE, !.refused = FALSE]

-----------------------------------------------------------------------------
(* Security *)

\* Mutant of SecurityParams: the stranger is caught only once it has bonded.
SecurityParamsLate(b, l) == IF b.window THEN [b EXCEPT !.observed = "FreshPairing"] ELSE b

SecurityParams(b, l) ==
  IF b.window THEN [b EXCEPT !.observed = "FreshPairing"]
  ELSE [b EXCEPT !.refused = @ \/ IsStranger(b, l)]

Refuses(b, l) == b.refused \/ IsStranger(b, l)

Replaced(b, l, key) ==
  [b EXCEPT !.peer = [host |-> l.host, key |-> key], !.attrs = NoSnapshot,
            !.owed = TRUE, !.taken = FALSE, !.window = FALSE, !.hold_attrs = FALSE,
            !.attrs_conn = TRUE]

OnBonded(b, l, key) ==
  IF Refuses(b, l) THEN [b EXCEPT !.refused = TRUE] ELSE Replaced(b, l, key)

GetKey(b, l) == IF IsPeer(b, l) /\ b.window THEN [b EXCEPT !.observed = "OldKeyReuse"] ELSE b

GivesKey(b, l) == IsPeer(b, l) /\ ~b.window

-----------------------------------------------------------------------------
(* Attributes *)

\* Mutant of MaySnapshot: whose attributes they are is not asked.
MaySnapshotUnowned(b, l) == ~b.hold_attrs /\ IsPeer(b, l)

MaySnapshot(b, l) == ~b.hold_attrs /\ b.attrs_conn /\ IsPeer(b, l)

SaveSysAttrs(b, l) ==
  LET read == [of |-> l.host, full |-> l.full]
  IN  IF MaySnapshot(b, l) /\ b.attrs # read
      THEN [b EXCEPT !.attrs = read, !.owed = TRUE, !.taken = FALSE]
      ELSE b

HasSnapshot(b, l) == IsPeer(b, l) /\ b.attrs # NoSnapshot

\* The SoftDevice refuses the snapshot: it is dropped and the link starts clean.
SnapshotDropped(b) == [b EXCEPT !.attrs = NoSnapshot, !.owed = TRUE, !.taken = FALSE]

\* What the link starts with.
Restored(b, l) == HasSnapshot(b, l) /\ b.attrs.full

-----------------------------------------------------------------------------
(* Persistence *)

TakeGeneration(b) == [b EXCEPT !.taken = TRUE]

\* Mutant of MarkPersisted: a save marks whatever is in RAM by then.
MarkAnyPersisted(b) == [b EXCEPT !.owed = FALSE]

MarkPersisted(b) == IF b.taken THEN [b EXCEPT !.owed = FALSE] ELSE b
====
