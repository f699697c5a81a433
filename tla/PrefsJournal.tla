---------------------------- MODULE PrefsJournal ----------------------------
(***************************************************************************)
(* The preferences page (ble/prefs.rs over                                 *)
(* maple-protocol/src/prefs_journal.rs): one flash page of record slots.   *)
(* A save appends to the first blank slot, body first and header last, and *)
(* reads the slot back; the page is erased only when no slot is blank.  A  *)
(* boot loads the highest slot that decodes.  A record is its two fields:  *)
(* the integrity word and the schema are what makes a slot decode, so a    *)
(* slot holds a record, or nothing that decodes, or is blank.              *)
(***************************************************************************)
EXTENDS Integers, FiniteSets

CONSTANTS
    SlotCount,  \* slots of the page (128 in the code)
    Maps,       \* remap tables that pass RemapTable::is_valid
    Default,    \* RemapTable::DEFAULT
    Xbox,       \* the two profiles; the first is the one of a blank page
    Generic,
    NoSave      \* no save_prefs is running

ASSUME PrefsAssumption ==
    /\ SlotCount \in Nat \ {0}
    /\ Default \in Maps
    /\ Xbox # Generic

VARIABLES
    page,   \* the flash page, slot by slot
    save    \* the save_prefs in progress: its record, its slot, its next step

journalVars == <<page, save>>

ProfileId == {Xbox, Generic}
Prefs == [profile : ProfileId, map : Maps]
Slot == 1 .. SlotCount

\* What a slot can hold: 32 bytes of 0xFF, a record that decodes, the pre-journal
\* profile (slot 1 only, by its magic), or bytes that decode as nothing.
Blank == [holds |-> "blank"]
Torn == [holds |-> "torn"]
Record(prefs) == [holds |-> "record", prefs |-> prefs]
Legacy(profile) == [holds |-> "legacy", profile |-> profile]

Contents == {Blank, Torn} \cup {Record(p) : p \in Prefs} \cup {Legacy(i) : i \in ProfileId}

Valid(pg) == {i \in Slot : pg[i].holds = "record"}
Free(pg) == {i \in Slot : pg[i] = Blank}

Newest(pg) == CHOOSE i \in Valid(pg) : \A j \in Valid(pg) : j <= i
FirstFree(pg) == CHOOSE i \in Free(pg) : \A j \in Free(pg) : i <= j

\* What load_prefs makes of the page: the newest record, or the legacy profile
\* with the default map, or the defaults.
Loaded(pg) ==
    IF Valid(pg) # {} THEN pg[Newest(pg)].prefs
    ELSE IF pg[1].holds = "legacy" THEN [profile |-> pg[1].profile, map |-> Default]
    ELSE [profile |-> Xbox, map |-> Default]

-----------------------------------------------------------------------------
(* save_prefs, one flash operation a step.  compacts: this save erases.    *)

Saves ==
    [prefs : Prefs, compacts : BOOLEAN, slot : Slot,
     next : {"erase", "body", "header", "verify"}]

ASSUME NoSaveAssumption == NoSave \notin Saves

Full(pg) == Free(pg) = {}

\* Mutant: a full page is rewritten from its first slot without the erase.
SaveInPlace(prefs, pg) ==
    [prefs |-> prefs, compacts |-> FALSE,
     slot |-> IF Full(pg) THEN 1 ELSE FirstFree(pg), next |-> "body"]

SaveOf(prefs, pg) ==
    [prefs |-> prefs, compacts |-> Full(pg),
     slot |-> IF Full(pg) THEN 1 ELSE FirstFree(pg),
     next |-> IF Full(pg) THEN "erase" ELSE "body"]

StartSave(prefs) ==
    /\ save' = SaveOf(prefs, page)
    /\ UNCHANGED page

Erase ==
    /\ save # NoSave /\ save.next = "erase"
    /\ page' = [i \in Slot |-> Blank]
    /\ save' = [save EXCEPT !.next = "body"]

WriteBody ==
    /\ save # NoSave /\ save.next = "body"
    /\ page' = [page EXCEPT ![save.slot] = Torn]
    /\ save' = [save EXCEPT !.next = "header"]

\* The write may have left the slot other than it was asked to.
WriteHeader ==
    /\ save # NoSave /\ save.next = "header"
    /\ \E whole \in BOOLEAN :
          page' = [page EXCEPT ![save.slot] = IF whole THEN Record(save.prefs) ELSE Torn]
    /\ save' = [save EXCEPT !.next = "verify"]

\* Mutant: the slot is not read back.
VerifiedUnread == TRUE

\* The read-back compare; its result is the result of save_prefs.
Verified == page[save.slot] = Record(save.prefs)

\* What the page may be left as when the operation save is at is cut short: the
\* erase works on the page as one and leaves it as it was, cleared, or spoilt; a
\* write leaves its slot as it was or torn (the header is two words, and the
\* record decodes with both only).
CutShort ==
    CASE save.next = "erase" -> {page, [i \in Slot |-> Blank], [i \in Slot |-> Torn]}
      [] save.next \in {"body", "header"} -> {page, [page EXCEPT ![save.slot] = Torn]}
      [] OTHER -> {page}

\* The flash reports an error: save_prefs returns it, whatever was written.
FlashFails ==
    /\ save # NoSave /\ save.next # "verify"
    /\ page' \in CutShort

\* The chip resets or loses power, the operation cut short or just done.
Reset ==
    /\ save' = NoSave
    /\ IF save = NoSave THEN UNCHANGED page
       ELSE page' \in CutShort \cup
                (IF save.next = "header"
                 THEN {[page EXCEPT ![save.slot] = Record(save.prefs)]} ELSE {})
=============================================================================
