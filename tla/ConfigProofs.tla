---------------------------- MODULE ConfigProofs ----------------------------
(***************************************************************************)
(* The preferences page under both personalities, for a page of any length, *)
(* any set of maps and any queue: what a boot loads, at every point where    *)
(* power may fail, a link drop or the button reset the chip.                 *)
(***************************************************************************)
EXTENDS Config, SequenceTheorems, WellFoundedInduction, TLAPS

-----------------------------------------------------------------------------
(* The scan of a boot. *)

LEMMA LowestExists ==
  ASSUME NEW S, S \subseteq Nat, S # {}
  PROVE  \E i \in S : \A j \in S : i <= j
<1>1. PICK i \in S : \A j \in S : ~ (<<j, i>> \in OpToRel(<, Nat))
  BY NatLessThanWellFounded, WFMin
<1>2. \A j \in S : ~ (j < i)
  BY <1>1 DEF OpToRel
<1> QED
  BY <1>2

LEMMA HighestExists ==
  ASSUME NEW S, S \subseteq Slot, S # {}
  PROVE  \E i \in S : \A j \in S : j <= i
<1> DEFINE T == {SlotCount - i : i \in S}
<1>1. T \subseteq Nat /\ T # {}
  <2>1. \A i \in Slot : SlotCount - i \in Nat
    BY PrefsAssumption DEF Slot
  <2> QED
    BY <2>1
<1> HIDE DEF T
<1>2. PICK t \in T : \A u \in T : t <= u
  BY <1>1, LowestExists
<1>3. PICK i \in S : t = SlotCount - i
  BY DEF T
<1>4. \A j \in S : SlotCount - i <= SlotCount - j
  BY <1>2, <1>3 DEF T
<1> QED
  BY <1>4, PrefsAssumption DEF Slot

LEMMA NewestIsHighest ==
  ASSUME NEW pg, Valid(pg) # {}
  PROVE  Newest(pg) \in Valid(pg) /\ \A j \in Valid(pg) : j <= Newest(pg)
<1>1. Valid(pg) \subseteq Slot
  BY DEF Valid
<1> QED
  BY <1>1, HighestExists DEF Newest

LEMMA FirstFreeIsLowest ==
  ASSUME NEW pg, Free(pg) # {}
  PROVE  FirstFree(pg) \in Free(pg) /\ \A j \in Free(pg) : FirstFree(pg) <= j
<1>1. Free(pg) \subseteq Nat
  BY PrefsAssumption DEF Free, Slot
<1> QED
  BY <1>1, LowestExists DEF FirstFree

LEMMA SlotOne == 1 \in Slot /\ Slot \subseteq Int
  BY PrefsAssumption DEF Slot

(* Only records and the first slot's profile are looked at. *)
LEMMA LoadsTheSame ==
  ASSUME NEW p, NEW q, Valid(q) = Valid(p), \A i \in Valid(p) : q[i] = p[i],
         (p[1].holds # "legacy" /\ q[1].holds # "legacy") \/ q[1] = p[1]
  PROVE  Loaded(q) = Loaded(p)
<1>1. Newest(q) = Newest(p)
  BY DEF Newest
<1>2. Valid(p) # {} => Newest(p) \in Valid(p)
  BY NewestIsHighest
<1> QED
  BY <1>1, <1>2 DEF Loaded

(* A record with nothing after it is the one that is loaded. *)
LEMMA LoadsTheLast ==
  ASSUME NEW pg, NEW i \in Slot, NEW r, pg[i] = Record(r),
         \A j \in Slot : j > i => pg[j] = Blank
  PROVE  Loaded(pg) = r
<1>1. i \in Valid(pg) /\ \A j \in Valid(pg) : j <= i
  BY SlotOne DEF Valid, Record, Blank
<1>2. Newest(pg) = i
  <2>1. Newest(pg) \in Valid(pg) /\ i <= Newest(pg) /\ Newest(pg) <= i
    BY <1>1, NewestIsHighest
  <2> QED
    BY <2>1, SlotOne DEF Valid
<1> QED
  BY <1>1, <1>2 DEF Loaded, Record

LEMMA LoadsPrefs ==
  ASSUME NEW pg \in [Slot -> Contents]
  PROVE  Loaded(pg) \in Prefs
<1>1. CASE Valid(pg) # {}
  <2>1. Newest(pg) \in Slot /\ pg[Newest(pg)].holds = "record"
    BY <1>1, NewestIsHighest DEF Valid
  <2>2. \A c \in Contents : c.holds = "record" => c.prefs \in Prefs
    BY DEF Contents, Blank, Torn, Record, Legacy
  <2> QED
    BY <1>1, <2>1, <2>2 DEF Loaded
<1>2. CASE Valid(pg) = {}
  <2>1. \A c \in Contents : c.holds = "legacy" => c.profile \in ProfileId
    BY DEF Contents, Blank, Torn, Record, Legacy
  <2> QED
    BY <1>2, <2>1, SlotOne, PrefsAssumption DEF Loaded, Prefs, ProfileId
<1> QED
  BY <1>1, <1>2

-----------------------------------------------------------------------------
(* The page and the save on it. *)

(* Blank slots are the last ones. *)
Packed(pg) == \A i, j \in Slot : i < j /\ pg[i] = Blank => pg[j] = Blank

(* A save is at the first slot that was blank, its body over a blank slot     *)
(* and its header over its body; only one that compacts starts with the erase. *)
SavePlaced ==
  save # NoSave =>
    /\ save.compacts => save.slot = 1
    /\ save.next = "erase" => save.compacts
    /\ save.next # "erase" =>
         \A j \in Slot : /\ j > save.slot => page[j] = Blank
                         /\ j < save.slot => page[j] # Blank
    /\ save.next = "body" => page[save.slot] = Blank
    /\ save.next = "header" => page[save.slot] = Torn
    /\ save.next = "verify" => page[save.slot] \in {Torn, Record(save.prefs)}

JournalInv == Packed(page) /\ SavePlaced

LEMMA ContentsTypes ==
  /\ Blank \in Contents /\ Torn \in Contents
  /\ \A r \in Prefs : Record(r) \in Contents
  /\ Blank # Torn /\ \A r : Record(r) \notin {Blank, Torn}
  BY DEF Contents, Blank, Torn, Record

(* A slot that holds nothing is spoilt: a boot loads what it did. *)
LEMMA TornLoadsTheSame ==
  ASSUME NEW pg \in [Slot -> Contents], NEW i \in Slot, pg[i] \in {Blank, Torn}
  PROVE  Loaded([pg EXCEPT ![i] = Torn]) = Loaded(pg)
<1> DEFINE q == [pg EXCEPT ![i] = Torn]
<1>1. q[i] = Torn /\ \A j \in Slot \ {i} : q[j] = pg[j]
  OBVIOUS
<1> HIDE DEF q
<1>2. Valid(q) = Valid(pg) /\ i \notin Valid(pg)
  BY <1>1 DEF Valid, Blank, Torn
<1>3. \A j \in Valid(pg) : q[j] = pg[j]
  BY <1>1, <1>2 DEF Valid
<1>4. (pg[1].holds # "legacy" /\ q[1].holds # "legacy") \/ q[1] = pg[1]
  BY <1>1, SlotOne DEF Blank, Torn
<1>5. Loaded(q) = Loaded(pg)
  BY <1>2, <1>3, <1>4, LoadsTheSame
<1> QED
  BY <1>5 DEF q

(* What a step that is cut short leaves. *)
LEMMA CutShortSafe ==
  ASSUME TypeOK, JournalInv, save # NoSave, NEW pg \in CutShort
  PROVE  /\ pg \in [Slot -> Contents] /\ Packed(pg)
         /\ save.next # "erase" => Loaded(pg) = Now
<1>1. /\ page \in [Slot -> Contents] /\ save.slot \in Slot
      /\ save.next \in {"erase", "body", "header", "verify"}
  BY DEF TypeOK, Saves
<1>2. CASE pg = page
  BY <1>1, <1>2 DEF JournalInv, Now
<1>3. CASE save.next = "erase" /\ pg \in {[i \in Slot |-> Blank], [i \in Slot |-> Torn]}
  BY <1>3, ContentsTypes DEF Packed
<1>4. CASE save.next \in {"body", "header"} /\ pg = [page EXCEPT ![save.slot] = Torn]
  <2>1. page[save.slot] \in {Blank, Torn}
    BY <1>4 DEF JournalInv, SavePlaced
  <2>2. pg[save.slot] = Torn /\ \A j \in Slot \ {save.slot} : pg[j] = page[j]
    BY <1>1, <1>4
  <2>3. Packed(pg)
    <3>1. \A j \in Slot : /\ j > save.slot => page[j] = Blank
                          /\ j < save.slot => page[j] # Blank
      BY <1>4 DEF JournalInv, SavePlaced
    <3> QED
      BY <1>1, <2>2, <3>1, ContentsTypes, SlotOne DEF Packed, JournalInv
  <2>4. pg \in [Slot -> Contents]
    BY <1>1, <1>4, ContentsTypes
  <2>5. Loaded(pg) = Loaded(page)
    BY <1>1, <1>4, <2>1, TornLoadsTheSame
  <2> QED
    BY <2>3, <2>4, <2>5 DEF Now
<1> QED
  BY <1>1, <1>2, <1>3, <1>4 DEF CutShort

(* What the header makes of its slot. *)
LEMMA HeaderSafe ==
  ASSUME TypeOK, JournalInv, save # NoSave, save.next = "header",
         NEW pg, pg = [page EXCEPT ![save.slot] = Record(save.prefs)]
  PROVE  pg \in [Slot -> Contents] /\ Packed(pg) /\ Loaded(pg) = save.prefs
<1>1. page \in [Slot -> Contents] /\ save.slot \in Slot /\ save.prefs \in Prefs
  BY DEF TypeOK, Saves
<1>2. pg[save.slot] = Record(save.prefs) /\ \A j \in Slot \ {save.slot} : pg[j] = page[j]
  BY <1>1
<1>3. \A j \in Slot : /\ j > save.slot => page[j] = Blank
                      /\ j < save.slot => page[j] # Blank
  BY DEF JournalInv, SavePlaced
<1>4. pg \in [Slot -> Contents]
  BY <1>1, ContentsTypes
<1>5. Packed(pg)
  BY <1>1, <1>2, <1>3, ContentsTypes, SlotOne DEF Packed, JournalInv
<1>6. Loaded(pg) = save.prefs
  <2>1. \A j \in Slot : j > save.slot => pg[j] = Blank
    BY <1>1, <1>2, <1>3, SlotOne
  <2> QED
    BY <1>1, <1>2, <2>1, LoadsTheLast
<1> QED
  BY <1>4, <1>5, <1>6

-----------------------------------------------------------------------------
(* The saves of the two personalities. *)

(* A session starts from what a boot loads, it alone saves and only in its    *)
(* engine's hands; each save keeps the other personality's field; and what a   *)
(* session reports is on the page, unless a compaction has the page erased.    *)
SessionInv ==
  /\ boot = "advertising" => prefs = Now
  /\ boot # "hid" => (save # NoSave <=> boot = "serving" /\ tx.phase = "working")
  /\ boot # "hid" /\ save # NoSave => save.prefs.profile = prefs.profile
  /\ boot # "hid" =>
       Now.profile = prefs.profile \/ wrecked \/ (save # NoSave /\ save.compacts)
  /\ boot = "hid" /\ save # NoSave => save.prefs.map = Now.map \/ save.compacts
  /\ boot # "hid" =>
       \/ stored = Now.map
       \/ wrecked
       \/ save # NoSave /\ (save.compacts \/ (save.next = "verify" /\ Verified))

Inv == TypeOK /\ JournalInv /\ SessionInv

LEMMA BootSafe ==
  ASSUME Inv, NEW personality \in {"hid", "advertising"}, Boot(personality)
  PROVE  Inv'
<1>1. /\ save' = NoSave /\ boot' = personality /\ prefs' = Loaded(page') /\ tx' = Idle
      /\ stored' = Loaded(page').map /\ candidate' = NoMap /\ queue' = <<>> /\ due' = {}
      /\ wrecked' = FALSE
  BY DEF Boot, Reset, Fresh
<1>2. page' \in [Slot -> Contents] /\ Packed(page')
  <2>1. CASE save = NoSave
    BY <2>1 DEF Boot, Reset, Inv, TypeOK, JournalInv
  <2>2. CASE save # NoSave
    <3>1. \/ page' \in CutShort
          \/ save.next = "header" /\ page' = [page EXCEPT ![save.slot] = Record(save.prefs)]
      BY <2>2 DEF Boot, Reset
    <3>2. page' \in CutShort => page' \in [Slot -> Contents] /\ Packed(page')
      BY <2>2, CutShortSafe DEF Inv
    <3>3. save.next = "header" /\ page' = [page EXCEPT ![save.slot] = Record(save.prefs)] =>
            page' \in [Slot -> Contents] /\ Packed(page')
      BY <2>2, HeaderSafe DEF Inv
    <3> QED
      BY <3>1, <3>2, <3>3
  <2> QED
    BY <2>1, <2>2
<1>3. prefs' \in Prefs /\ stored' \in Maps
  BY <1>1, <1>2, LoadsPrefs DEF Prefs
<1>4. TypeOK'
  <2>1. queue' \in Seq(Command) /\ Len(queue') = 0
    BY <1>1
  <2>2. Len(queue') <= QueueDepth
    BY <2>1, QueueAssumption
  <2>3. /\ save' \in Saves \cup {NoSave} /\ boot' \in {"hid", "advertising", "serving", "leaving"}
        /\ candidate' \in Maps \cup {NoMap} /\ due' \subseteq Deadline /\ wrecked' \in BOOLEAN
    BY <1>1
  <2> QED
    BY <1>1, <1>2, <1>3, <2>1, <2>2, <2>3 DEF TypeOK
<1>5. JournalInv'
  BY <1>1, <1>2 DEF JournalInv, SavePlaced
<1>6. SessionInv'
  BY <1>1 DEF SessionInv, Now, Idle
<1> QED
  BY <1>4, <1>5, <1>6 DEF Inv

LEMMA StartSafe ==
  ASSUME TypeOK, JournalInv, save = NoSave, NEW p \in Prefs, StartSave(p)
  PROVE  /\ save' \in Saves /\ save' # NoSave /\ page' = page /\ JournalInv'
         /\ save'.prefs = p /\ save'.next # "verify"
<1>1. page' = page /\ save' = SaveOf(p, page)
  BY DEF StartSave
<1>2. Full(page) \/ (FirstFree(page) \in Free(page) /\ \A j \in Free(page) : FirstFree(page) <= j)
  BY FirstFreeIsLowest DEF Full
<1>3. save' \in Saves /\ save' # NoSave
  <2>1. save'.slot \in Slot /\ save'.next \in {"erase", "body"} /\ save'.compacts \in BOOLEAN
    BY <1>1, <1>2, SlotOne DEF SaveOf, Free, Full
  <2>2. save' = [prefs |-> p, compacts |-> save'.compacts, slot |-> save'.slot, next |-> save'.next]
    BY <1>1 DEF SaveOf
  <2> QED
    BY <2>1, <2>2, NoSaveAssumption DEF Saves
<1>4. SavePlaced'
  <2>1. CASE Full(page)
    BY <1>1, <2>1 DEF SaveOf, SavePlaced
  <2>2. CASE ~Full(page)
    <3> DEFINE i == FirstFree(page)
    <3>1. i \in Slot /\ page[i] = Blank /\ \A j \in Slot : page[j] = Blank => i <= j
      BY <1>2, <2>2 DEF Free
    <3> HIDE DEF i
    <3>2. \A j \in Slot : /\ j > i => page[j] = Blank
                          /\ j < i => page[j] # Blank
      BY <3>1, SlotOne DEF JournalInv, Packed
    <3>3. save' = [prefs |-> p, compacts |-> FALSE, slot |-> i, next |-> "body"]
      <4>1. Full(page) = FALSE
        BY <2>2 DEF Full
      <4> QED
        BY <1>1, <4>1 DEF SaveOf, i
    <3> QED
      BY <1>1, <3>1, <3>2, <3>3 DEF SavePlaced
  <2> QED
    BY <2>1, <2>2
<1>5. save'.prefs = p /\ save'.next # "verify"
  BY <1>1 DEF SaveOf
<1> QED
  BY <1>1, <1>3, <1>4, <1>5 DEF JournalInv

(* An operation of a save that succeeds. *)
LEMMA FlashSafe ==
  ASSUME Inv, FlashWorks
  PROVE  Inv'
<1>0. /\ TypeOK /\ JournalInv /\ save \in Saves /\ save # NoSave
      /\ page \in [Slot -> Contents] /\ save.slot \in Slot
      /\ UNCHANGED <<boot, prefs, tx, stored, candidate, queue, due, wrecked>>
  BY DEF Inv, FlashWorks, Erase, WriteBody, WriteHeader, TypeOK, session, Saves
<1>1. /\ save' \in Saves /\ save' # NoSave /\ save'.prefs = save.prefs
      /\ save'.compacts = save.compacts /\ save'.slot = save.slot
  <2>1. \E step \in {"body", "header", "verify"} : save' = [save EXCEPT !.next = step]
    BY DEF FlashWorks, Erase, WriteBody, WriteHeader
  <2> QED
    BY <1>0, <2>1, NoSaveAssumption DEF Saves
<1>2. CASE Erase
  <2>1. /\ page' = [i \in Slot |-> Blank] /\ save'.next = "body" /\ save.next = "erase"
        /\ save.compacts /\ save.slot = 1
    BY <1>0, <1>2 DEF Erase, Saves, JournalInv, SavePlaced
  <2>2. page' \in [Slot -> Contents] /\ JournalInv'
    BY <1>0, <1>1, <2>1, ContentsTypes, SlotOne, PrefsAssumption
    DEF JournalInv, SavePlaced, Packed, Slot
  <2>3. SessionInv'
    BY <1>0, <1>1, <2>1 DEF Inv, SessionInv, Now
  <2> QED
    BY <1>0, <1>1, <2>2, <2>3 DEF Inv, TypeOK
<1>3. CASE WriteBody
  <2>1. /\ page' = [page EXCEPT ![save.slot] = Torn] /\ save.next = "body"
        /\ save'.next = "header" /\ page' \in CutShort
    BY <1>0, <1>3 DEF WriteBody, Saves, CutShort
  <2>2. page' \in [Slot -> Contents] /\ Packed(page') /\ Loaded(page') = Now
    BY <1>0, <2>1, CutShortSafe
  <2>3. JournalInv'
    <3>1. page'[save.slot] = Torn /\ \A j \in Slot \ {save.slot} : page'[j] = page[j]
      BY <1>0, <2>1
    <3> QED
      BY <1>0, <1>1, <2>1, <2>2, <3>1, SlotOne DEF JournalInv, SavePlaced
  <2>4. SessionInv'
    BY <1>0, <1>1, <2>1, <2>2 DEF Inv, SessionInv, Now
  <2> QED
    BY <1>0, <1>1, <2>2, <2>3, <2>4 DEF Inv, TypeOK
<1>4. CASE WriteHeader
  <2>1. /\ save.next = "header" /\ save'.next = "verify"
        /\ \/ page' = [page EXCEPT ![save.slot] = Record(save.prefs)]
           \/ page' = [page EXCEPT ![save.slot] = Torn]
    BY <1>0, <1>4 DEF WriteHeader, Saves
  <2>2. /\ page' \in [Slot -> Contents] /\ Packed(page')
        /\ \/ Loaded(page') = save.prefs /\ page'[save.slot] = Record(save.prefs)
           \/ Loaded(page') = Now /\ page'[save.slot] = Torn
    <3>1. CASE page' = [page EXCEPT ![save.slot] = Record(save.prefs)]
      BY <1>0, <2>1, <3>1, HeaderSafe
    <3>2. CASE page' = [page EXCEPT ![save.slot] = Torn]
      <4>1. page' \in CutShort
        BY <2>1, <3>2 DEF CutShort
      <4> QED
        BY <1>0, <2>1, <3>2, <4>1, CutShortSafe
    <3> QED
      BY <2>1, <3>1, <3>2
  <2>3. \A j \in Slot \ {save.slot} : page'[j] = page[j]
    BY <1>0, <2>1
  <2>4. JournalInv'
    BY <1>0, <1>1, <2>1, <2>2, <2>3, SlotOne DEF JournalInv, SavePlaced
  <2>5. SessionInv'
    BY <1>0, <1>1, <2>1, <2>2 DEF Inv, SessionInv, Now, Verified
  <2> QED
    BY <1>0, <1>1, <2>2, <2>4, <2>5 DEF Inv, TypeOK
<1> QED
  BY <1>2, <1>3, <1>4 DEF FlashWorks

LEMMA ProfileSafe ==
  ASSUME Inv, SaveProfile \/ ProfileSaved
  PROVE  Inv'
<1>1. CASE SaveProfile
  <2> DEFINE next == IF Now.profile = Xbox THEN Generic ELSE Xbox
             p == [Now EXCEPT !.profile = next]
  <2>1. Now \in Prefs
    BY LoadsPrefs DEF Inv, TypeOK, Now
  <2>2. p \in Prefs /\ p.map = Now.map
    BY <2>1 DEF Prefs, ProfileId
  <2>3. StartSave(p) /\ save = NoSave /\ boot = "hid"
        /\ UNCHANGED <<boot, prefs, tx, stored, candidate, queue, due, wrecked>>
    BY <1>1 DEF SaveProfile, session
  <2> HIDE DEF p
  <2>4. /\ save' \in Saves /\ save' # NoSave /\ page' = page /\ JournalInv'
        /\ save'.prefs = p
    BY <2>2, <2>3, StartSafe DEF Inv
  <2>5. TypeOK'
    BY <2>3, <2>4 DEF Inv, TypeOK
  <2>6. SessionInv'
    BY <2>2, <2>3, <2>4 DEF SessionInv, Now
  <2> QED
    BY <2>4, <2>5, <2>6 DEF Inv
<1>2. CASE ProfileSaved
  <2>1. /\ save # NoSave /\ save' = NoSave /\ boot' = "hid" /\ page' \in CutShort
        /\ Fresh(Loaded(page'))
    BY <1>2 DEF ProfileSaved, FlashFails, CutShort
  <2>2. Boot("hid")
    BY <2>1 DEF Boot, Reset
  <2> QED
    BY <2>2, BootSafe
<1> QED
  BY <1>1, <1>2

(* The engine takes a request, or its timer ends an armed transaction. *)
LEMMA EngineSafe ==
  ASSUME Inv, EngineTakes
  PROVE  Inv'
<1>0. /\ boot = "serving" /\ tx.phase # "working" /\ queue # <<>> /\ save = NoSave
      /\ queue' = Tail(queue) /\ UNCHANGED <<prefs, stored, wrecked>>
  BY DEF EngineTakes, Inv, SessionInv
<1>1. Head(queue) \in Command /\ queue' \in Seq(Command) /\ Len(queue') <= QueueDepth
  <2>1. queue \in Seq(Command) /\ Len(queue) <= QueueDepth /\ Len(queue) \in Nat
    BY DEF Inv, TypeOK
  <2>2. /\ Head(queue) \in Command /\ Tail(queue) \in Seq(Command)
        /\ Len(Tail(queue)) = Len(queue) - 1
    BY <1>0, <2>1, HeadTailProperties
  <2> QED
    BY <1>0, <2>1, <2>2, QueueAssumption
<1> DEFINE c == Head(queue)
<1>2. Begin(c) \/ Abort(c) \/ ResetDefaults(c) \/ Other(c) \/ Map(c)
  BY DEF EngineTakes
<1> HIDE DEF c
<1>3. /\ c.op \in {"begin", "abort", "reset"} => c.seq \in Seqs
      /\ c.op = "map" => c.map \in Maps \cup {NoMap}
  BY <1>1 DEF c, Command
<1>4. ASSUME UNCHANGED <<save, page>>, boot' \in {"serving", "leaving"},
             tx' \in {tx, Idle} \cup {Armed(s, o) : s \in Seqs, o \in Op},
             candidate' \in Maps \cup {NoMap}, due' \subseteq Deadline
      PROVE  Inv'
  <2>1. /\ tx' \in {Idle} \cup {Armed(s, o) : s \in Seqs, o \in Op}
                  \cup {Working(s, o) : s \in Seqs, o \in {"commit", "defaults"}}
        /\ tx'.phase # "working"
    BY <1>0, <1>4 DEF Inv, TypeOK, Idle, Armed
  <2>2. TypeOK'
    BY <1>0, <1>1, <1>4, <2>1 DEF Inv, TypeOK
  <2>3. JournalInv'
    BY <1>4 DEF Inv, JournalInv, SavePlaced
  <2>4. SessionInv'
    BY <1>0, <1>4, <2>1 DEF Inv, SessionInv, Now
  <2> QED
    BY <2>2, <2>3, <2>4 DEF Inv
<1>5. ASSUME NEW p \in Prefs, p.profile = prefs.profile, StartSave(p), boot' = boot,
             NEW s \in Seqs, NEW o \in {"commit", "defaults"}, tx' = Working(s, o),
             candidate' = candidate, due' \subseteq Deadline
      PROVE  Inv'
  <2>1. /\ save' \in Saves /\ save' # NoSave /\ page' = page /\ JournalInv'
        /\ save'.prefs = p
    BY <1>0, <1>5, StartSafe DEF Inv
  <2>2. TypeOK'
    BY <1>0, <1>1, <1>5, <2>1 DEF Inv, TypeOK
  <2>3. tx'.phase = "working"
    BY <1>5 DEF Working
  <2>4. SessionInv'
    BY <1>0, <1>5, <2>1, <2>3 DEF Inv, SessionInv, Now
  <2> QED
    BY <2>1, <2>2, <2>4 DEF Inv
<1>6. due \subseteq Deadline /\ candidate \in Maps \cup {NoMap} /\ prefs \in Prefs
  BY DEF Inv, TypeOK
<1>7. CASE Begin(c) \/ Abort(c) \/ Other(c)
  BY <1>0, <1>3, <1>4, <1>6, <1>7 DEF Begin, Abort, Other
<1>8. CASE ResetDefaults(c)
  <2>1. CASE tx = Idle
    BY <1>3, <1>5, <1>6, <1>8, <2>1, PrefsAssumption DEF ResetDefaults, Prefs
  <2>2. CASE tx # Idle
    BY <1>0, <1>4, <1>6, <1>8, <2>2 DEF ResetDefaults
  <2> QED
    BY <2>1, <2>2
<1>9. CASE Map(c)
  <2>1. CASE tx # Idle /\ c.map # NoMap /\ tx.op # "preview"
    <3>1. tx.seq \in Seqs
      BY <1>0, <2>1 DEF Inv, TypeOK, Armed, Working
    <3>2. c.map \in Maps
      BY <1>3, <1>9, <2>1 DEF Map
    <3>3. /\ tx' = Working(tx.seq, "commit") /\ UNCHANGED <<boot, candidate>>
          /\ StartSave([profile |-> prefs.profile, map |-> c.map])
          /\ due' \subseteq Deadline
      BY <1>6, <1>9, <2>1 DEF Map
    <3> QED
      BY <1>5, <1>6, <3>1, <3>2, <3>3 DEF Prefs
  <2>2. CASE ~(tx # Idle /\ c.map # NoMap /\ tx.op # "preview")
    <3>1. /\ tx' \in {tx, Idle} /\ candidate' \in {candidate, c.map} /\ UNCHANGED <<save, page, boot>>
          /\ due' \subseteq Deadline /\ c.op = "map"
      BY <1>6, <1>9, <2>2 DEF Map
    <3> QED
      BY <1>0, <1>3, <1>4, <1>6, <3>1
  <2> QED
    BY <2>1, <2>2
<1> QED
  BY <1>2, <1>7, <1>8, <1>9

(* A save that ends, read back or failed. *)
LEMMA SettleSafe ==
  ASSUME Inv, CommitSettles
  PROVE  Inv'
<1>0. /\ boot = "serving" /\ save # NoSave /\ save \in Saves /\ TypeOK /\ JournalInv
      /\ save' = NoSave /\ tx' = Idle /\ UNCHANGED <<boot, prefs, queue, due>>
  <2>1. TypeOK /\ JournalInv /\ SessionInv /\ save \in Saves \cup {NoSave}
    BY DEF Inv, TypeOK
  <2>2. /\ boot = "serving" /\ tx.phase = "working" /\ save' = NoSave /\ tx' = Idle
        /\ UNCHANGED <<boot, prefs, queue, due>>
    BY DEF CommitSettles, FinishWork
  <2>3. save # NoSave
    BY <2>1, <2>2 DEF SessionInv
  <2> QED
    BY <2>1, <2>2, <2>3
<1>1. \/ /\ save.next = "verify" /\ Verified /\ page' = page
         /\ stored' = save.prefs.map /\ candidate' = NoMap /\ wrecked' = FALSE
      \/ /\ save.next = "verify" => ~Verified
         /\ page' \in CutShort /\ stored' = stored /\ candidate' = candidate
         /\ wrecked' = (wrecked \/ save.compacts)
  BY DEF CommitSettles, FinishWork, FlashFails, CutShort
<1>2. page' \in CutShort
  BY <1>1 DEF CutShort
<1>3. /\ page' \in [Slot -> Contents] /\ Packed(page')
      /\ save.next # "erase" => Loaded(page') = Now
  BY <1>0, <1>2, CutShortSafe
<1>4. save.next = "verify" /\ Verified => Now = save.prefs
  <2> SUFFICES ASSUME save.next = "verify", Verified
               PROVE  Now = save.prefs
    OBVIOUS
  <2>1. /\ save.slot \in Slot /\ page[save.slot] = Record(save.prefs)
        /\ \A j \in Slot : j > save.slot => page[j] = Blank
    BY <1>0 DEF Verified, Saves, JournalInv, SavePlaced
  <2> QED
    BY <2>1, LoadsTheLast DEF Now
<1>5. TypeOK'
  <2>1. wrecked' \in BOOLEAN
    BY <1>0, <1>1 DEF TypeOK, Saves
  <2>2. stored' \in Maps /\ candidate' \in Maps \cup {NoMap}
    BY <1>0, <1>1 DEF TypeOK, Saves, Prefs
  <2> QED
    BY <1>0, <1>3, <2>1, <2>2 DEF TypeOK
<1>6. JournalInv'
  BY <1>0, <1>3 DEF JournalInv, SavePlaced
<1>7. SessionInv'
  <2>1. tx'.phase # "working"
    BY <1>0 DEF Idle
  <2>2. save.next = "erase" => save.compacts
    BY <1>0 DEF JournalInv, SavePlaced
  <2>3. Now.profile = prefs.profile \/ wrecked \/ save.compacts
    BY <1>0 DEF Inv, SessionInv
  <2>4. stored = Now.map \/ wrecked \/ save.compacts \/ (save.next = "verify" /\ Verified)
    BY <1>0 DEF Inv, SessionInv
  <2>5. save.prefs.profile = prefs.profile
    BY <1>0 DEF Inv, SessionInv
  <2>6. Now'.profile = prefs'.profile \/ wrecked'
    BY <1>0, <1>1, <1>3, <1>4, <2>2, <2>3, <2>5 DEF Now
  <2>7. stored' = Now'.map \/ wrecked'
    BY <1>0, <1>1, <1>3, <1>4, <2>2, <2>4 DEF Now
  <2> QED
    BY <1>0, <2>1, <2>6, <2>7 DEF SessionInv
<1> QED
  BY <1>5, <1>6, <1>7 DEF Inv

LEMMA InvInit == Init => Inv
<1> SUFFICES ASSUME Init
             PROVE  Inv
  OBVIOUS
<1>1. page \in [Slot -> Contents]
  BY SlotOne, ContentsTypes DEF Init, Contents
<1>2. prefs \in Prefs /\ stored \in Maps
  BY <1>1, LoadsPrefs DEF Init, Prefs
<1>3. TypeOK
  <2>1. queue \in Seq(Command) /\ Len(queue) <= QueueDepth
    BY QueueAssumption DEF Init
  <2>2. /\ save \in Saves \cup {NoSave} /\ boot \in {"hid", "advertising", "serving", "leaving"}
        /\ candidate \in Maps \cup {NoMap} /\ due \subseteq Deadline /\ tx = Idle
    BY DEF Init
  <2>3. wrecked \in BOOLEAN
    BY DEF Init
  <2> QED
    BY <1>1, <1>2, <2>1, <2>2, <2>3 DEF TypeOK
<1>4. Packed(page)
  BY SlotOne, PrefsAssumption DEF Init, Packed, Slot
<1> QED
  BY <1>3, <1>4 DEF Init, Inv, JournalInv, SavePlaced, SessionInv

LEMMA InvNext == Inv /\ [Next]_vars => Inv'
<1> SUFFICES ASSUME Inv, [Next]_vars
             PROVE  Inv'
  OBVIOUS
<1>1. CASE \/ PowerLoss \/ ConfigGesture \/ AdvertisingLapses \/ Disconnect \/ Left
  BY <1>1, BootSafe DEF PowerLoss, ConfigGesture, AdvertisingLapses, Disconnect, Left
<1>2. CASE SaveProfile \/ ProfileSaved
  BY <1>2, ProfileSafe
<1>3. CASE FlashWorks
  BY <1>3, FlashSafe
<1>4. CASE EngineTakes
  BY <1>4, EngineSafe
<1>5. CASE CommitSettles
  BY <1>5, SettleSafe
<1>6. CASE Connect
  <2>1. /\ boot = "advertising" /\ boot' = "serving" /\ prefs' = prefs /\ tx' = Idle
        /\ stored' = prefs.map /\ candidate' = NoMap /\ queue' = <<>> /\ due' = {}
        /\ wrecked' = FALSE /\ page' = page /\ save' = save
    BY <1>6 DEF Connect, Fresh
  <2>2. prefs = Now /\ save = NoSave
    BY <2>1 DEF Inv, SessionInv
  <2>3. TypeOK'
    <3>1. queue' \in Seq(Command) /\ Len(queue') <= QueueDepth
      BY <2>1, QueueAssumption
    <3>2. prefs.map \in Maps /\ page \in [Slot -> Contents] /\ prefs \in Prefs
      BY DEF Inv, TypeOK, Prefs
    <3>3. /\ save' \in Saves \cup {NoSave} /\ boot' \in {"hid", "advertising", "serving", "leaving"}
          /\ candidate' \in Maps \cup {NoMap} /\ due' \subseteq Deadline
      BY <2>1, <2>2
    <3>4. wrecked' \in BOOLEAN
      BY <2>1
    <3>5. page' \in [Slot -> Contents] /\ prefs' \in Prefs /\ stored' \in Maps
      BY <2>1, <3>2
    <3> QED
      BY <2>1, <3>1, <3>3, <3>4, <3>5 DEF TypeOK
  <2>4. SessionInv'
    BY <2>1, <2>2 DEF SessionInv, Now, Idle
  <2> QED
    BY <2>1, <2>3, <2>4 DEF Inv, JournalInv, SavePlaced
<1>7. CASE \/ (\E c \in Command : ClientWrites(c)) \/ (\E d \in Deadline : DeadlinePasses(d))
           \/ UNCHANGED vars
  <2>1. /\ UNCHANGED <<page, save, boot, prefs, tx, stored, candidate, wrecked>>
        /\ due' \subseteq Deadline
    BY <1>7 DEF ClientWrites, DeadlinePasses, vars, session, Inv, TypeOK
  <2>2. queue' \in Seq(Command) /\ Len(queue') <= QueueDepth
    <3>1. CASE \E c \in Command : ClientWrites(c)
      <4>1. PICK c \in Command : ClientWrites(c)
        BY <3>1
      <4>2. queue \in Seq(Command) /\ Len(queue) < QueueDepth /\ queue' = Append(queue, c)
        BY <4>1 DEF ClientWrites, Inv, TypeOK
      <4> QED
        BY <4>2, AppendProperties, QueueAssumption
    <3>2. CASE queue' = queue
      BY <3>2 DEF Inv, TypeOK
    <3> QED
      BY <1>7, <3>1, <3>2 DEF DeadlinePasses, vars, session
  <2> QED
    BY <2>1, <2>2 DEF Inv, TypeOK, JournalInv, SavePlaced, SessionInv, Now, Verified
<1>8. CASE TimerFires
  <2>1. CASE Boot("hid")
    BY <2>1, BootSafe
  <2>2. CASE /\ boot = "serving" /\ tx.phase # "working" /\ tx' = Idle /\ due' = due \ {"arm"}
             /\ UNCHANGED <<page, save, boot, prefs, stored, candidate, queue, wrecked>>
    <3>1. tx'.phase # "working"
      BY <2>2 DEF Idle
    <3> QED
      BY <2>2, <3>1 DEF Inv, TypeOK, JournalInv, SavePlaced, SessionInv, Now, Verified
  <2> QED
    BY <1>8, <2>1, <2>2 DEF TimerFires
<1> QED
  BY <1>1, <1>2, <1>3, <1>4, <1>5, <1>6, <1>7, <1>8 DEF Next

-----------------------------------------------------------------------------
(* The theorems. *)

\* What a session reports as stored is what a boot loads, but for the time a
\* compaction keeps the page erased, or failed over it (prefs_journal.rs:11-13).
THEOREM ReportedIsLoaded == Spec => []StoredIsLoaded
<1>1. Inv => StoredIsLoaded
  <2> SUFFICES ASSUME Inv, save # NoSave, ~save.compacts, save.next = "verify", Verified
               PROVE  Now = save.prefs
    BY DEF Inv, SessionInv, StoredIsLoaded
  <2>1. /\ save.slot \in Slot /\ page[save.slot] = Record(save.prefs)
        /\ \A j \in Slot : j > save.slot => page[j] = Blank
    BY DEF Inv, TypeOK, Saves, Verified, JournalInv, SavePlaced
  <2> QED
    BY <2>1, LoadsTheLast DEF Now
<1> QED
  BY <1>1, InvInit, InvNext, PTL DEF Spec

(* What the page is left as by any step of the system. *)
LEMMA PageSteps ==
  ASSUME Inv, [Next]_vars
  PROVE  \/ Loaded(page') = Now
         \/ /\ save # NoSave
            /\ (save.next = "header" /\ Loaded(page') = save.prefs) \/ save.next = "erase"
<1>1. CASE save # NoSave /\ page' \in CutShort
  BY <1>1, CutShortSafe DEF Inv
<1>2. CASE /\ save # NoSave /\ save.next = "header"
           /\ page' = [page EXCEPT ![save.slot] = Record(save.prefs)]
  BY <1>2, HeaderSafe DEF Inv
<1>3. CASE page' = page
  BY <1>3 DEF Now
<1>4. CASE \E personality \in {"hid", "advertising"} : Boot(personality)
  BY <1>1, <1>2, <1>3, <1>4 DEF Boot, Reset
<1>5. CASE \/ PowerLoss \/ ConfigGesture \/ AdvertisingLapses \/ Disconnect \/ Left \/ TimerFires
  BY <1>3, <1>4, <1>5 DEF PowerLoss, ConfigGesture, AdvertisingLapses, Disconnect, Left, TimerFires
<1>6. CASE FlashWorks
  BY <1>1, <1>2, <1>6 DEF FlashWorks, Erase, WriteBody, WriteHeader, CutShort
<1>7. CASE ProfileSaved \/ CommitSettles
  BY <1>1, <1>3, <1>7 DEF ProfileSaved, CommitSettles, FlashFails
<1>8. CASE SaveProfile \/ EngineTakes
  BY <1>3, <1>8 DEF SaveProfile, EngineTakes, StartSave, Begin, Abort, ResetDefaults, Other, Map
<1>9. CASE \/ Connect \/ (\E c \in Command : ClientWrites(c))
           \/ (\E d \in Deadline : DeadlinePasses(d)) \/ UNCHANGED vars
  BY <1>3, <1>9 DEF Connect, ClientWrites, DeadlinePasses, vars
<1> QED
  BY <1>4, <1>5, <1>6, <1>7, <1>8, <1>9 DEF Next

\* Wherever power fails or the chip is reset, and whichever operation fails,
\* the next boot loads what the last one would have or the record being saved;
\* only the erase of a full page takes it (prefs.rs:107).
THEOREM JournalIsKept == Spec => JournalKeeps
<1>1. Inv /\ [Next]_vars =>
        [\/ Loaded(page') = Now
         \/ save # NoSave /\ (Loaded(page') = save.prefs \/ save.next = "erase")]_vars
  BY PageSteps
<1> QED
  BY <1>1, InvInit, InvNext, PTL DEF Spec, JournalKeeps

\* A profile switch keeps the map and a configuration session the profile,
\* whatever of the other's saves came before (prefs.rs:147).
THEOREM FieldsAreKept == Spec => EachItsOwn
<1>1. Inv /\ [Next]_vars =>
        [wrecked \/ (save # NoSave /\ save.compacts) \/
         IF boot = "hid" THEN Loaded(page').map = Now.map
                         ELSE Loaded(page').profile = Now.profile]_vars
  <2> SUFFICES ASSUME Inv, [Next]_vars, ~wrecked, save # NoSave => ~save.compacts
               PROVE  IF boot = "hid" THEN Loaded(page').map = Now.map
                                      ELSE Loaded(page').profile = Now.profile
    OBVIOUS
  <2>1. save # NoSave => save.next # "erase"
    BY DEF Inv, JournalInv, SavePlaced
  <2>2. CASE Loaded(page') = Now
    BY <2>2
  <2>3. CASE save # NoSave /\ Loaded(page') = save.prefs
    BY <2>3 DEF Inv, SessionInv
  <2> QED
    BY <2>1, <2>2, <2>3, PageSteps
<1> QED
  BY <1>1, InvInit, InvNext, PTL DEF Spec, EachItsOwn
=============================================================================
