------------------------------ MODULE WriteSeq ------------------------------
(***************************************************************************)
(* One block's write onto the card (maple-protocol/src/write_seq.rs): what *)
(* goes out next, what each reply does to the sequence, and the swap guard *)
(* around it.  The Rust type is a value with methods and no clock, so here *)
(* it is a record and operators from record to record; SwapGuard puts it   *)
(* on a bus with a card that can be pulled.                                *)
(*                                                                         *)
(* Abstraction: a hash is the thing hashed.  The fingerprint is the pair   *)
(* of root and FAT contents, a block's phase hashes are its phases.        *)
(***************************************************************************)
EXTENDS Integers

CONSTANTS
  Block, Root, Fat,   \* block numbers; ROOT_BLOCK and FAT_BLOCK
  Phases,             \* PHASES
  Payload,            \* contents of one phase
  WriteTries,         \* WRITE_TRIES: whole sequences a block gets
  GuardTries,         \* GUARD_TRIES: looks the guard gets at the card
  None

Phase   == 0..(Phases - 1)
Content == [Phase -> Payload]

ASSUME WriteSeqAssumption ==
  /\ Root \in Block /\ Fat \in Block /\ Root # Fat
  /\ Phases \in Nat \ {0} /\ WriteTries \in Nat \ {0}
  /\ GuardTries \in Nat \ {0}
  /\ None \notin Content /\ None \notin Block /\ None \notin Content \X Content

(* The block in hand before and after, with the half of the fingerprint it
   leaves alone. *)
Landing  == [other : Content, before : Content, after : Content]
Expected == [now : Content \X Content, landing : Landing \cup {None}]

Verdict == {"Written", "Failed", "Unidentified"}
Reading == {"ReadRoot", "ReadFat", "Verify"}
Sending == {"Enumerate", "Phase", "Commit", "Recover"}
Reply   == {"Ack", "Silent", "Error"}

(* `Step::Send(Tx::Phase(n))` is step "Phase" with phase n; phase is 0 in
   every other step. *)
WriteSeq ==
  [block : Block, step : Sending \cup Reading \cup Verdict, phase : Phase,
   tries : 1..WriteTries, read_asked : BOOLEAN, expected : Expected,
   touched : BOOLEAN, seed : Content \cup {None},
   guard_tries : 1..GuardTries, after : {"Start", "Silence"},
   guard_passed : BOOLEAN]

New(b, exp, verified) ==
  [block |-> b, step |-> IF verified THEN "Phase" ELSE "Enumerate",
   phase |-> 0, tries |-> 1, read_asked |-> FALSE, expected |-> exp,
   touched |-> FALSE, seed |-> None, guard_tries |-> 1, after |-> "Start",
   guard_passed |-> FALSE]

-----------------------------------------------------------------------------
(* read_asked is cleared on the way into every step; only the reading ones,
   which clear it in the code, ever look. *)
Enter(s, step) ==
  [s EXCEPT !.step = step, !.phase = 0, !.read_asked = FALSE]

EnterGuard(s) ==
  [Enter(s, "Enumerate") EXCEPT !.after = "Silence", !.guard_tries = 1]

SpendGuardTry(s) ==
  IF s.guard_tries >= GuardTries
  THEN Enter(s, "Unidentified")
  ELSE [Enter(s, "Enumerate") EXCEPT !.guard_tries = @ + 1]

(* Mutant: a try is begun but not counted. *)
SpendTryUncounted(s) == Enter(s, "Recover")

SpendTry(s) ==
  IF s.tries >= WriteTries
  THEN Enter(s, "Failed")
  ELSE [Enter(s, "Recover") EXCEPT !.tries = @ + 1]

(* A phase's reply.  However it came back, the bytes may be on the card. *)
AfterPhase(s, reply) ==
  LET t == [s EXCEPT !.touched = TRUE]
  IN  CASE reply = "Ack" /\ s.phase + 1 < Phases ->
             [t EXCEPT !.phase = s.phase + 1]
        [] reply = "Ack" /\ s.phase + 1 = Phases -> Enter(t, "Commit")
        [] reply = "Silent" -> EnterGuard(t)
        [] reply = "Error" -> SpendTry(t)

(* Mutant: a commit the card acknowledged needs no reading back. *)
CommitTrusted(s, reply) ==
  CASE reply = "Ack" -> Enter(s, "Written")
    [] reply = "Silent" -> Enter(s, "Verify")
    [] reply = "Error" -> SpendTry(s)

(* "A lost ACK to the commit is not a lost block: the read-back decides." *)
AfterCommit(s, reply) ==
  IF reply = "Error" THEN SpendTry(s) ELSE Enter(s, "Verify")

NoteReply(s, reply) ==
  CASE s.step = "Enumerate" /\ reply = "Ack" -> Enter(s, "ReadRoot")
    [] s.step = "Enumerate" /\ reply # "Ack" -> SpendGuardTry(s)
    [] s.step = "Phase" -> AfterPhase(s, reply)
    [] s.step = "Commit" -> AfterCommit(s, reply)
    [] s.step = "Recover" -> Enter(s, "Phase")

(* The block a reading step waits for. *)
ReadBlock(s) == CASE s.step = "ReadRoot" -> Root
                  [] s.step = "ReadFat" -> Fat
                  [] s.step = "Verify" -> s.block

(* Phase for phase what the card held or what is being written. *)
Admits(landing, shown) ==
  \A i \in Phase : shown[i] \in {landing.before[i], landing.after[i]}

(* The other half of the fingerprint unchanged, the block in hand partly or
   wholly on the card: this card, mid-write. *)
MidWrite(s, shown) ==
  /\ s.expected.landing # None
  /\ s.touched
  /\ \/ /\ s.block = Fat
        /\ s.expected.landing.other = s.seed
        /\ Admits(s.expected.landing, shown)
     \/ /\ s.block = Root
        /\ s.expected.landing.other = shown
        /\ Admits(s.expected.landing, s.seed)

(* Mutant: the guard knows the card only as it was before the block. *)
IdentifiedStrictly(s, shown) == <<s.seed, shown>> = s.expected.now

Identified(s, shown) ==
  <<s.seed, shown>> = s.expected.now \/ MidWrite(s, shown)

Passed(s) ==
  LET t == [s EXCEPT !.guard_passed = TRUE]
  IN  IF s.after = "Start" THEN Enter(t, "Phase") ELSE SpendTry(t)

(* What the read path brought, or None where it gave up. *)
NoteRead(s, data, shown) ==
  CASE s.step \in {"ReadRoot", "ReadFat"} /\ shown = None -> SpendGuardTry(s)
    [] s.step = "ReadRoot" /\ shown # None ->
         Enter([s EXCEPT !.seed = shown], "ReadFat")
    [] s.step = "ReadFat" /\ shown # None ->
         IF Identified(s, shown) THEN Passed(s) ELSE Enter(s, "Unidentified")
    [] s.step = "Verify" /\ shown = None -> EnterGuard(s)
    [] s.step = "Verify" /\ shown = data -> Enter(s, "Written")
    [] s.step = "Verify" /\ shown \notin {None, data} -> SpendTry(s)
=============================================================================
