------------------------------ MODULE SwapGuard ------------------------------
(***************************************************************************)
(* The drain of acknowledged saves onto a card that people pull out.       *)
(* Composes the write sequence (WriteSeq), the glue of maple/block_write.rs *)
(* and the poll loop's part of it (src/main.rs), what the service knows of *)
(* the card (the card half of HostIo), and, external to the code, the port: *)
(* a card that is docked, deaf until asked for device info, and written    *)
(* phase by phase with replies that get lost.                              *)
(*                                                                         *)
(* Presence needs four missed probes, so a swap is not seen as an undock:  *)
(* the guard's fingerprint check and the newcomer's deafness are all that  *)
(* stands between one card's saves and the next card.  The code accepts    *)
(* that a clone passes for the original, so here every payload was made on *)
(* one card (Maker) and no card holds another's.                           *)
(*                                                                         *)
(* Abstractions.  The read path is the sequence of captures it holds, in   *)
(* the order it will deliver them: a request is merged into its capture,   *)
(* the retries of a capture into its last one.  Sessions, seq bytes and    *)
(* WRITTENs are HostIo's and left out.                                     *)
(***************************************************************************)
EXTENDS WriteSeq, Sequences

CONSTANTS
  Card,
  Maker,        \* the card each payload was made on
  Factory,      \* what each card holds at first
  QueueDepth,   \* bound on the saves waiting
  PipeDepth     \* captures the read path holds: one decoding, one latched

(* A staged save, with the root and FAT its card had been shown with. *)
Save == [block : Block, data : Content, root : Content, fat : Content]

ASSUME SwapGuardAssumption ==
  /\ None \notin Card
  /\ Maker \in [Payload -> Card]
  /\ Factory \in [Card -> [Block -> Content]]
  /\ \A c \in Card, b \in Block, i \in Phase : Maker[Factory[c][b][i]] = c
  /\ QueueDepth \in Nat /\ PipeDepth \in Nat
  /\ None \notin Save \cup WriteSeq \cup Landing

VARIABLES
  docked,       \* the card in the port, or None
  armed,        \* it has been sent a device-info request since it came
  media,        \* what each card holds
  present,      \* the service's vmu_present
  root, fat,    \* what the service knows of the docked card, or None
  verified,     \* the guard has vouched for it
  staged,       \* saves acknowledged and waiting
  hand,         \* the save in the writer's hands, or None
  seq,          \* its WriteSeq, or None
  pipe,         \* captures on their way to their owners
  turn          \* where the poll loop is in its pass

portVars == <<docked, armed, media>>
cardVars == <<present, root, fat, verified>>
workVars == <<staged, hand, seq>>
vars == <<portVars, cardVars, workVars, pipe, turn>>

(* A pass of the loop: the window head delivers at most one block, and every
   failure there is, takes the verdict, hands out the next block; then the
   window itself, which is one transaction, and in which alone the loop awaits.
   "Rearm" is the wait for a quiet window to enumerate the port in. *)
Turn == {"Deliver", "Verdict", "Begin", "Window", "Rearm"}

Known == root # None /\ fat # None

(* The one card a content's phases were made on. *)
MadeOn(c, d) == \A i \in Phase : Maker[d[i]] = c

Capture == [owner : {"Host", "Writer"}, block : Block,
            shown : Content \cup {None}]

Draining == staged # <<>> \/ seq # None

Init ==
  /\ docked = None /\ armed = FALSE /\ media = Factory
  /\ present = FALSE /\ root = None /\ fat = None /\ verified = FALSE
  /\ staged = <<>> /\ hand = None /\ seq = None
  /\ pipe = <<>> /\ turn = "Deliver"

-----------------------------------------------------------------------------
(* The port. *)

(* A card is pulled, docked or exchanged: whatever is there now is deaf. *)
Swap(c) ==
  /\ turn \in {"Window", "Rearm"}
  /\ docked' = c /\ armed' = FALSE
  /\ UNCHANGED <<media, cardVars, workVars, pipe, turn>>

Answers == docked # None /\ armed

(* What a device-info request leaves behind; it may be lost on the way. *)
AskedForInfo == armed' \in {armed, docked # None}

-----------------------------------------------------------------------------
(* The dongle. *)

(* A WRITE is staged and acknowledged, for the card the service has shown.
   The save remembers, for the properties, which one that was. *)
Stage(b, d) ==
  /\ turn \in {"Window", "Rearm"}
  /\ present /\ Known /\ Len(staged) < QueueDepth
  /\ \E c \in Card : MadeOn(c, root) /\ MadeOn(c, fat) /\ MadeOn(c, d)
  /\ staged' = Append(staged, [block |-> b, data |-> d,
                               root |-> root, fat |-> fat])
  /\ UNCHANGED <<portVars, cardVars, hand, seq, pipe, turn>>

-----------------------------------------------------------------------------
(* The poll loop. *)

(* Mutant: the writer is not told that its block is no longer its own. *)
KeptInHand == UNCHANGED <<hand, seq>>

Abandoned == hand' = None /\ seq' = None

(* end_generation, the discard of what was staged, and what the loop does
   with it: the reader is cleared and the writer's block abandoned. *)
EndGeneration ==
  /\ root' = None /\ fat' = None /\ verified' = FALSE
  /\ staged' = <<>> /\ pipe' = <<>>
  /\ Abandoned

(* The window goes by with nothing in it. *)
Window == turn = "Window" /\ turn' = "Deliver"

Pass == Window /\ UNCHANGED <<portVars, cardVars, workVars, pipe>>

(* Enough probes in a row went unanswered, or the controller is lost, or the
   port is no longer watched. *)
PresenceLost ==
  /\ Window
  /\ present /\ present' = FALSE
  /\ EndGeneration
  /\ UNCHANGED portVars

(* A probe finds the slot taken: the card is enumerated at once. *)
PresenceFound ==
  /\ Window
  /\ docked # None
  /\ ~present /\ present' = TRUE
  /\ AskedForInfo
  /\ EndGeneration
  /\ UNCHANGED <<docked, media>>

(* Every third probe re-enumerates the card, unless saves are draining... *)
RearmDue ==
  /\ turn = "Window" /\ turn' = "Rearm"
  /\ present /\ ~Draining
  /\ UNCHANGED <<portVars, cardVars, workVars, pipe>>

(* ...in a window it has to wait for, by when a save may have been staged. *)
Rearm ==
  /\ turn = "Rearm" /\ turn' = "Deliver"
  /\ AskedForInfo
  /\ verified' = FALSE
  /\ UNCHANGED <<docked, media, present, root, fat, workVars, pipe>>

(* expected(): the fingerprint, and the block in hand where it is half of it. *)
ExpectedFor(save) ==
  [now |-> <<root, fat>>,
   landing |->
     CASE save.block = Fat  -> [other |-> root, before |-> fat,
                                after |-> save.data]
       [] save.block = Root -> [other |-> fat, before |-> root,
                                after |-> save.data]
       [] OTHER -> None]

(* take_write and begin. *)
Begin ==
  /\ turn = "Begin" /\ turn' = "Window"
  /\ \/ /\ present /\ seq = None /\ staged # <<>>
        /\ hand' = Head(staged)
        /\ staged' = Tail(staged)
        /\ seq' = New(Head(staged).block, ExpectedFor(Head(staged)), verified)
     \/ /\ ~(present /\ seq = None /\ staged # <<>>)
        /\ UNCHANGED workVars
  /\ UNCHANGED <<portVars, cardVars, pipe>>

Lands(b, i, p) == media' = [media EXCEPT ![docked][b][i] = p]

(* One transaction of the writer and the reply it sees.  A card that does not
   answer is silent; of one that does the answer may be lost, and an
   acknowledged phase is no proof of bytes stored. *)
WriteWindow ==
  /\ Window
  /\ seq # None
  /\ \/ /\ seq.step \in {"Phase", "Commit", "Recover"} /\ ~Answers
        /\ seq' = NoteReply(seq, "Silent")
        /\ UNCHANGED portVars
     \/ /\ seq.step = "Phase" /\ Answers
        /\ \E reply \in Reply :
             /\ \/ Lands(hand.block, seq.phase, hand.data[seq.phase])
                \/ UNCHANGED media
             /\ seq' = NoteReply(seq, reply)
        /\ UNCHANGED <<docked, armed>>
     \/ /\ seq.step \in {"Commit", "Recover"} /\ Answers
        /\ \E reply \in Reply : seq' = NoteReply(seq, reply)
        /\ UNCHANGED portVars
     \/ /\ seq.step = "Enumerate"
        /\ \/ docked # None /\ armed' = TRUE /\ seq' = NoteReply(seq, "Ack")
           \/ /\ AskedForInfo
              /\ \E reply \in {"Silent", "Error"} : seq' = NoteReply(seq, reply)
        /\ UNCHANGED <<docked, media>>
  /\ UNCHANGED <<cardVars, staged, hand, pipe>>

(* The read path has captured a block, or has spent its tries on it. *)
Captured(owner, b) ==
  /\ Len(pipe) < PipeDepth
  /\ \/ /\ Answers
        /\ pipe' = Append(pipe, [owner |-> owner, block |-> b,
                                 shown |-> media[docked][b]])
     \/ pipe' = Append(pipe, [owner |-> owner, block |-> b, shown |-> None])

CaptureForWriter ==
  /\ Window
  /\ seq # None /\ seq.step \in Reading /\ ~seq.read_asked
  /\ Captured("Writer", ReadBlock(seq))
  /\ seq' = [seq EXCEPT !.read_asked = TRUE]
  /\ UNCHANGED <<portVars, cardVars, staged, hand>>

(* The dongle's pull of the card, and any later READ of root or FAT.  "The
   writer goes first when both want the slot"; its reads go first too, but a
   host's retry is put before them. *)
CaptureForHost(b) ==
  /\ Window
  /\ present /\ (seq # None => seq.step \in Reading)
  /\ Captured("Host", b)
  /\ UNCHANGED <<portVars, cardVars, workVars>>

(* Input resumed or the link dropped: the host's requests are cleared, and the
   writer's read stays, if one is on its way.  There is never another. *)
ClearHost ==
  /\ turn = "Window"
  /\ pipe # <<>>
  /\ \/ \E k \in DOMAIN pipe : pipe[k].owner = "Writer" /\ pipe' = <<pipe[k]>>
     \/ (\A k \in DOMAIN pipe : pipe[k].owner = "Host") /\ pipe' = <<>>
  /\ UNCHANGED <<portVars, cardVars, workVars, turn>>

(* publish_block: a half of the fingerprint, taken as the pull passes. *)
Published ==
  /\ Head(pipe).owner = "Host"
  /\ IF Head(pipe).shown = None THEN UNCHANGED <<root, fat>>
     ELSE /\ root' = IF Head(pipe).block = Root THEN Head(pipe).shown ELSE root
          /\ fat' = IF Head(pipe).block = Fat THEN Head(pipe).shown ELSE fat
  /\ UNCHANGED <<verified, seq>>

(* note_read_back, and the guard's pass taken at the same window head. *)
ReadBack ==
  /\ Head(pipe).owner = "Writer"
  /\ LET s == NoteRead(seq, hand.data, Head(pipe).shown)
     IN  /\ verified' = (verified \/ s.guard_passed)
         /\ seq' = [s EXCEPT !.guard_passed = FALSE]
  /\ UNCHANGED <<root, fat>>

(* take_ready, and take_failed until there is none. *)
Deliver ==
  /\ turn = "Deliver"
  /\ pipe # <<>>
  /\ \/ turn' = "Verdict"
     \/ Head(pipe).shown = None /\ turn' = "Deliver"
  /\ pipe' = Tail(pipe)
  /\ Published \/ ReadBack
  /\ UNCHANGED <<portVars, present, staged, hand>>

(* Nothing is decoded yet. *)
NothingReady ==
  /\ turn = "Deliver" /\ turn' = "Verdict"
  /\ UNCHANGED <<portVars, cardVars, workVars, pipe>>

Advanced ==
  /\ root' = IF hand.block = Root THEN hand.data ELSE root
  /\ fat' = IF hand.block = Fat THEN hand.data ELSE fat

(* The verdict, once there is one, reaches the service. *)
Decide ==
  /\ turn = "Verdict" /\ turn' = "Begin"
  /\ \/ /\ seq # None /\ seq.step = "Written"
        /\ Advanced
        /\ hand' = None /\ seq' = None
        /\ UNCHANGED <<verified, staged, pipe>>
     \/ /\ seq # None /\ seq.step \in {"Failed", "Unidentified"}
        /\ EndGeneration
     \/ /\ seq # None => seq.step \notin Verdict
        /\ UNCHANGED <<root, fat, verified, workVars, pipe>>
  /\ UNCHANGED <<portVars, present>>

-----------------------------------------------------------------------------
Next ==
  \/ \E c \in Card \cup {None} : Swap(c)
  \/ \E b \in Block, d \in Content : Stage(b, d)
  \/ Pass \/ PresenceLost \/ PresenceFound
  \/ RearmDue \/ Rearm
  \/ Begin \/ WriteWindow \/ Decide
  \/ CaptureForWriter \/ (\E b \in {Root, Fat} : CaptureForHost(b))
  \/ Deliver \/ NothingReady \/ ClearHost

Spec == Init /\ [][Next]_vars

(* The loop never stops; the writer has its turn, be it for a window or for a
   read, and so has the decoding of what was captured.  Nothing is promised of
   the card: it may stay deaf, silent or away for ever, and swaps need not stop. *)
LiveSpec ==
  /\ Spec
  /\ WF_vars(NothingReady \/ Decide \/ Begin \/ Pass \/ Rearm)
  /\ SF_vars(WriteWindow \/ CaptureForWriter) /\ SF_vars(Deliver)

-----------------------------------------------------------------------------
(* Properties. *)

(* While a block is being written the dongle is shown no other card: a READ of
   root or FAT that is answered meanwhile shows a half made on the card that
   half was of when the block was handed out.  note_card_verified vouches for
   whatever card the service describes when the guard passes, and the guard
   compared with what it described at hand-out (host_vmu_io). *)
Undisturbed ==
  seq # None =>
    \A c \in Card :
      /\ MadeOn(c, seq.expected.now[1]) => MadeOn(c, root)
      /\ MadeOn(c, seq.expected.now[2]) => MadeOn(c, fat)

(* Every variable has its type. *)
TypeOK ==
  /\ docked \in Card \cup {None} /\ armed \in BOOLEAN
  /\ media \in [Card -> [Block -> Content]]
  /\ present \in BOOLEAN /\ verified \in BOOLEAN /\ turn \in Turn
  /\ root \in Content \cup {None} /\ fat \in Content \cup {None}
  /\ staged \in Seq(Save) /\ Len(staged) <= QueueDepth
  /\ hand \in Save \cup {None} /\ seq \in WriteSeq \cup {None}
  /\ pipe \in Seq(Capture) /\ Len(pipe) <= PipeDepth

(* "Writing on would put a stale block onto whatever card is docked now,
   which is the swap the generation exists to prevent" (host_vmu_io): no byte
   of a save reaches a card other than the one it was acknowledged for,
   whenever cards are exchanged. *)
NeverAnotherCard ==
  [][media' # media =>
       \A c \in Card :
         MadeOn(c, hand.root) /\ MadeOn(c, hand.fat) => docked = c]_vars

(* A save reported written is, whole, on the card it was acknowledged for. *)
WrittenIsThere ==
  seq # None /\ seq.step = "Written" =>
    \A c \in Card : MadeOn(c, hand.data) => media[c][hand.block] = hand.data

(* A guard that read both blocks of the card the save was acknowledged for
   knows it, however much of the block in hand is on it: "a guard that knew
   only the old one would call the same card another" (write_seq). *)
SameCardPasses ==
  [][seq # None /\ seq.step = "ReadFat" /\ seq' # None
     /\ seq'.step = "Unidentified" /\ Head(pipe).shown # None =>
       \A c \in Card :
         MadeOn(c, seq.expected.now[1]) /\ MadeOn(c, seq.expected.now[2]) =>
           ~(MadeOn(c, seq.seed) /\ MadeOn(c, Head(pipe).shown))]_vars

(* "The service hands out one block at a time": a block in the writer's hands
   always comes to an end, whatever the card does, or nothing would ever be
   written again. *)
BlockDecided == seq # None ~> seq = None
=============================================================================
