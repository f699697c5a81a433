--------------------------- MODULE SwapGuardProofs ---------------------------
(***************************************************************************)
(* The swap guard does its work for any cards, contents, tries and depths   *)
(* of the queues, as long as the dongle is shown no other card while a      *)
(* block is being written (Undisturbed): every byte written goes onto the   *)
(* card its save was acknowledged for, a save reported written is on it,    *)
(* and a guard that looks at that card knows it.                            *)
(***************************************************************************)
EXTENDS SwapGuard, TLAPS

(* The steps that only a card the guard has vouched for sees. *)
Trusted == {"Phase", "Commit", "Recover", "Verify", "Written"}

(* What was shown is of the card, if anything was. *)
Of(x, d) == d = None \/ MadeOn(x, d)

SaveOf(x, save) == MadeOn(x, save.root) /\ MadeOn(x, save.fat) /\ MadeOn(x, save.data)
NowOf(x, s) == MadeOn(x, s.expected.now[1]) /\ MadeOn(x, s.expected.now[2])

LandingOf(now, save) ==
  CASE save.block = Fat  -> [other |-> now[1], before |-> now[2], after |-> save.data]
    [] save.block = Root -> [other |-> now[2], before |-> now[1], after |-> save.data]
    [] OTHER -> None

ByWriter(i) == pipe[i].owner = "Writer"

---------------------------------------------------------------------------
(* The invariant. *)

(* No card holds what was made on another. *)
Own == \A c \in Card, b \in Block : MadeOn(c, media[c][b])

(* What is in hand and what the sequence knows of it. *)
Handed ==
  /\ seq = None <=> hand = None
  /\ seq # None => /\ seq.block = hand.block /\ present /\ ~seq.guard_passed
                   /\ seq.expected.landing = LandingOf(seq.expected.now, hand)
                   /\ turn # "Rearm"
  /\ staged # <<>> => present
  /\ staged # <<>> \/ seq # None => Known

(* Everything was made on some card, a save on one. *)
Made ==
  /\ \A i \in DOMAIN staged : \E c \in Card : SaveOf(c, staged[i])
  /\ root # None => \E c \in Card : MadeOn(c, root)
  /\ fat # None => \E c \in Card : MadeOn(c, fat)
  /\ seq # None => /\ \E c \in Card : SaveOf(c, hand)
                   /\ \E c \in Card : MadeOn(c, seq.expected.now[1])
                   /\ \E c \in Card : MadeOn(c, seq.expected.now[2])

(* Saves are of the card the service describes, or described when it handed
   the block out, if that is one card. *)
Claimed ==
  /\ seq = None =>
       /\ \A i \in DOMAIN staged, c \in Card :
            MadeOn(c, root) /\ MadeOn(c, fat) => SaveOf(c, staged[i])
       /\ staged # <<>> /\ turn \in {"Window", "Rearm", "Deliver"} =>
            \E c \in Card : MadeOn(c, root) /\ MadeOn(c, fat)
  /\ seq # None => \A c \in Card : NowOf(c, seq) =>
       SaveOf(c, hand) /\ \A i \in DOMAIN staged : SaveOf(c, staged[i])

(* At most one read of the writer's is on its way, and it shows what a card
   holds. *)
Queued ==
  /\ \A i, j \in DOMAIN pipe : ByWriter(i) /\ ByWriter(j) => i = j
  /\ (\E i \in DOMAIN pipe : ByWriter(i)) <=>
       (seq # None /\ seq.step \in Reading /\ seq.read_asked)
  /\ \A i \in DOMAIN pipe :
       /\ ByWriter(i) => pipe[i].block = ReadBlock(seq)
       /\ pipe[i].owner = "Host" => pipe[i].block \in {Root, Fat}
       /\ pipe[i].shown # None => \E c \in Card : MadeOn(c, pipe[i].shown)
       /\ ByWriter(i) /\ pipe[i].shown # None =>
            \E c \in Card : pipe[i].shown = media[c][pipe[i].block]

(* The captures from the k-th on are of the card that answers, if one does. *)
Since(x, k) == /\ \A i \in DOMAIN pipe : i >= k => Of(x, pipe[i].shown)
               /\ Answers => docked = x

(* Only an enumeration arms a card while the guard looks. *)
Looked ==
  seq # None =>
    /\ seq.step = "ReadRoot" =>
         \A k \in DOMAIN pipe : ByWriter(k) => \E x \in Card : Since(x, k)
    /\ seq.step = "ReadFat" =>
         \E x \in Card : seq.seed = media[x][Root] /\ Since(x, 1)

(* A card vouched for is the one the service describes. *)
Vouched ==
  /\ verified /\ (seq # None => seq.step \in Trusted) =>
       \E x \in Card : Of(x, root) /\ Of(x, fat) /\ Since(x, 1)
  /\ seq # None /\ seq.step \in Trusted => verified
  /\ seq # None /\ (seq.step \in Trusted \/ seq.touched) =>
       \E x \in Card : NowOf(x, seq)

Reported ==
  seq # None /\ seq.step = "Written" =>
    \E c \in Card : media[c][hand.block] = hand.data

(* What was shown of a card is what it holds, but for the block in hand. *)
InHand(c, b) == seq # None /\ hand.block = b /\ SaveOf(c, hand)
Current ==
  /\ root # None =>
       \A c \in Card : MadeOn(c, root) => media[c][Root] = root \/ InHand(c, Root)
  /\ fat # None =>
       \A c \in Card : MadeOn(c, fat) => media[c][Fat] = fat \/ InHand(c, Fat)
  /\ \A i \in DOMAIN pipe : pipe[i].owner = "Host" /\ pipe[i].shown # None =>
       \A c \in Card : MadeOn(c, pipe[i].shown) =>
         \/ media[c][pipe[i].block] = pipe[i].shown
         \/ /\ InHand(c, pipe[i].block) /\ seq.step # "Written"
            /\ seq.step = "Verify" => \A k \in DOMAIN pipe : ByWriter(k) => i <= k

(* The card the block was handed out for holds what it held, but for what of
   the block has landed. *)
Landed(c, b, now) ==
  MadeOn(c, now) =>
    \/ media[c][b] = now
    \/ seq.touched /\ hand.block = b /\ Admits(seq.expected.landing, media[c][b])
Landings ==
  seq # None => \A c \in Card : /\ Landed(c, Root, seq.expected.now[1])
                                /\ Landed(c, Fat, seq.expected.now[2])

Inv == TypeOK /\ Own /\ Handed /\ Made /\ Claimed /\ Queued /\ Looked /\ Vouched
       /\ Reported /\ Current /\ Landings

---------------------------------------------------------------------------
(* The write sequence. *)

(* What the assumptions say of None, the blocks and the constants. *)
LEMMA Nones ==
  /\ None \notin Content /\ None \notin Save /\ None \notin WriteSeq /\ None \notin Card
  /\ None \notin Landing
  /\ Root \in Block /\ Fat \in Block /\ Root # Fat /\ 0 \in Phase
  /\ Maker \in [Payload -> Card] /\ Phases \in Nat \ {0}
  /\ WriteTries \in Nat \ {0} /\ GuardTries \in Nat \ {0}
  /\ QueueDepth \in Nat /\ PipeDepth \in Nat
BY WriteSeqAssumption, SwapGuardAssumption DEF Phase

(* A content was made on one card at most. *)
LEMMA OneMaker ==
  ASSUME NEW c, NEW e, NEW d, MadeOn(c, d), MadeOn(e, d)
  PROVE  c = e
BY Nones DEF MadeOn

(* Entering a step changes nothing the rest of the module asks about. *)
LEMMA EntersStep ==
  ASSUME NEW s \in WriteSeq, NEW step \in Sending \cup Reading \cup Verdict
  PROVE  /\ Enter(s, step) \in WriteSeq
         /\ Enter(s, step).step = step /\ ~Enter(s, step).read_asked
         /\ Enter(s, step).block = s.block /\ Enter(s, step).expected = s.expected
         /\ Enter(s, step).touched = s.touched /\ Enter(s, step).seed = s.seed
         /\ Enter(s, step).guard_passed = s.guard_passed
         /\ Enter(s, step).tries = s.tries /\ Enter(s, step).guard_tries = s.guard_tries
BY Nones DEF Enter, WriteSeq

(* A guard after a silence keeps what the block has touched. *)
LEMMA EntersGuard ==
  ASSUME NEW s \in WriteSeq
  PROVE  /\ EnterGuard(s) \in WriteSeq
         /\ EnterGuard(s).step = "Enumerate" /\ ~EnterGuard(s).read_asked
         /\ EnterGuard(s).block = s.block /\ EnterGuard(s).expected = s.expected
         /\ EnterGuard(s).touched = s.touched /\ EnterGuard(s).seed = s.seed
         /\ EnterGuard(s).guard_passed = s.guard_passed
<1> DEFINE e == Enter(s, "Enumerate")
<1>1. /\ e \in WriteSeq /\ e.step = "Enumerate" /\ ~e.read_asked /\ e.block = s.block
      /\ e.expected = s.expected /\ e.touched = s.touched /\ e.seed = s.seed
      /\ e.guard_passed = s.guard_passed
  BY EntersStep DEF Sending
<1>2. EnterGuard(s) = [e EXCEPT !.after = "Silence", !.guard_tries = 1]
  BY DEF EnterGuard
<1>3. 1 \in 1..GuardTries
  BY Nones
<1> HIDE DEF e
<1> QED
  BY <1>1, <1>2, <1>3 DEF WriteSeq

(* A look that fails is repeated or is the last. *)
LEMMA SpendsGuardTry ==
  ASSUME NEW s \in WriteSeq
  PROVE  /\ SpendGuardTry(s) \in WriteSeq
         /\ SpendGuardTry(s).step \in {"Enumerate", "Unidentified"}
         /\ ~SpendGuardTry(s).read_asked
         /\ SpendGuardTry(s).block = s.block /\ SpendGuardTry(s).expected = s.expected
         /\ SpendGuardTry(s).touched = s.touched
         /\ SpendGuardTry(s).guard_passed = s.guard_passed
<1> DEFINE e == Enter(s, "Enumerate")
<1>1. CASE s.guard_tries >= GuardTries
  BY <1>1, EntersStep DEF SpendGuardTry, Verdict
<1>2. CASE ~(s.guard_tries >= GuardTries)
  <2>1. /\ e \in WriteSeq /\ e.step = "Enumerate" /\ ~e.read_asked /\ e.block = s.block
        /\ e.expected = s.expected /\ e.touched = s.touched
        /\ e.guard_passed = s.guard_passed /\ e.guard_tries = s.guard_tries
    BY EntersStep DEF Sending
  <2>2. SpendGuardTry(s) = [e EXCEPT !.guard_tries = @ + 1]
    BY <1>2 DEF SpendGuardTry
  <2>3. s.guard_tries \in 1..GuardTries
    BY DEF WriteSeq
  <2> HIDE DEF e
  <2>4. e.guard_tries + 1 \in 1..GuardTries
    BY <1>2, <2>1, <2>3, Nones
  <2> QED
    BY <2>1, <2>2, <2>4 DEF WriteSeq
<1> QED
  BY <1>1, <1>2

(* A try that fails is repeated or is the last. *)
LEMMA SpendsTry ==
  ASSUME NEW s \in WriteSeq
  PROVE  /\ SpendTry(s) \in WriteSeq
         /\ SpendTry(s).step \in {"Recover", "Failed"}
         /\ ~SpendTry(s).read_asked
         /\ SpendTry(s).block = s.block /\ SpendTry(s).expected = s.expected
         /\ SpendTry(s).touched = s.touched
         /\ SpendTry(s).guard_passed = s.guard_passed
<1> DEFINE e == Enter(s, "Recover")
<1>1. CASE s.tries >= WriteTries
  BY <1>1, EntersStep DEF SpendTry, Verdict
<1>2. CASE ~(s.tries >= WriteTries)
  <2>1. /\ e \in WriteSeq /\ e.step = "Recover" /\ ~e.read_asked /\ e.block = s.block
        /\ e.expected = s.expected /\ e.touched = s.touched
        /\ e.guard_passed = s.guard_passed /\ e.tries = s.tries
    BY EntersStep DEF Sending
  <2>2. SpendTry(s) = [e EXCEPT !.tries = @ + 1]
    BY <1>2 DEF SpendTry
  <2>3. s.tries \in 1..WriteTries
    BY DEF WriteSeq
  <2> HIDE DEF e
  <2>4. e.tries + 1 \in 1..WriteTries
    BY <1>2, <2>1, <2>3, Nones
  <2> QED
    BY <2>1, <2>2, <2>4 DEF WriteSeq
<1> QED
  BY <1>1, <1>2

(* What a reply does to the sequence, as far as the rest of the module asks. *)
LEMMA PhaseReplied ==
  ASSUME NEW s \in WriteSeq, s.step = "Phase", NEW reply \in Reply
  PROVE  LET r == NoteReply(s, reply)
         IN  /\ r \in WriteSeq /\ r.block = s.block /\ r.expected = s.expected
             /\ r.touched /\ r.guard_passed = s.guard_passed
             /\ r.step \in {"Phase", "Commit", "Enumerate", "Recover", "Failed"}
<1> DEFINE u == [s EXCEPT !.touched = TRUE]
<1>1. /\ u \in WriteSeq /\ u.block = s.block /\ u.expected = s.expected /\ u.touched
      /\ u.guard_passed = s.guard_passed /\ u.step = "Phase" /\ u.phase = s.phase
  BY DEF WriteSeq
<1>2. NoteReply(s, reply) = AfterPhase(s, reply)
  BY DEF NoteReply
<1>a. AfterPhase(s, reply) =
         CASE reply = "Ack" /\ s.phase + 1 < Phases -> [u EXCEPT !.phase = s.phase + 1]
           [] reply = "Ack" /\ s.phase + 1 = Phases -> Enter(u, "Commit")
           [] reply = "Silent" -> EnterGuard(u)
           [] reply = "Error" -> SpendTry(u)
  BY DEF AfterPhase
<1> HIDE DEF u
<1>3. CASE reply = "Ack" /\ s.phase + 1 < Phases
  <2>0. s.phase + 1 # Phases
    BY <1>3, Nones DEF WriteSeq, Phase
  <2>1. AfterPhase(s, reply) = [u EXCEPT !.phase = s.phase + 1]
    BY <1>3, <2>0, <1>a
  <2>2. s.phase + 1 \in Phase
    BY <1>3, Nones DEF WriteSeq, Phase
  <2> QED
    BY <1>1, <1>2, <2>1, <2>2 DEF WriteSeq
<1>4. CASE reply = "Ack" /\ s.phase + 1 = Phases
  <2>1. AfterPhase(s, reply) = Enter(u, "Commit")
    BY <1>4, Nones DEF AfterPhase, u
  <2> QED
    BY <1>1, <1>2, <2>1, EntersStep DEF Sending
<1>5. CASE reply = "Silent"
  <2>1. AfterPhase(s, reply) = EnterGuard(u)
    BY <1>5 DEF AfterPhase, u
  <2> QED
    BY <1>1, <1>2, <2>1, EntersGuard
<1>6. CASE reply = "Error"
  <2>1. AfterPhase(s, reply) = SpendTry(u)
    BY <1>6 DEF AfterPhase, u
  <2> QED
    BY <1>1, <1>2, <2>1, SpendsTry
<1>7. s.phase + 1 < Phases \/ s.phase + 1 = Phases
  BY Nones DEF WriteSeq, Phase
<1> QED
  BY <1>3, <1>4, <1>5, <1>6, <1>7 DEF Reply

(* So for the other transactions; only an acknowledged enumeration leads to a
   look at the card. *)
LEMMA OtherReplied ==
  ASSUME NEW s \in WriteSeq, s.step \in {"Enumerate", "Commit", "Recover"}, NEW reply \in Reply
  PROVE  LET r == NoteReply(s, reply)
         IN  /\ r \in WriteSeq /\ r.block = s.block /\ r.expected = s.expected
             /\ r.touched = s.touched /\ r.guard_passed = s.guard_passed /\ ~r.read_asked
             /\ s.step = "Enumerate" =>
                  /\ r.step \in {"ReadRoot", "Enumerate", "Unidentified"}
                  /\ r.step = "ReadRoot" => reply = "Ack"
             /\ s.step # "Enumerate" => r.step \in {"Phase", "Verify", "Recover", "Failed"}
<1>1. CASE s.step = "Enumerate" /\ reply = "Ack"
  <2>1. NoteReply(s, reply) = Enter(s, "ReadRoot")
    BY <1>1 DEF NoteReply
  <2> QED
    BY <1>1, <2>1, EntersStep DEF Reading
<1>2. CASE s.step = "Enumerate" /\ reply # "Ack"
  <2>1. NoteReply(s, reply) = SpendGuardTry(s)
    BY <1>2 DEF NoteReply
  <2> QED
    BY <1>2, <2>1, SpendsGuardTry
<1>3. CASE s.step = "Commit"
  <2>1. NoteReply(s, reply) \in {SpendTry(s), Enter(s, "Verify")}
    BY <1>3 DEF NoteReply, AfterCommit
  <2> QED
    BY <1>3, <2>1, SpendsTry, EntersStep DEF Reading
<1>4. CASE s.step = "Recover"
  <2>1. NoteReply(s, reply) = Enter(s, "Phase")
    BY <1>4 DEF NoteReply
  <2> QED
    BY <1>4, <2>1, EntersStep DEF Sending
<1> QED
  BY <1>1, <1>2, <1>3, <1>4

(* What a read does to it. *)
LEMMA GuardRead ==
  ASSUME NEW s \in WriteSeq, s.step \in {"ReadRoot", "ReadFat"}, NEW data,
         NEW shown \in Content \cup {None}
  PROVE  LET r == NoteRead(s, data, shown)
         IN  /\ r \in WriteSeq /\ r.block = s.block /\ r.expected = s.expected
             /\ r.touched = s.touched /\ ~r.read_asked
             /\ shown = None => /\ r.step \in {"Enumerate", "Unidentified"}
                                /\ r.guard_passed = s.guard_passed
             /\ shown # None /\ s.step = "ReadRoot" =>
                  r.step = "ReadFat" /\ r.seed = shown /\ r.guard_passed = s.guard_passed
             /\ shown # None /\ s.step = "ReadFat" /\ Identified(s, shown) =>
                  r.step \in {"Phase", "Recover", "Failed"} /\ r.guard_passed
             /\ shown # None /\ s.step = "ReadFat" /\ ~Identified(s, shown) =>
                  r.step = "Unidentified" /\ r.guard_passed = s.guard_passed
<1>1. CASE shown = None
  <2>1. NoteRead(s, data, shown) = SpendGuardTry(s)
    BY <1>1 DEF NoteRead
  <2> QED
    BY <1>1, <2>1, SpendsGuardTry
<1>2. CASE shown # None /\ s.step = "ReadRoot"
  <2> DEFINE u == [s EXCEPT !.seed = shown]
  <2>1. NoteRead(s, data, shown) = Enter(u, "ReadFat")
    BY <1>2 DEF NoteRead
  <2>2. /\ u \in WriteSeq /\ u.block = s.block /\ u.expected = s.expected /\ u.seed = shown
        /\ u.touched = s.touched /\ u.guard_passed = s.guard_passed
    BY DEF WriteSeq
  <2> HIDE DEF u
  <2> QED
    BY <1>2, <2>1, <2>2, EntersStep DEF Reading
<1>3. CASE shown # None /\ s.step = "ReadFat" /\ Identified(s, shown)
  <2> DEFINE u == [s EXCEPT !.guard_passed = TRUE]
  <2>1. NoteRead(s, data, shown) \in {Enter(u, "Phase"), SpendTry(u)}
    BY <1>3 DEF NoteRead, Passed
  <2>2. /\ u \in WriteSeq /\ u.block = s.block /\ u.expected = s.expected
        /\ u.touched = s.touched /\ u.guard_passed
    BY DEF WriteSeq
  <2> HIDE DEF u
  <2> QED
    BY <1>3, <2>1, <2>2, EntersStep, SpendsTry DEF Sending
<1>4. CASE shown # None /\ s.step = "ReadFat" /\ ~Identified(s, shown)
  <2>1. NoteRead(s, data, shown) = Enter(s, "Unidentified")
    BY <1>4 DEF NoteRead
  <2> QED
    BY <1>4, <2>1, EntersStep DEF Verdict
<1> QED
  BY <1>1, <1>2, <1>3, <1>4

(* What is read back after a commit decides. *)
LEMMA VerifyRead ==
  ASSUME NEW s \in WriteSeq, s.step = "Verify", NEW data \in Content,
         NEW shown \in Content \cup {None}
  PROVE  LET r == NoteRead(s, data, shown)
         IN  /\ r \in WriteSeq /\ r.block = s.block /\ r.expected = s.expected
             /\ r.touched = s.touched /\ ~r.read_asked /\ r.guard_passed = s.guard_passed
             /\ r.step \in {"Written", "Enumerate", "Recover", "Failed"}
             /\ r.step = "Written" => shown = data
<1>1. NoteRead(s, data, shown) =
        IF shown = None THEN EnterGuard(s)
        ELSE IF shown = data THEN Enter(s, "Written") ELSE SpendTry(s)
  BY Nones DEF NoteRead
<1> QED
  BY <1>1, EntersGuard, EntersStep, SpendsTry DEF Verdict

---------------------------------------------------------------------------
(* Sequences. *)

(* What Append does to the elements of a sequence. *)
LEMMA Appended ==
  ASSUME NEW S, NEW q \in Seq(S), NEW e \in S
  PROVE  /\ Append(q, e) \in Seq(S) /\ Len(Append(q, e)) = Len(q) + 1
         /\ Len(q) \in Nat /\ DOMAIN q = 1..Len(q)
         /\ DOMAIN Append(q, e) = 1..(Len(q) + 1)
         /\ Append(q, e)[Len(q) + 1] = e
         /\ \A i \in DOMAIN q : Append(q, e)[i] = q[i]
OBVIOUS

(* What Tail does to them. *)
LEMMA Shifted ==
  ASSUME NEW S, NEW q \in Seq(S), q # <<>>
  PROVE  /\ Tail(q) \in Seq(S) /\ Len(Tail(q)) = Len(q) - 1
         /\ 1 \in DOMAIN q /\ Head(q) = q[1] /\ Head(q) \in S /\ Len(q) \in Nat
         /\ DOMAIN q = 1..Len(q) /\ DOMAIN Tail(q) = 1..(Len(q) - 1)
         /\ \A i \in DOMAIN Tail(q) :
              i \in Nat /\ i > 0 /\ i + 1 \in DOMAIN q /\ Tail(q)[i] = q[i + 1]
OBVIOUS

---------------------------------------------------------------------------
(* The invariant holds at first. *)
LEMMA Starts ==
  ASSUME Init
  PROVE  Inv
<1>1. TypeOK
  <2>1. armed \in BOOLEAN /\ present \in BOOLEAN /\ verified \in BOOLEAN
    BY Zenon DEF Init
  <2>2. media \in [Card -> [Block -> Content]]
    BY SwapGuardAssumption DEF Init
  <2> QED
    BY <2>1, <2>2, Nones DEF Init, TypeOK, Turn
<1>2. Own
  BY SwapGuardAssumption DEF Init, Own, MadeOn
<1>3. DOMAIN staged = {} /\ DOMAIN pipe = {}
  BY DEF Init
<1>4. Handed /\ Made /\ Claimed
  BY <1>3 DEF Init, Known, Handed, Made, Claimed
<1>5. Queued /\ Looked /\ Vouched
  BY <1>3 DEF Init, Queued, Looked, Vouched
<1>6. Reported /\ Current /\ Landings
  BY <1>3 DEF Init, Reported, Current, Landings
<1> QED
  BY <1>1, <1>2, <1>4, <1>5, <1>6 DEF Inv

(* The steps that leave the drain alone. *)
LEMMA SwapKeeps ==
  ASSUME Inv, NEW x \in Card \cup {None}, Swap(x)
  PROVE  Inv'
<1> USE DEF Inv
<1>1. /\ UNCHANGED <<media, present, root, fat, verified, staged, hand, seq, pipe, turn>>
      /\ docked' = x /\ armed' = FALSE
  BY DEF Swap, cardVars, workVars
<1>2. TypeOK'
  BY <1>1 DEF TypeOK
<1>3. Own'
  BY <1>1 DEF Own
<1>4. Handed' /\ Made' /\ Claimed' /\ Queued'
  BY <1>1 DEF Handed, Known, Made, Claimed, Queued, ByWriter
<1>5. \A c, k : Since(c, k) => Since(c, k)'
  BY <1>1 DEF Since, Answers
<1>6. Looked' /\ Vouched'
  BY <1>1, <1>5 DEF Looked, Vouched, ByWriter
<1>7. Reported' /\ Current' /\ Landings'
  BY <1>1 DEF Reported, Current, Landings, InHand, ByWriter, Landed
<1> QED
  BY <1>2, <1>3, <1>4, <1>6, <1>7

(* So do those that only take the loop on. *)
LEMMA QuietKeeps ==
  ASSUME Inv, UNCHANGED <<portVars, cardVars, workVars, pipe>>,
         turn' \in Turn, turn' = "Rearm" => turn = "Rearm" \/ seq = None,
         turn' \in {"Window", "Rearm", "Deliver"} =>
           turn \in {"Window", "Rearm", "Deliver"} \/ seq # None \/ staged = <<>>
  PROVE  Inv'
<1> USE DEF Inv
<1>1. UNCHANGED <<docked, armed, media, present, root, fat, verified, staged, hand, seq, pipe>>
  BY DEF portVars, cardVars, workVars
<1>2. TypeOK'
  BY <1>1 DEF TypeOK
<1>3. Own' /\ Made' /\ Queued'
  BY <1>1 DEF Own, Made, Queued, ByWriter
<1>4. Handed' /\ Claimed'
  BY <1>1 DEF Handed, Known, Claimed
<1>5. \A c, k : Since(c, k) => Since(c, k)'
  BY <1>1 DEF Since, Answers
<1>6. Looked' /\ Vouched'
  BY <1>1, <1>5 DEF Looked, Vouched, ByWriter
<1>7. Reported' /\ Current' /\ Landings'
  BY <1>1 DEF Reported, Current, Landings, InHand, ByWriter, Landed
<1> QED
  BY <1>2, <1>3, <1>4, <1>6, <1>7

(* An enumeration in a window of its own finds no block in hand, and takes the
   guard's word back. *)
LEMMA RearmKeeps ==
  ASSUME Inv, Rearm
  PROVE  Inv'
<1> USE DEF Inv
<1>1. /\ UNCHANGED <<docked, media, present, root, fat, staged, hand, seq, pipe>>
      /\ turn = "Rearm" /\ turn' = "Deliver" /\ verified' = FALSE
      /\ armed' \in {armed, docked # None} /\ seq = None
  BY DEF Rearm, workVars, AskedForInfo, Handed
<1>a. armed' \in BOOLEAN
  BY <1>1, Zenon DEF TypeOK
<1>2. TypeOK'
  BY <1>1, <1>a DEF TypeOK, Turn
<1>3. Own' /\ Made' /\ Queued'
  BY <1>1 DEF Own, Made, Queued, ByWriter
<1>4. Handed' /\ Claimed'
  BY <1>1 DEF Handed, Known, Claimed
<1>5. Looked' /\ Vouched'
  BY <1>1 DEF Looked, Vouched
<1>6. Reported' /\ Current' /\ Landings'
  BY <1>1 DEF Reported, Current, Landings, InHand, ByWriter
<1> QED
  BY <1>2, <1>3, <1>4, <1>5, <1>6

(* A generation that ends takes everything with it. *)
LEMMA EndKeeps ==
  ASSUME Inv, EndGeneration, turn' \in Turn, present' \in BOOLEAN,
         UNCHANGED <<docked, media>>, armed' \in BOOLEAN
  PROVE  Inv'
<1> USE DEF Inv
<1>1. /\ root' = None /\ fat' = None /\ verified' = FALSE /\ hand' = None /\ seq' = None
      /\ staged' = <<>> /\ pipe' = <<>>
  BY DEF EndGeneration, Abandoned
<1>2. DOMAIN staged' = {} /\ DOMAIN pipe' = {}
  BY <1>1
<1>a. verified' \in BOOLEAN
  BY <1>1, Zenon
<1>3. TypeOK'
  BY <1>1, <1>a, Nones DEF TypeOK
<1>4. Own'
  BY DEF Own
<1>5. Handed' /\ Made' /\ Claimed'
  BY <1>1, <1>2 DEF Handed, Known, Made, Claimed
<1>6. Queued' /\ Looked' /\ Vouched'
  BY <1>1, <1>2 DEF Queued, Looked, Vouched, ByWriter
<1>7. Reported' /\ Current' /\ Landings'
  BY <1>1, <1>2 DEF Reported, Current, Landings
<1> QED
  BY <1>3, <1>4, <1>5, <1>6, <1>7

(* A save joins the queue, made on the card the service describes. *)
LEMMA StageKeeps ==
  ASSUME Inv, Undisturbed, NEW b \in Block, NEW d \in Content, Stage(b, d)
  PROVE  Inv'
<1> USE DEF Inv
<1> DEFINE save == [block |-> b, data |-> d, root |-> root, fat |-> fat]
<1>1. /\ UNCHANGED <<docked, armed, media, present, root, fat, verified, hand, seq, pipe, turn>>
      /\ turn \in {"Window", "Rearm"} /\ present /\ root # None /\ fat # None
      /\ Len(staged) < QueueDepth /\ staged' = Append(staged, save)
  BY DEF Stage, portVars, cardVars, Known
<1>2. PICK x \in Card : MadeOn(x, root) /\ MadeOn(x, fat) /\ MadeOn(x, d)
  BY DEF Stage
<1>3. save \in Save /\ SaveOf(x, save)
  BY <1>1, <1>2 DEF TypeOK, Save, SaveOf
<1> HIDE DEF save
<1>4. /\ staged' \in Seq(Save) /\ Len(staged') <= QueueDepth /\ staged' # <<>>
      /\ \A i \in DOMAIN staged' :
           (i \in DOMAIN staged /\ staged'[i] = staged[i]) \/ staged'[i] = save
  <2>1. staged \in Seq(Save)
    BY DEF TypeOK
  <2> QED
    BY <1>1, <1>3, <2>1, Appended, Nones
<1>5. TypeOK'
  BY <1>1, <1>4 DEF TypeOK
<1>6. Own' /\ Queued'
  BY <1>1 DEF Own, Queued, ByWriter
<1>7. Handed'
  BY <1>1 DEF Handed, Known
<1>8. Made'
  BY <1>1, <1>3, <1>4 DEF Made
<1>9. Claimed'
  <2>1. CASE seq = None
    BY <1>1, <1>2, <1>3, <1>4, <2>1, OneMaker DEF Claimed
  <2>2. CASE seq # None
    <3>1. \A c \in Card : NowOf(c, seq) => c = x
      BY <1>2, <2>2, OneMaker DEF NowOf, Undisturbed
    <3> QED
      BY <1>1, <1>3, <1>4, <2>2, <3>1 DEF Claimed
  <2> QED
    BY <2>1, <2>2
<1>10. \A c, k : Since(c, k) => Since(c, k)'
  BY <1>1 DEF Since, Answers
<1>11. Looked' /\ Vouched'
  BY <1>1, <1>10 DEF Looked, Vouched, ByWriter
<1>12. Reported' /\ Current' /\ Landings'
  BY <1>1 DEF Reported, Current, Landings, InHand, ByWriter, Landed
<1> QED
  BY <1>5, <1>6, <1>7, <1>8, <1>9, <1>11, <1>12

(* A block goes into the writer's hands with the fingerprint of the card the
   service describes. *)
LEMMA HandOutKeeps ==
  ASSUME Inv, turn = "Begin", turn' = "Window", seq = None, staged # <<>>, present,
         hand' = Head(staged), staged' = Tail(staged),
         seq' = New(Head(staged).block, ExpectedFor(Head(staged)), verified),
         UNCHANGED <<portVars, cardVars, pipe>>
  PROVE  Inv'
<1> USE DEF Inv
<1>1. UNCHANGED <<docked, armed, media, present, root, fat, verified, pipe>>
  BY DEF portVars, cardVars
<1>2. /\ staged' \in Seq(Save) /\ Len(staged') <= QueueDepth
      /\ hand' \in Save /\ \E k \in DOMAIN staged : hand' = staged[k]
      /\ \A i \in DOMAIN staged' : \E k \in DOMAIN staged : staged'[i] = staged[k]
  <2>1. staged \in Seq(Save) /\ Len(staged) <= QueueDepth
    BY DEF TypeOK
  <2> QED
    BY <2>1, Shifted, Nones
<1>3. root \in Content /\ fat \in Content
  BY DEF TypeOK, Handed, Known
<1>4. /\ ExpectedFor(hand') \in Expected
      /\ ExpectedFor(hand').now = <<root, fat>>
      /\ ExpectedFor(hand').landing = LandingOf(<<root, fat>>, hand')
  BY <1>2, <1>3, Nones DEF ExpectedFor, Expected, Landing, LandingOf, Save
<1>5. /\ seq' \in WriteSeq /\ seq'.block = hand'.block /\ seq'.expected = ExpectedFor(hand')
      /\ seq'.step = (IF verified THEN "Phase" ELSE "Enumerate")
      /\ ~seq'.touched /\ ~seq'.guard_passed /\ ~seq'.read_asked
  BY <1>2, <1>4, Nones DEF New, WriteSeq, Save, Sending, Phase, TypeOK
<1>6. seq' # None /\ hand' # None
  BY <1>2, <1>5, Nones
<1>7. seq'.expected.now[1] = root /\ seq'.expected.now[2] = fat
  BY <1>4, <1>5
<1>8. TypeOK'
  BY <1>1, <1>2, <1>5 DEF TypeOK, Turn
<1>9. Own'
  BY <1>1 DEF Own
<1>10. Handed'
  BY <1>1, <1>4, <1>5, <1>6 DEF Handed, Known
<1>11. Made'
  BY <1>1, <1>2, <1>3, <1>7, Nones DEF Made
<1>12. Claimed'
  BY <1>1, <1>2, <1>6, <1>7 DEF Claimed, NowOf
<1>13. Queued'
  BY <1>1, <1>5 DEF Queued, ByWriter, Reading
<1>14. \A c, k : Since(c, k) => Since(c, k)'
  BY <1>1 DEF Since, Answers
<1>15. Looked'
  BY <1>5 DEF Looked
<1>16. Vouched'
  <2>1. seq'.step \in Trusted => verified
    BY <1>5 DEF Trusted
  <2> QED
    BY <1>1, <1>3, <1>5, <1>6, <1>7, <1>14, <2>1, Nones DEF Vouched, Of, NowOf
<1>17. Reported'
  BY <1>5 DEF Reported
<1>18. Current'
  BY <1>1, <1>5 DEF Current, InHand, ByWriter
<1>19. Landings'
  BY <1>1, <1>3, <1>7, Nones DEF Landings, Landed, Current, InHand
<1> QED
  BY <1>8, <1>9, <1>10, <1>11, <1>12, <1>13, <1>15, <1>16, <1>17, <1>18, <1>19

(* A card vouched for is the one the block was handed out for. *)
LEMMA Vouches ==
  ASSUME Inv, Undisturbed, seq # None, seq.step \in Trusted
  PROVE  \E x \in Card : /\ NowOf(x, seq) /\ SaveOf(x, hand) /\ Since(x, 1)
                         /\ MadeOn(x, root) /\ MadeOn(x, fat)
<1> USE DEF Inv
<1>1. PICK x \in Card : Of(x, root) /\ Of(x, fat) /\ Since(x, 1)
  BY DEF Vouched
<1>2. PICK y \in Card : NowOf(y, seq)
  BY DEF Vouched
<1>3. MadeOn(y, root) /\ MadeOn(y, fat)
  BY <1>2 DEF Undisturbed, NowOf
<1>4. x = y
  BY <1>1, <1>3, OneMaker DEF Of, Handed, Known
<1>5. SaveOf(y, hand)
  BY <1>2 DEF Claimed
<1> QED
  BY <1>1, <1>2, <1>3, <1>4, <1>5

(* The writer's transactions, when the card keeps what it holds. *)
LEMMA ReplyKeeps ==
  ASSUME Inv, seq # None, seq.step \in Sending, turn' = "Deliver",
         UNCHANGED <<docked, media, cardVars, staged, hand, pipe>>, armed' \in BOOLEAN,
         seq' \in WriteSeq, seq'.block = seq.block, seq'.expected = seq.expected,
         ~seq'.guard_passed, seq.touched => seq'.touched,
         seq'.touched => seq.touched \/ seq.step \in Trusted,
         seq'.step \in Trusted => seq.step \in Trusted,
         armed' = armed \/ seq'.step \notin Trusted,
         seq'.step \in Reading => ~seq'.read_asked,
         seq'.step \notin {"ReadFat", "Written"}
  PROVE  Inv'
<1> USE DEF Inv
<1>1. UNCHANGED <<docked, media, present, root, fat, verified, staged, hand, pipe>>
  BY DEF cardVars
<1>2. seq' # None /\ seq.step \notin Reading
  BY Nones DEF Sending, Reading
<1>3. \A i \in DOMAIN pipe : ~ByWriter(i)
  BY <1>2 DEF Queued
<1>4. TypeOK'
  BY <1>1 DEF TypeOK, Turn
<1>5. Own' /\ Made'
  BY <1>1, <1>2 DEF Own, Made
<1>6. Handed'
  BY <1>1, <1>2 DEF Handed, Known
<1>7. Claimed'
  BY <1>1, <1>2 DEF Claimed, NowOf
<1>8. \A i \in DOMAIN pipe' : ~ByWriter(i)'
  BY <1>1, <1>3 DEF ByWriter
<1>9. Queued'
  BY <1>1, <1>8 DEF Queued, ByWriter
<1>10. Looked'
  BY <1>8 DEF Looked
<1>11. Vouched'
  <2>1. \A c : armed' = armed /\ Since(c, 1) => Since(c, 1)'
    BY <1>1 DEF Since, Answers
  <2>2. \A c : NowOf(c, seq) => NowOf(c, seq')
    BY DEF NowOf
  <2> QED
    BY <1>1, <1>2, <2>1, <2>2 DEF Vouched, Trusted
<1>12. Reported'
  BY DEF Reported
<1>13. Current'
  <2>1. \A c, b : InHand(c, b) => InHand(c, b)'
    BY <1>1, <1>2 DEF InHand
  <2> QED
    BY <1>1, <1>2, <1>8, <2>1 DEF Current
<1>14. Landings'
  BY <1>1, <1>2 DEF Landings, Landed
<1> QED
  BY <1>4, <1>5, <1>6, <1>7, <1>9, <1>10, <1>11, <1>12, <1>13, <1>14

(* A phase lands, on the card the block was handed out for. *)
LEMMA LandKeeps ==
  ASSUME Inv, Undisturbed, seq # None, seq.step = "Phase", Answers, turn' = "Deliver",
         Lands(hand.block, seq.phase, hand.data[seq.phase]),
         UNCHANGED <<docked, armed, cardVars, staged, hand, pipe>>,
         seq' \in WriteSeq, seq'.block = seq.block, seq'.expected = seq.expected,
         ~seq'.guard_passed, seq'.touched,
         seq'.step \in {"Phase", "Commit", "Enumerate", "Recover", "Failed"}
  PROVE  Inv'
<1> USE DEF Inv
<1>1. UNCHANGED <<docked, armed, present, root, fat, verified, staged, hand, pipe>>
  BY DEF cardVars
<1>2. /\ seq' # None /\ seq.step \notin Reading
      /\ seq'.step \notin Reading /\ seq'.step # "Written" /\ seq.step \in Trusted
  BY Nones DEF Reading, Trusted
<1>3. PICK x \in Card : /\ NowOf(x, seq) /\ SaveOf(x, hand) /\ Since(x, 1)
                        /\ MadeOn(x, root) /\ MadeOn(x, fat)
  BY <1>2, Vouches
<1>4. docked = x
  BY <1>3 DEF Since
<1> DEFINE b == hand.block  f == seq.phase
<1>5. b \in Block /\ f \in Phase /\ hand.data \in Content /\ seq \in WriteSeq /\ hand \in Save
  BY DEF TypeOK, Handed, Save, WriteSeq
<1>6. media \in [Card -> [Block -> Content]]
  BY DEF TypeOK
<1>7. media' = [media EXCEPT ![x][b][f] = hand.data[f]]
  BY <1>4 DEF Lands
<1>8. /\ media' \in [Card -> [Block -> Content]]
      /\ \A c \in Card, k \in Block : c # x \/ k # b => media'[c][k] = media[c][k]
      /\ \A i \in Phase :
           media'[x][b][i] = IF i = f THEN hand.data[f] ELSE media[x][b][i]
  <2>1. hand.data[f] \in Payload
    BY <1>5 DEF Content
  <2>2. media[x] \in [Block -> Content] /\ media[x][b] \in [Phase -> Payload]
    BY <1>5, <1>6 DEF Content
  <2>3. [media[x][b] EXCEPT ![f] = hand.data[f]] \in Content
    BY <1>5, <2>1, <2>2 DEF Content
  <2>4. [media[x] EXCEPT ![b][f] = hand.data[f]] \in [Block -> Content]
    BY <1>5, <2>2, <2>3
  <2>5. media' \in [Card -> [Block -> Content]]
    BY <1>6, <1>7, <2>4
  <2> QED
    BY <1>5, <1>6, <1>7, <2>2, <2>5
<1> HIDE DEF b, f
<1>9. TypeOK'
  BY <1>1, <1>8 DEF TypeOK, Turn
<1>10. Own'
  <2>1. \A i \in Phase : Maker[hand.data[i]] = x
    BY <1>3 DEF SaveOf, MadeOn
  <2>2. MadeOn(x, media'[x][b])
    BY <1>5, <1>8, <2>1 DEF Own, MadeOn
  <2> QED
    BY <1>8, <2>2 DEF Own
<1>11. Made'
  BY <1>1, <1>2 DEF Made
<1>12. Handed'
  BY <1>1, <1>2 DEF Handed, Known
<1>13. Claimed'
  BY <1>1, <1>2 DEF Claimed, NowOf
<1>14. \A i \in DOMAIN pipe : ~ByWriter(i)
  BY <1>2 DEF Queued
<1>15. \A i \in DOMAIN pipe' : ~ByWriter(i)'
  BY <1>1, <1>14 DEF ByWriter
<1>16. Queued'
  BY <1>1, <1>2, <1>15 DEF Queued, ByWriter
<1>17. Looked'
  BY <1>15, <1>2 DEF Looked, Reading
<1>18. Vouched'
  <2>1. \A c : Since(c, 1) => Since(c, 1)'
    BY <1>1 DEF Since, Answers
  <2>2. \A c : NowOf(c, seq) => NowOf(c, seq')
    BY DEF NowOf
  <2> QED
    BY <1>1, <1>2, <2>1, <2>2 DEF Vouched
<1>19. Reported'
  BY <1>2 DEF Reported
<1>20. Current'
  <2>1. \A c \in Card, k \in Block : media'[c][k] = media[c][k] \/ InHand(c, k)'
    BY <1>1, <1>2, <1>3, <1>8 DEF InHand, b
  <2>2. \A c, k : InHand(c, k) => InHand(c, k)'
    BY <1>1, <1>2 DEF InHand
  <2>3. \A i \in DOMAIN pipe : pipe[i].owner = "Host" => pipe[i].block \in Block
    BY Nones DEF Queued
  <2> QED
    BY <1>1, <1>2, <1>15, <2>1, <2>2, <2>3, Nones DEF Current, Reading
<1>21. Landings'
  <2>1. ASSUME NEW c \in Card, NEW k \in {Root, Fat}, NEW now, Landed(c, k, now),
               k = Root => now = seq.expected.now[1], k = Fat => now = seq.expected.now[2]
        PROVE  Landed(c, k, now)'
    <3>1. CASE c # x \/ k # b
      BY <1>1, <1>8, <2>1, <3>1, Nones DEF Landed
    <3>2. CASE c = x /\ k = b /\ MadeOn(c, now)
      <4>1. /\ seq.expected.landing.before = now
            /\ seq.expected.landing.after = hand.data
        BY <2>1, <3>2, Nones DEF Handed, LandingOf, b
      <4>2. Admits(seq.expected.landing, media[c][k])
        BY <2>1, <3>2, <4>1 DEF Landed, Admits
      <4>3. Admits(seq.expected.landing, media'[c][k])
        BY <1>5, <1>8, <3>2, <4>1, <4>2 DEF Admits
      <4> QED
        BY <1>1, <3>2, <4>3 DEF Landed, b
    <3>3. CASE ~MadeOn(c, now)
      BY <3>3 DEF Landed
    <3> QED
      BY <3>1, <3>2, <3>3
  <2> QED
    BY <2>1, Nones DEF Landings
<1> QED
  BY <1>9, <1>10, <1>11, <1>12, <1>13, <1>16, <1>17, <1>18, <1>19, <1>20, <1>21

(* Either way. *)
LEMMA WriteWindowKeeps ==
  ASSUME Inv, Undisturbed, WriteWindow
  PROVE  Inv'
<1> USE DEF Inv
<1>1. /\ turn' = "Deliver" /\ seq # None /\ seq \in WriteSeq
      /\ UNCHANGED <<cardVars, staged, hand, pipe>>
  BY DEF WriteWindow, Window, TypeOK
<1>2. ~seq.guard_passed
  BY <1>1 DEF Handed
<1>3. armed \in BOOLEAN /\ armed' \in {armed, docked # None, TRUE} => armed' \in BOOLEAN
  BY Zenon
<1>4. CASE seq.step = "Phase"
  <2>1. PICK reply \in Reply :
          /\ seq' = NoteReply(seq, reply)
          /\ \/ UNCHANGED portVars
             \/ /\ Answers /\ Lands(hand.block, seq.phase, hand.data[seq.phase])
                /\ UNCHANGED <<docked, armed>>
             \/ UNCHANGED <<docked, armed, media>>
    BY <1>4 DEF WriteWindow, Reply
  <2>2. /\ seq' \in WriteSeq /\ seq'.block = seq.block /\ seq'.expected = seq.expected
        /\ seq'.touched /\ seq'.guard_passed = seq.guard_passed
        /\ seq'.step \in {"Phase", "Commit", "Enumerate", "Recover", "Failed"}
    BY <1>1, <1>4, <2>1, PhaseReplied
  <2>3. CASE Answers /\ Lands(hand.block, seq.phase, hand.data[seq.phase])
             /\ UNCHANGED <<docked, armed>>
    BY <1>1, <1>2, <1>4, <2>2, <2>3, LandKeeps
  <2>4. CASE UNCHANGED <<docked, armed, media>>
    BY <1>1, <1>2, <1>4, <2>2, <2>4, ReplyKeeps DEF Sending, Reading, Trusted, TypeOK
  <2> QED
    BY <2>1, <2>3, <2>4 DEF portVars
<1>5. CASE seq.step \in {"Commit", "Recover"}
  <2>1. PICK reply \in Reply : seq' = NoteReply(seq, reply)
    BY <1>5 DEF WriteWindow, Reply
  <2>2. UNCHANGED <<docked, armed, media>>
    BY <1>5 DEF WriteWindow, portVars
  <2>3. /\ seq' \in WriteSeq /\ seq'.block = seq.block /\ seq'.expected = seq.expected
        /\ seq'.touched = seq.touched /\ seq'.guard_passed = seq.guard_passed
        /\ ~seq'.read_asked /\ seq'.step \in {"Phase", "Verify", "Recover", "Failed"}
    BY <1>1, <1>5, <2>1, OtherReplied
  <2> QED
    BY <1>1, <1>2, <1>5, <2>2, <2>3, ReplyKeeps DEF Sending, Trusted, TypeOK
<1>6. CASE seq.step = "Enumerate"
  <2>1. PICK reply \in Reply : seq' = NoteReply(seq, reply)
    BY <1>6 DEF WriteWindow, Reply
  <2>2. /\ UNCHANGED <<docked, media>>
        /\ armed' \in {armed, docked # None, TRUE}
    BY <1>6 DEF WriteWindow, AskedForInfo
  <2>3. /\ seq' \in WriteSeq /\ seq'.block = seq.block /\ seq'.expected = seq.expected
        /\ seq'.touched = seq.touched /\ seq'.guard_passed = seq.guard_passed
        /\ ~seq'.read_asked /\ seq'.step \in {"ReadRoot", "Enumerate", "Unidentified"}
    BY <1>1, <1>6, <2>1, OtherReplied
  <2>4. armed' \in BOOLEAN
    BY <1>3, <2>2 DEF TypeOK
  <2> QED
    BY <1>1, <1>2, <1>6, <2>2, <2>3, <2>4, ReplyKeeps DEF Sending, Trusted, TypeOK
<1> QED
  BY <1>4, <1>5, <1>6 DEF WriteWindow

(* A capture shows what the card holds that answers, and that card is the one
   of the captures before it. *)
LEMMA CaptureKeeps ==
  ASSUME Inv, NEW owner \in {"Host", "Writer"}, NEW b \in Block, Captured(owner, b),
         turn = "Window", turn' = "Deliver", UNCHANGED <<portVars, cardVars, staged, hand>>,
         \/ /\ owner = "Host" /\ b \in {Root, Fat} /\ seq' = seq
            /\ seq # None => seq.step \in Reading
         \/ /\ owner = "Writer" /\ seq # None /\ seq.step \in Reading /\ ~seq.read_asked
            /\ b = ReadBlock(seq) /\ seq' = [seq EXCEPT !.read_asked = TRUE]
  PROVE  Inv'
<1> USE DEF Inv
<1>1. UNCHANGED <<docked, armed, media, present, root, fat, verified, staged, hand>>
  BY DEF portVars, cardVars
<1>2. PICK shown \in Content \cup {None} :
        /\ shown # None => Answers /\ shown = media[docked][b]
        /\ Len(pipe) < PipeDepth
        /\ pipe' = Append(pipe, [owner |-> owner, block |-> b, shown |-> shown])
  <2>1. Answers => media[docked][b] \in Content
    BY DEF TypeOK, Answers
  <2> QED
    BY <2>1, Nones DEF Captured
<1> DEFINE e == [owner |-> owner, block |-> b, shown |-> shown]
<1>3. e \in Capture /\ e.owner = owner /\ e.block = b /\ e.shown = shown
  BY DEF Capture
<1>4. pipe' = Append(pipe, e)
  BY <1>2
<1> HIDE DEF e
<1>n. PICK n \in Nat : n = Len(pipe) + 1
  BY DEF TypeOK
<1>5. /\ pipe' \in Seq(Capture) /\ Len(pipe') <= PipeDepth
      /\ n \in DOMAIN pipe' /\ n \notin DOMAIN pipe /\ pipe'[n] = e
      /\ \A i \in DOMAIN pipe' : i \in Nat /\ i <= n
      /\ \A i \in DOMAIN pipe' : i \in DOMAIN pipe \/ i = n
      /\ \A i \in DOMAIN pipe : i \in DOMAIN pipe' /\ pipe'[i] = pipe[i] /\ i \in Nat /\ i < n
  <2>1. pipe \in Seq(Capture)
    BY DEF TypeOK
  <2> QED
    BY <1>2, <1>3, <1>4, <1>n, <2>1, Appended, Nones
<1>6. /\ seq # None <=> seq' # None
      /\ seq # None => /\ seq' \in WriteSeq
                       /\ seq'.block = seq.block /\ seq'.step = seq.step
                       /\ seq'.expected = seq.expected /\ seq'.touched = seq.touched
                       /\ seq'.seed = seq.seed /\ seq'.guard_passed = seq.guard_passed
                       /\ ReadBlock(seq') = ReadBlock(seq)
                       /\ seq'.read_asked <=> seq.read_asked \/ owner = "Writer"
                       /\ seq.step \in Reading
      /\ owner = "Writer" => seq # None /\ b = ReadBlock(seq) /\ ~seq.read_asked
  <2>1. CASE owner = "Host"
    BY <2>1, Nones DEF TypeOK
  <2>2. CASE owner = "Writer"
    <3>1. seq \in WriteSeq /\ seq' = [seq EXCEPT !.read_asked = TRUE]
      BY <2>2, Nones DEF TypeOK
    <3>2. seq' \in WriteSeq /\ seq' # None
      BY <3>1, Nones DEF WriteSeq
    <3>3. /\ seq'.block = seq.block /\ seq'.step = seq.step
          /\ seq'.expected = seq.expected /\ seq'.touched = seq.touched
          /\ seq'.seed = seq.seed /\ seq'.guard_passed = seq.guard_passed
          /\ seq'.read_asked
      BY <3>1 DEF WriteSeq
    <3>4. ReadBlock(seq') = ReadBlock(seq)
      BY <3>3 DEF ReadBlock
    <3> QED
      BY <2>2, <3>2, <3>3, <3>4
  <2> QED
    BY <2>1, <2>2
<1>7. shown # None => docked \in Card /\ docked # None /\ MadeOn(docked, shown)
  BY <1>2 DEF Own, Answers, TypeOK
<1>8. TypeOK'
  BY <1>1, <1>5, <1>6, Nones DEF TypeOK, Turn
<1>9. Own'
  BY <1>1 DEF Own
<1>10. Handed'
  BY <1>1, <1>6 DEF Handed, Known
<1>11. Made'
  BY <1>1, <1>6 DEF Made
<1>12. Claimed'
  BY <1>1, <1>6 DEF Claimed, NowOf
<1>13. \A i \in DOMAIN pipe' : ByWriter(i)' <=>
         (i \in DOMAIN pipe /\ ByWriter(i)) \/ (i = n /\ owner = "Writer")
  BY <1>3, <1>5 DEF ByWriter
<1>14. Queued'
  <2>1. \A i, j \in DOMAIN pipe' : ByWriter(i)' /\ ByWriter(j)' => i = j
    BY <1>6, <1>13 DEF Queued
  <2>2. (\E i \in DOMAIN pipe' : ByWriter(i)') <=>
          (seq' # None /\ seq'.step \in Reading /\ seq'.read_asked)
    BY <1>5, <1>6, <1>13 DEF Queued
  <2>3. ASSUME NEW i \in DOMAIN pipe'
        PROVE  /\ ByWriter(i)' => pipe'[i].block = ReadBlock(seq')
               /\ pipe'[i].owner = "Host" => pipe'[i].block \in {Root, Fat}
               /\ pipe'[i].shown # None => \E c \in Card : MadeOn(c, pipe'[i].shown)
               /\ ByWriter(i)' /\ pipe'[i].shown # None =>
                    \E c \in Card : pipe'[i].shown = media'[c][pipe'[i].block]
    <3>1. CASE i = n
      BY <1>1, <1>2, <1>3, <1>5, <1>6, <1>7, <1>13, <3>1
    <3>2. CASE i \in DOMAIN pipe /\ i # n
      BY <1>1, <1>5, <1>6, <1>13, <3>2 DEF Queued
    <3> QED
      BY <1>5, <3>1, <3>2
  <2> QED
    BY <2>1, <2>2, <2>3 DEF Queued
<1>15. \A c \in Card, k \in DOMAIN pipe \cup {1} : Since(c, k) => Since(c, k)'
  <2>1. Answers' <=> Answers
    BY <1>1 DEF Answers
  <2>2. ASSUME NEW c \in Card, NEW k \in DOMAIN pipe \cup {1}, Since(c, k),
               NEW i \in DOMAIN pipe', i >= k
        PROVE  Of(c, pipe'[i].shown)
    <3>1. CASE i = n
      BY <1>2, <1>3, <1>5, <1>7, <2>2, <3>1 DEF Since, Of
    <3>2. CASE i \in DOMAIN pipe
      BY <1>5, <2>2, <3>2 DEF Since
    <3> QED
      BY <1>5, <3>1, <3>2
  <2> QED
    BY <1>1, <2>1, <2>2 DEF Since
<1>16. Looked'
  <2>1. ASSUME seq' # None, seq'.step = "ReadRoot", NEW k \in DOMAIN pipe', ByWriter(k)'
        PROVE  \E x \in Card : Since(x, k)'
    <3>1. CASE k \in DOMAIN pipe /\ ByWriter(k)
      BY <1>6, <1>15, <2>1, <3>1 DEF Looked
    <3>2. CASE k = n
      <4>1. PICK y \in Card : SaveOf(y, hand)
        BY <1>6, <2>1 DEF Made
      <4>2. \A i \in DOMAIN pipe' : i >= n => i = n
        BY <1>5
      <4>3. CASE Answers
        <5>1. PICK z \in Card : z = docked
          BY <4>3 DEF Answers, TypeOK
        <5>2. Since(z, n)'
          BY <1>1, <1>3, <1>5, <1>7, <4>2, <5>1 DEF Since, Of
        <5> QED
          BY <3>2, <5>2
      <4>4. CASE ~Answers
        <5>1. shown = None /\ ~Answers'
          BY <1>1, <1>2, <4>4 DEF Answers
        <5>2. Since(y, n)'
          BY <1>3, <1>5, <4>2, <5>1 DEF Since, Of
        <5> QED
          BY <3>2, <5>2
      <4> QED
        BY <4>3, <4>4
    <3> QED
      BY <1>13, <2>1, <3>1, <3>2
  <2>2. seq' # None /\ seq'.step = "ReadFat" =>
          \E x \in Card : seq'.seed = media'[x][Root] /\ Since(x, 1)'
    BY <1>1, <1>6, <1>15 DEF Looked
  <2> QED
    BY <2>1, <2>2 DEF Looked
<1>17. Vouched'
  BY <1>1, <1>6, <1>15 DEF Vouched, NowOf
<1>18. Reported'
  BY <1>1, <1>6 DEF Reported
<1>19. Current'
  <2>1. \A c, k : /\ InHand(c, k)' <=> InHand(c, k)
                  /\ InHand(c, k) => seq # None
    BY <1>1, <1>6 DEF InHand
  <2>2. ASSUME NEW i \in DOMAIN pipe', pipe'[i].owner = "Host", pipe'[i].shown # None,
               NEW c \in Card, MadeOn(c, pipe'[i].shown)
        PROVE  \/ media'[c][pipe'[i].block] = pipe'[i].shown
               \/ /\ InHand(c, pipe[i].block)' /\ seq'.step # "Written"
                  /\ seq'.step = "Verify" => \A k \in DOMAIN pipe' : ByWriter(k)' => i <= k
    <3>1. CASE i = n
      BY <1>1, <1>2, <1>3, <1>5, <1>7, <2>2, <3>1, OneMaker
    <3>2. CASE i \in DOMAIN pipe
      <4>1. \A k \in DOMAIN pipe' : k \in DOMAIN pipe \/ i <= k
        BY <1>5, <3>2
      <4>2. \/ media[c][pipe[i].block] = pipe[i].shown
            \/ /\ InHand(c, pipe[i].block) /\ seq.step # "Written"
               /\ seq.step = "Verify" => \A k \in DOMAIN pipe : ByWriter(k) => i <= k
        BY <1>5, <2>2, <3>2 DEF Current
      <4>3. \A k \in DOMAIN pipe' : ByWriter(k)' => (k \in DOMAIN pipe /\ ByWriter(k)) \/ i <= k
        BY <1>5, <1>13, <4>1
      <4> QED
        BY <1>1, <1>5, <1>6, <2>1, <3>2, <4>2, <4>3
    <3> QED
      BY <1>5, <3>1, <3>2
  <2>3. root' # None => \A c \in Card :
          MadeOn(c, root') => media'[c][Root] = root' \/ InHand(c, Root)'
    BY <1>1, <2>1 DEF Current
  <2>4. fat' # None => \A c \in Card :
          MadeOn(c, fat') => media'[c][Fat] = fat' \/ InHand(c, Fat)'
    BY <1>1, <2>1 DEF Current
  <2> QED
    BY <2>2, <2>3, <2>4 DEF Current
<1>20. Landings'
  BY <1>1, <1>6 DEF Landings, Landed
<1> QED
  BY <1>8, <1>9, <1>10, <1>11, <1>12, <1>14, <1>16, <1>17, <1>18, <1>19, <1>20

(* The host's requests are cleared, the writer's read stays. *)
LEMMA ClearKeeps ==
  ASSUME Inv, ClearHost
  PROVE  Inv'
<1> USE DEF Inv
<1>1. UNCHANGED <<docked, armed, media, present, root, fat, verified, staged, hand, seq, turn>>
  BY DEF ClearHost, portVars, cardVars, workVars
<1>2. pipe \in Seq(Capture) /\ Len(pipe) <= PipeDepth /\ pipe # <<>>
  BY DEF ClearHost, TypeOK
<1>3. /\ pipe' \in Seq(Capture) /\ Len(pipe') <= PipeDepth
      /\ \A i \in DOMAIN pipe' : i = 1
      /\ \A i \in DOMAIN pipe' : ByWriter(i)' /\
           \E k \in DOMAIN pipe : ByWriter(k) /\ pipe'[i] = pipe[k]
      /\ \A k \in DOMAIN pipe : ByWriter(k) => 1 \in DOMAIN pipe' /\ pipe'[1] = pipe[k]
  <2>1. CASE pipe' = <<>> /\ \A k \in DOMAIN pipe : pipe[k].owner = "Host"
    BY <1>2, <2>1, Nones DEF ByWriter
  <2>2. CASE \E k \in DOMAIN pipe : ByWriter(k) /\ pipe' = <<pipe[k]>>
    <3>0. PICK k \in DOMAIN pipe : ByWriter(k) /\ pipe' = <<pipe[k]>>
      BY <2>2
    <3>1. /\ pipe' \in Seq(Capture) /\ Len(pipe') = 1 /\ DOMAIN pipe' = {1}
          /\ pipe'[1] = pipe[k] /\ Len(pipe) >= 1
      BY <1>2, <3>0
    <3>2. \A j \in DOMAIN pipe : ByWriter(j) => j = k
      BY <3>0 DEF Queued
    <3> QED
      BY <1>2, <3>0, <3>1, <3>2, Nones DEF ByWriter
  <2> QED
    BY <2>1, <2>2 DEF ClearHost, ByWriter
<1>4. TypeOK'
  BY <1>1, <1>3 DEF TypeOK
<1>5. Own' /\ Made'
  BY <1>1 DEF Own, Made
<1>6. Handed' /\ Claimed'
  BY <1>1 DEF Handed, Known, Claimed
<1>7. Queued'
  <2>1. \A i, j \in DOMAIN pipe' : i = j
    BY <1>3
  <2>2. (\E i \in DOMAIN pipe' : ByWriter(i)') <=> (\E i \in DOMAIN pipe : ByWriter(i))
    BY <1>3
  <2>3. \A i \in DOMAIN pipe' :
          /\ pipe'[i].block = ReadBlock(seq) /\ pipe'[i].owner = "Writer"
          /\ pipe'[i].shown # None =>
               \E c \in Card : pipe'[i].shown = media[c][pipe'[i].block]
          /\ pipe'[i].shown # None => \E c \in Card : MadeOn(c, pipe'[i].shown)
    BY <1>3 DEF Queued, ByWriter
  <2> QED
    BY <1>1, <2>1, <2>2, <2>3 DEF Queued
<1>8. \A c \in Card : (\E k \in DOMAIN pipe : ByWriter(k) /\ Since(c, k)) => Since(c, 1)'
  BY <1>1, <1>3, <1>2 DEF Since, Answers
<1>9. \A c \in Card : Since(c, 1) => Since(c, 1)'
  BY <1>1, <1>3, <1>2 DEF Since, Answers
<1>10. Looked'
  <2>1. seq # None /\ seq.step = "ReadRoot" =>
          \A k \in DOMAIN pipe' : \E x \in Card : Since(x, 1)'
    BY <1>3, <1>8 DEF Looked
  <2> QED
    BY <1>1, <1>3, <1>9, <2>1 DEF Looked
<1>11. Vouched'
  BY <1>1, <1>9 DEF Vouched
<1>12. Reported' /\ Landings'
  BY <1>1 DEF Reported, Landings, Landed
<1>13. Current'
  <2>1. \A i \in DOMAIN pipe' : pipe'[i].owner # "Host"
    BY <1>3 DEF ByWriter
  <2> QED
    BY <1>1, <2>1 DEF Current, InHand
<1> QED
  BY <1>4, <1>5, <1>6, <1>7, <1>10, <1>11, <1>12, <1>13

(* The oldest capture leaves the read path. *)
LEMMA Delivered ==
  ASSUME Inv, pipe # <<>>, pipe' = Tail(pipe), UNCHANGED <<docked, armed>>
  PROVE  /\ pipe' \in Seq(Capture) /\ Len(pipe') <= PipeDepth
         /\ 1 \in DOMAIN pipe /\ Head(pipe) = pipe[1] /\ pipe[1] \in Capture
         /\ \A i \in DOMAIN pipe :
              i \in Nat /\ i >= 1 /\ (i = 1 \/ (i - 1 \in DOMAIN pipe' /\ pipe'[i - 1] = pipe[i]))
         /\ \A i \in DOMAIN pipe' :
              i \in Nat /\ i >= 1 /\ i + 1 \in DOMAIN pipe /\ pipe'[i] = pipe[i + 1]
         /\ \A i \in DOMAIN pipe' : ByWriter(i)' <=> ByWriter(i + 1)
         /\ \A c \in Card : Since(c, 1) => Since(c, 1)' /\ Of(c, pipe[1].shown)
         /\ \A c \in Card, k \in DOMAIN pipe' : Since(c, k + 1) => Since(c, k)'
<1>1. pipe \in Seq(Capture) /\ Len(pipe) <= PipeDepth
  BY DEF Inv, TypeOK
<1>2. /\ pipe' \in Seq(Capture) /\ Len(pipe') <= PipeDepth
      /\ 1 \in DOMAIN pipe /\ Head(pipe) = pipe[1] /\ pipe[1] \in Capture
      /\ \A i \in DOMAIN pipe :
           i \in Nat /\ i >= 1 /\ (i = 1 \/ (i - 1 \in DOMAIN pipe' /\ pipe'[i - 1] = pipe[i]))
      /\ \A i \in DOMAIN pipe' :
           i \in Nat /\ i >= 1 /\ i + 1 \in DOMAIN pipe /\ pipe'[i] = pipe[i + 1]
  BY <1>1, Shifted, Nones
<1>3. \A i \in DOMAIN pipe' : ByWriter(i)' <=> ByWriter(i + 1)
  BY <1>2 DEF ByWriter
<1>4. Answers' <=> Answers
  BY DEF Answers
<1>5. \A c \in Card : Since(c, 1) => Since(c, 1)' /\ Of(c, pipe[1].shown)
  BY <1>2, <1>4 DEF Since
<1>6. \A c \in Card, k \in DOMAIN pipe' : Since(c, k + 1) => Since(c, k)'
  BY <1>2, <1>4 DEF Since
<1> QED
  BY <1>2, <1>3, <1>5, <1>6

(* What the dongle asked for becomes what the service knows of the card. *)
LEMMA PublishedKeeps ==
  ASSUME Inv, Deliver, Published
  PROVE  Inv'
<1> USE DEF Inv
<1>1. /\ UNCHANGED <<docked, armed, media, present, verified, staged, hand, seq>>
      /\ turn = "Deliver" /\ turn' \in {"Deliver", "Verdict"}
      /\ pipe # <<>> /\ pipe' = Tail(pipe)
  BY DEF Deliver, Published, portVars
<1> DEFINE d == pipe[1].shown
<1>2. /\ pipe' \in Seq(Capture) /\ Len(pipe') <= PipeDepth
      /\ 1 \in DOMAIN pipe /\ Head(pipe) = pipe[1] /\ pipe[1] \in Capture
      /\ \A i \in DOMAIN pipe :
           i \in Nat /\ i >= 1 /\ (i = 1 \/ (i - 1 \in DOMAIN pipe' /\ pipe'[i - 1] = pipe[i]))
      /\ \A i \in DOMAIN pipe' :
           i \in Nat /\ i >= 1 /\ i + 1 \in DOMAIN pipe /\ pipe'[i] = pipe[i + 1]
      /\ \A i \in DOMAIN pipe' : ByWriter(i)' <=> ByWriter(i + 1)
      /\ \A c \in Card : Since(c, 1) => Since(c, 1)' /\ Of(c, d)
      /\ \A c \in Card, k \in DOMAIN pipe' : Since(c, k + 1) => Since(c, k)'
  BY <1>1, Delivered
<1>3. /\ pipe[1].owner = "Host" /\ pipe[1].block \in {Root, Fat} /\ d \in Content \cup {None}
      /\ ~ByWriter(1)
  BY <1>2 DEF Published, Capture, Queued, ByWriter
<1>4. /\ root' = root \/ (d # None /\ pipe[1].block = Root /\ root' = d)
      /\ fat' = fat \/ (d # None /\ pipe[1].block = Fat /\ fat' = d)
      /\ root' = root \/ fat' = fat
  BY <1>2, Nones DEF Published
<1> HIDE DEF d
<1>5. TypeOK'
  BY <1>1, <1>2, <1>3, <1>4 DEF TypeOK, Turn
<1>6. Own'
  BY <1>1 DEF Own
<1>7. Handed'
  BY <1>1, <1>4 DEF Handed, Known
<1>8. Made'
  <2>1. d # None => \E c \in Card : MadeOn(c, d)
    BY <1>2 DEF Queued, d
  <2> QED
    BY <1>1, <1>4, <2>1 DEF Made
<1>9. Claimed'
  <2>1. ASSUME seq = None, staged # <<>>
        PROVE  /\ \A i \in DOMAIN staged, c \in Card :
                    MadeOn(c, root') /\ MadeOn(c, fat') => SaveOf(c, staged[i])
    <3>1. PICK x \in Card : MadeOn(x, root) /\ MadeOn(x, fat)
      BY <1>1, <2>1 DEF Claimed
    <3>2. \A c \in Card : MadeOn(c, root') /\ MadeOn(c, fat') => c = x
      BY <1>4, <3>1, OneMaker
    <3> QED
      BY <2>1, <3>1, <3>2 DEF Claimed
  <2>2. staged = <<>> => DOMAIN staged = {}
    OBVIOUS
  <2>3. turn' = "Deliver" => root' = root /\ fat' = fat
    BY <1>2, <1>1 DEF Deliver, Published
  <2>4. CASE seq = None
    BY <1>1, <2>1, <2>2, <2>3, <2>4 DEF Claimed
  <2>5. CASE seq # None
    BY <1>1, <2>5 DEF Claimed
  <2> QED
    BY <2>4, <2>5
<1>10. Queued'
  <2>1. \A i, j \in DOMAIN pipe' : ByWriter(i)' /\ ByWriter(j)' => i = j
    BY <1>2 DEF Queued
  <2>2. (\E i \in DOMAIN pipe' : ByWriter(i)') <=> (\E i \in DOMAIN pipe : ByWriter(i))
    BY <1>2, <1>3 DEF ByWriter
  <2>3. ASSUME NEW i \in DOMAIN pipe'
        PROVE  /\ ByWriter(i)' => pipe'[i].block = ReadBlock(seq')
               /\ pipe'[i].owner = "Host" => pipe'[i].block \in {Root, Fat}
               /\ pipe'[i].shown # None => \E c \in Card : MadeOn(c, pipe'[i].shown)
               /\ ByWriter(i)' /\ pipe'[i].shown # None =>
                    \E c \in Card : pipe'[i].shown = media'[c][pipe'[i].block]
    BY <1>1, <1>2 DEF Queued
  <2> QED
    BY <1>1, <2>1, <2>2, <2>3 DEF Queued
<1>11. Looked'
  BY <1>1, <1>2 DEF Looked
<1>12. Vouched'
  BY <1>1, <1>2, <1>4 DEF Vouched, Of
<1>13. Reported' /\ Landings'
  BY <1>1 DEF Reported, Landings, Landed
<1>14. Current'
  <2>1. \A c, k : InHand(c, k)' <=> InHand(c, k)
    BY <1>1 DEF InHand
  <2>2. d # None => \A c \in Card :
          MadeOn(c, d) => media[c][pipe[1].block] = d \/ InHand(c, pipe[1].block)
    BY <1>2, <1>3 DEF Current, d
  <2>3. root' # None => \A c \in Card :
          MadeOn(c, root') => media'[c][Root] = root' \/ InHand(c, Root)'
    BY <1>1, <1>4, <2>1, <2>2 DEF Current
  <2>4. fat' # None => \A c \in Card :
          MadeOn(c, fat') => media'[c][Fat] = fat' \/ InHand(c, Fat)'
    BY <1>1, <1>4, <2>1, <2>2 DEF Current
  <2>5. ASSUME NEW i \in DOMAIN pipe', pipe'[i].owner = "Host", pipe'[i].shown # None,
               NEW c \in Card, MadeOn(c, pipe'[i].shown)
        PROVE  \/ media'[c][pipe'[i].block] = pipe'[i].shown
               \/ /\ InHand(c, pipe[i].block)' /\ seq'.step # "Written"
                  /\ seq'.step = "Verify" => \A k \in DOMAIN pipe' : ByWriter(k)' => i <= k
    <3>1. \/ media[c][pipe[i + 1].block] = pipe[i + 1].shown
          \/ /\ InHand(c, pipe[i + 1].block) /\ seq.step # "Written"
             /\ seq.step = "Verify" => \A k \in DOMAIN pipe : ByWriter(k) => i + 1 <= k
      BY <1>2, <2>5 DEF Current
    <3>2. (\A k \in DOMAIN pipe : ByWriter(k) => i + 1 <= k) =>
             \A k \in DOMAIN pipe' : ByWriter(k)' => i <= k
      BY <1>2, <2>5
    <3> QED
      BY <1>1, <1>2, <2>1, <2>5, <3>1, <3>2
  <2> QED
    BY <2>3, <2>4, <2>5 DEF Current
<1> QED
  BY <1>5, <1>6, <1>7, <1>8, <1>9, <1>10, <1>11, <1>12, <1>13, <1>14

(* A read of the writer's takes the sequence on. *)
LEMMA ReadKeeps ==
  ASSUME Inv, pipe # <<>>, ByWriter(1), pipe' = Tail(pipe),
         turn' \in {"Deliver", "Verdict"}, seq # None,
         UNCHANGED <<docked, armed, media, present, root, fat, staged, hand>>,
         seq' \in WriteSeq, seq'.block = seq.block, seq'.expected = seq.expected,
         seq'.touched = seq.touched, ~seq'.guard_passed, ~seq'.read_asked,
         verified' \in BOOLEAN, seq'.step \notin {"ReadRoot", "Verify"},
         seq'.step = "ReadFat" =>
           \E x \in Card : seq'.seed = media[x][Root] /\ Since(x, 1),
         seq'.step \in Trusted => verified' /\
           \E x \in Card : Of(x, root) /\ Of(x, fat) /\ Since(x, 1) /\ NowOf(x, seq),
         seq'.step = "Written" =>
           seq.step = "Verify" /\ pipe[1].shown = hand.data /\ hand.data \in Content
  PROVE  Inv'
<1> USE DEF Inv
<1>1. /\ pipe' \in Seq(Capture) /\ Len(pipe') <= PipeDepth
      /\ 1 \in DOMAIN pipe /\ Head(pipe) = pipe[1] /\ pipe[1] \in Capture
      /\ \A i \in DOMAIN pipe' :
           i \in Nat /\ i >= 1 /\ i + 1 \in DOMAIN pipe /\ pipe'[i] = pipe[i + 1]
      /\ \A i \in DOMAIN pipe' : ByWriter(i)' <=> ByWriter(i + 1)
      /\ \A c \in Card : Since(c, 1) => Since(c, 1)' /\ Of(c, pipe[1].shown)
  BY Delivered
<1>2. seq' # None
  BY Nones
<1>3. \A i \in DOMAIN pipe' : ~ByWriter(i)'
  <2>1. \A i \in DOMAIN pipe : ByWriter(i) => i = 1
    BY <1>1 DEF Queued
  <2> QED
    BY <1>1, <2>1
<1>4. TypeOK'
  BY <1>1 DEF TypeOK, Turn
<1>5. Own' /\ Made'
  BY <1>2 DEF Own, Made
<1>6. Handed'
  BY <1>2 DEF Handed, Known
<1>7. Claimed'
  BY <1>2 DEF Claimed, NowOf
<1>8. Queued'
  <2>1. \A i \in DOMAIN pipe' :
          /\ pipe'[i].owner = "Host" => pipe'[i].block \in {Root, Fat}
          /\ pipe'[i].shown # None => \E c \in Card : MadeOn(c, pipe'[i].shown)
    BY <1>1 DEF Queued
  <2> QED
    BY <1>3, <2>1 DEF Queued
<1>9. Looked'
  BY <1>1 DEF Looked
<1>10. \A c : NowOf(c, seq') <=> NowOf(c, seq)
  BY DEF NowOf
<1>11. Vouched'
  <2>1. seq.touched => \E x \in Card : NowOf(x, seq)
    BY DEF Vouched
  <2> QED
    BY <1>1, <1>2, <1>10, <2>1 DEF Vouched
<1>12. Reported'
  <2>1. seq'.step = "Written" =>
          \E c \in Card : pipe[1].shown = media[c][pipe[1].block]
    BY <1>1, Nones DEF Queued
  <2>2. seq'.step = "Written" => pipe[1].block = hand.block
    BY <1>1 DEF Queued, ReadBlock, Handed
  <2> QED
    BY <2>1, <2>2 DEF Reported
<1>13. Landings'
  BY <1>2 DEF Landings, Landed
<1>14. Current'
  <2>1. \A c, k : InHand(c, k)' <=> InHand(c, k)
    BY <1>2 DEF InHand
  <2>2. ASSUME NEW i \in DOMAIN pipe', pipe'[i].owner = "Host", pipe'[i].shown # None,
               NEW c \in Card, MadeOn(c, pipe'[i].shown)
        PROVE  media'[c][pipe'[i].block] = pipe'[i].shown
               \/ (InHand(c, pipe[i].block)' /\ seq'.step # "Written")
    <3>1. \/ media[c][pipe[i + 1].block] = pipe[i + 1].shown
          \/ /\ InHand(c, pipe[i + 1].block)
             /\ seq.step = "Verify" => \A k \in DOMAIN pipe : ByWriter(k) => i + 1 <= k
      BY <1>1, <2>2 DEF Current
    <3>2. seq.step = "Verify" => ~(\A k \in DOMAIN pipe : ByWriter(k) => i + 1 <= k)
      BY <1>1, <2>2
    <3> QED
      BY <1>1, <2>1, <2>2, <3>1, <3>2
  <2>3. root' # None => \A c \in Card :
          MadeOn(c, root') => media'[c][Root] = root' \/ InHand(c, Root)'
    BY <2>1 DEF Current
  <2>4. fat' # None => \A c \in Card :
          MadeOn(c, fat') => media'[c][Fat] = fat' \/ InHand(c, Fat)'
    BY <2>1 DEF Current
  <2> QED
    BY <2>2, <2>3, <2>4 DEF Current
<1> QED
  BY <1>4, <1>5, <1>6, <1>7, <1>8, <1>9, <1>11, <1>12, <1>13, <1>14

(* A guard that knows the card it looks at looks at the one the block was
   handed out for. *)
LEMMA KnowsTheCard ==
  ASSUME Inv, seq # None, NEW x \in Card, seq.seed = media[x][Root],
         NEW shown \in Content, shown = media[x][Fat], Identified(seq, shown)
  PROVE  NowOf(x, seq)
<1> USE DEF Inv
<1>1. MadeOn(x, seq.seed) /\ MadeOn(x, shown)
  BY Nones DEF Own
<1>2. CASE <<seq.seed, shown>> = seq.expected.now
  BY <1>1, <1>2 DEF NowOf
<1>3. CASE MidWrite(seq, shown)
  <2>1. PICK y \in Card : NowOf(y, seq)
    BY <1>3 DEF Vouched, MidWrite
  <2>2. /\ seq.expected.landing = LandingOf(seq.expected.now, hand)
        /\ seq.block = hand.block
    BY DEF Handed
  <2>3. MadeOn(x, seq.expected.now[1]) \/ MadeOn(x, seq.expected.now[2])
    BY <1>1, <1>3, <2>2, Nones DEF MidWrite, LandingOf
  <2> QED
    BY <2>1, <2>3, OneMaker DEF NowOf
<1> QED
  BY <1>2, <1>3 DEF Identified

(* Each read, by the step that waits for it. *)
LEMMA ReadBackKeeps ==
  ASSUME Inv, Undisturbed, Deliver, ReadBack
  PROVE  Inv'
<1> USE DEF Inv
<1> DEFINE shown == pipe[1].shown
           s == NoteRead(seq, hand.data, shown)
<1>1. /\ UNCHANGED <<docked, armed, media, present, root, fat, staged, hand>>
      /\ turn' \in {"Deliver", "Verdict"} /\ pipe # <<>> /\ pipe' = Tail(pipe)
  BY DEF Deliver, ReadBack, portVars
<1>2. /\ 1 \in DOMAIN pipe /\ Head(pipe) = pipe[1] /\ pipe[1] \in Capture
      /\ \A c \in Card : Since(c, 1) => Of(c, shown)
  BY <1>1, Delivered
<1>3. /\ ByWriter(1) /\ seq # None /\ seq.step \in Reading /\ seq \in WriteSeq
      /\ shown \in Content \cup {None} /\ pipe[1].block = ReadBlock(seq)
      /\ shown # None => \E c \in Card : shown = media[c][pipe[1].block]
      /\ verified' = (verified \/ s.guard_passed) /\ seq' = [s EXCEPT !.guard_passed = FALSE]
      /\ ~seq.guard_passed /\ hand \in Save /\ hand.data \in Content
  <2>1. ByWriter(1)
    BY <1>2 DEF ReadBack, ByWriter
  <2>2. seq # None /\ seq.step \in Reading
    BY <1>2, <2>1 DEF Queued
  <2>3. hand \in Save /\ seq \in WriteSeq
    BY <2>2 DEF TypeOK, Handed
  <2> QED
    BY <1>2, <2>1, <2>2, <2>3 DEF ReadBack, Queued, Handed, Capture, Save
<1> HIDE DEF shown, s
<1>4. verified' \in BOOLEAN
  BY <1>3, Zenon
<1>5. ASSUME s \in WriteSeq
      PROVE  /\ seq' \in WriteSeq /\ seq'.block = s.block /\ seq'.expected = s.expected
             /\ seq'.touched = s.touched /\ ~seq'.guard_passed /\ seq'.step = s.step
             /\ seq'.read_asked = s.read_asked /\ seq'.seed = s.seed
  BY <1>3, <1>5 DEF WriteSeq
<1>6. CASE seq.step = "Verify"
  <2>1. /\ s \in WriteSeq /\ s.block = seq.block /\ s.expected = seq.expected
        /\ s.touched = seq.touched /\ ~s.read_asked
        /\ s.step \in {"Written", "Enumerate", "Recover", "Failed"}
        /\ s.step = "Written" => shown = hand.data
    BY <1>3, <1>6, VerifyRead DEF s
  <2>2. \E x \in Card : /\ Of(x, root) /\ Of(x, fat) /\ Since(x, 1) /\ NowOf(x, seq)
    BY <1>3, <1>6, Vouches DEF Trusted, Of
  <2>3. verified /\ verified'
    BY <1>3, <1>6 DEF Vouched, Trusted
  <2> QED
    BY <1>1, <1>3, <1>4, <1>5, <1>6, <2>1, <2>2, <2>3, ReadKeeps DEF shown
<1>7. CASE seq.step \in {"ReadRoot", "ReadFat"} /\ shown = None
  <2>1. /\ s \in WriteSeq /\ s.block = seq.block /\ s.expected = seq.expected
        /\ s.touched = seq.touched /\ ~s.read_asked
        /\ s.step \in {"Enumerate", "Unidentified"}
    BY <1>3, <1>7, GuardRead DEF s
  <2> QED
    BY <1>1, <1>3, <1>4, <1>5, <1>7, <2>1, ReadKeeps DEF Trusted
<1>8. CASE seq.step = "ReadRoot" /\ shown # None
  <2>1. /\ s \in WriteSeq /\ s.block = seq.block /\ s.expected = seq.expected
        /\ s.touched = seq.touched /\ ~s.read_asked
        /\ s.step = "ReadFat" /\ s.seed = shown
    BY <1>3, <1>8, GuardRead DEF s
  <2>2. PICK x \in Card : Since(x, 1)
    BY <1>2, <1>3, <1>8 DEF Looked
  <2>3. shown = media[x][Root]
    <3>1. PICK c \in Card : shown = media[c][Root]
      BY <1>3, <1>8 DEF ReadBlock
    <3>2. MadeOn(c, shown) /\ MadeOn(x, shown)
      BY <1>2, <1>8, <2>2, <3>1, Nones DEF Own, Of
    <3> QED
      BY <3>1, <3>2, OneMaker
  <2> QED
    BY <1>1, <1>3, <1>4, <1>5, <1>8, <2>1, <2>2, <2>3, ReadKeeps DEF Trusted
<1>9. CASE seq.step = "ReadFat" /\ shown # None
  <2>1. /\ s \in WriteSeq /\ s.block = seq.block /\ s.expected = seq.expected
        /\ s.touched = seq.touched /\ ~s.read_asked
        /\ Identified(seq, shown) => s.step \in {"Phase", "Recover", "Failed"} /\ s.guard_passed
        /\ ~Identified(seq, shown) => s.step = "Unidentified"
    BY <1>3, <1>9, GuardRead DEF s
  <2>2. PICK x \in Card : seq.seed = media[x][Root] /\ Since(x, 1)
    BY <1>3, <1>9 DEF Looked
  <2>3. shown = media[x][Fat]
    <3>1. PICK c \in Card : shown = media[c][Fat]
      BY <1>3, <1>9 DEF ReadBlock
    <3>2. MadeOn(c, shown) /\ MadeOn(x, shown)
      BY <1>2, <1>9, <2>2, <3>1, Nones DEF Own, Of
    <3> QED
      BY <3>1, <3>2, OneMaker
  <2>4. CASE Identified(seq, shown)
    <3>1. NowOf(x, seq)
      BY <1>3, <1>9, <2>2, <2>3, <2>4, KnowsTheCard
    <3>2. Of(x, root) /\ Of(x, fat)
      BY <1>3, <3>1 DEF NowOf, Undisturbed, Of
    <3>3. verified'
      BY <1>3, <2>1, <2>4
    <3> QED
      BY <1>1, <1>3, <1>4, <1>5, <1>9, <2>1, <2>2, <2>4, <3>1, <3>2, <3>3, ReadKeeps DEF Trusted
  <2>5. CASE ~Identified(seq, shown)
    BY <1>1, <1>3, <1>4, <1>5, <1>9, <2>1, <2>5, ReadKeeps DEF Trusted
  <2> QED
    BY <2>4, <2>5
<1> QED
  BY <1>3, <1>6, <1>7, <1>8, <1>9 DEF Reading

(* What was written becomes what the service knows. *)
LEMMA WrittenKeeps ==
  ASSUME Inv, Undisturbed, turn' = "Begin", seq # None, seq.step = "Written",
         Advanced, hand' = None, seq' = None,
         UNCHANGED <<portVars, present, verified, staged, pipe>>
  PROVE  Inv'
<1> USE DEF Inv
<1>1. UNCHANGED <<docked, armed, media, present, verified, staged, pipe>>
  BY DEF portVars
<1>2. PICK x \in Card : /\ NowOf(x, seq) /\ SaveOf(x, hand) /\ Since(x, 1)
                        /\ MadeOn(x, root) /\ MadeOn(x, fat)
  BY Vouches DEF Trusted
<1>3. /\ hand \in Save /\ hand.data \in Content /\ hand.block \in Block
      /\ media[x][hand.block] = hand.data
  <2>1. hand \in Save
    BY DEF TypeOK, Handed
  <2>2. hand.data \in Content /\ hand.block \in Block
    BY <2>1 DEF Save
  <2>3. PICK c \in Card : media[c][hand.block] = hand.data
    BY DEF Reported
  <2>4. MadeOn(c, hand.data) /\ MadeOn(x, hand.data)
    BY <1>2, <2>2, <2>3 DEF Own, SaveOf
  <2> QED
    BY <2>1, <2>2, <2>3, <2>4, OneMaker
<1>4. /\ root' # None /\ fat' # None /\ MadeOn(x, root') /\ MadeOn(x, fat')
      /\ root' \in Content \cup {None} /\ fat' \in Content \cup {None}
      /\ root' = IF hand.block = Root THEN hand.data ELSE root
      /\ fat' = IF hand.block = Fat THEN hand.data ELSE fat
  <2>1. /\ root' = IF hand.block = Root THEN hand.data ELSE root
        /\ fat' = IF hand.block = Fat THEN hand.data ELSE fat
    BY DEF Advanced
  <2>2. root \in Content /\ fat \in Content
    BY DEF Handed, Known, TypeOK
  <2> QED
    BY <1>2, <1>3, <2>1, <2>2, Nones DEF SaveOf
<1>5. TypeOK'
  BY <1>1, <1>4 DEF TypeOK, Turn
<1>6. Own'
  BY <1>1 DEF Own
<1>7. Handed'
  BY <1>1, <1>4 DEF Handed, Known
<1>8. Made'
  BY <1>1, <1>4 DEF Made
<1>9. Claimed'
  <2>1. \A c \in Card : MadeOn(c, root') => c = x
    BY <1>4, OneMaker
  <2>2. \A i \in DOMAIN staged : SaveOf(x, staged[i])
    BY <1>2 DEF Claimed
  <2> QED
    BY <1>1, <2>1, <2>2 DEF Claimed
<1>10. Queued'
  <2>1. \A i \in DOMAIN pipe : ~ByWriter(i)
    BY DEF Queued, Reading
  <2>2. \A i \in DOMAIN pipe' : ~ByWriter(i)'
    BY <1>1, <2>1 DEF ByWriter
  <2> QED
    BY <1>1, <2>2 DEF Queued
<1>11. Vouched'
  <2>1. Since(x, 1)'
    BY <1>1, <1>2 DEF Since, Answers
  <2> QED
    BY <1>4, <2>1 DEF Vouched, Of
<1>12. Looked' /\ Reported' /\ Landings'
  BY DEF Looked, Reported, Landings
<1>13. Current'
  <2>1. \A c, b : InHand(c, b) => b = hand.block
    BY DEF InHand
  <2>2. root' # None => \A c \in Card : MadeOn(c, root') => media'[c][Root] = root'
    BY <1>1, <1>3, <1>4, <2>1, OneMaker DEF Current
  <2>3. fat' # None => \A c \in Card : MadeOn(c, fat') => media'[c][Fat] = fat'
    BY <1>1, <1>3, <1>4, <2>1, OneMaker DEF Current
  <2>4. \A i \in DOMAIN pipe : pipe[i].owner = "Host" /\ pipe[i].shown # None =>
          \A c \in Card : MadeOn(c, pipe[i].shown) => media[c][pipe[i].block] = pipe[i].shown
    BY DEF Current
  <2> QED
    BY <1>1, <2>2, <2>3, <2>4 DEF Current
<1> QED
  BY <1>5, <1>6, <1>7, <1>8, <1>9, <1>10, <1>11, <1>12, <1>13

---------------------------------------------------------------------------
(* Every step keeps the invariant. *)
LEMMA Keeps ==
  ASSUME Inv, Undisturbed, [Next]_vars
  PROVE  Inv'
<1> USE DEF Inv
<1>1. ASSUME NEW c \in Card \cup {None}, Swap(c) PROVE Inv'
  BY <1>1, SwapKeeps
<1>2. ASSUME NEW b \in Block, NEW d \in Content, Stage(b, d) PROVE Inv'
  BY <1>2, StageKeeps
<1>3. CASE Pass
  BY <1>3, QuietKeeps DEF Pass, Window, Turn
<1>4. CASE PresenceLost
  <2>1. present' \in BOOLEAN
    BY <1>4, Zenon DEF PresenceLost
  <2> QED
    BY <1>4, <2>1, EndKeeps DEF PresenceLost, Window, Turn, portVars, TypeOK
<1>5. CASE PresenceFound
  <2>1. present' \in BOOLEAN /\ armed' \in BOOLEAN
    BY <1>5, Zenon DEF PresenceFound, AskedForInfo, TypeOK
  <2> QED
    BY <1>5, <2>1, EndKeeps DEF PresenceFound, Window, Turn
<1>6. CASE RearmDue
  BY <1>6, QuietKeeps DEF RearmDue, Draining, Turn
<1>7. CASE Rearm
  BY <1>7, RearmKeeps
<1>8. CASE Begin
  <2>1. CASE present /\ seq = None /\ staged # <<>>
    BY <1>8, <2>1, HandOutKeeps DEF Begin
  <2>2. CASE ~(present /\ seq = None /\ staged # <<>>)
    BY <1>8, <2>2, QuietKeeps DEF Begin, Turn, Handed
  <2> QED
    BY <2>1, <2>2
<1>9. CASE WriteWindow
  BY <1>9, WriteWindowKeeps
<1>10. CASE Decide
  <2>1. CASE seq # None /\ seq.step = "Written"
    BY <1>10, <2>1, Nones, WrittenKeeps DEF Decide, Verdict
  <2>2. CASE EndGeneration
    BY <1>10, <2>2, EndKeeps DEF Decide, Turn, portVars, TypeOK
  <2>3. CASE UNCHANGED <<root, fat, verified, workVars, pipe>>
    BY <1>10, <2>3, QuietKeeps DEF Decide, Turn, cardVars
  <2> QED
    BY <1>10, <2>1, <2>2, <2>3 DEF Decide
<1>11. CASE CaptureForWriter
  <2>1. /\ seq # None /\ seq.step \in Reading /\ ReadBlock(seq) \in Block
    BY <1>11, Nones DEF CaptureForWriter, ReadBlock, Reading, TypeOK, WriteSeq
  <2> QED
    BY <1>11, <2>1, CaptureKeeps DEF CaptureForWriter, Window
<1>12. ASSUME NEW b \in {Root, Fat}, CaptureForHost(b) PROVE Inv'
  <2>1. b \in Block
    BY Nones
  <2> QED
    BY <1>12, <2>1, CaptureKeeps DEF CaptureForHost, Window, workVars
<1>13. CASE Deliver
  BY <1>13, PublishedKeeps, ReadBackKeeps DEF Deliver
<1>14. CASE NothingReady
  BY <1>14, QuietKeeps DEF NothingReady, Turn
<1>15. CASE ClearHost
  BY <1>15, ClearKeeps
<1>16. CASE UNCHANGED vars
  <2>1. turn' \in Turn /\ UNCHANGED <<portVars, cardVars, workVars, pipe, turn>>
    BY <1>16 DEF vars, TypeOK
  <2> QED
    BY <2>1, QuietKeeps DEF vars
<1> QED
  BY <1>1, <1>2, <1>3, <1>4, <1>5, <1>6, <1>7, <1>8, <1>9, <1>10, <1>11, <1>12,
     <1>13, <1>14, <1>15, <1>16 DEF Next

(* The invariant of the swap guard, under what is asked of the dongle. *)
THEOREM Guards == Spec /\ []Undisturbed => []Inv
<1>1. Init => Inv
  BY Starts
<1>2. Inv /\ Undisturbed /\ [Next]_vars => Inv'
  BY Keeps
<1> QED
  BY <1>1, <1>2, PTL DEF Spec

(* Every variable keeps its type, as long as the dongle is shown no other card
   while a block is being written. *)
THEOREM SwapGuardTypes == Spec /\ []Undisturbed => []TypeOK
<1>1. Inv => TypeOK
  BY DEF Inv
<1> QED
  BY <1>1, Guards, PTL

(* A save reported written is, whole, on the card it was acknowledged for:
   what it was read back from is that card, which alone holds its bytes. *)
THEOREM WrittenSavesAreThere == Spec /\ []Undisturbed => []WrittenIsThere
<1>1. Inv => WrittenIsThere
  <2> SUFFICES ASSUME Inv, seq # None, seq.step = "Written",
                      NEW c \in Card, MadeOn(c, hand.data)
               PROVE  media[c][hand.block] = hand.data
    BY DEF WrittenIsThere
  <2>1. PICK x \in Card : media[x][hand.block] = hand.data
    BY DEF Inv, Reported
  <2>2. hand.block \in Block
    BY DEF Inv, TypeOK, Handed, Save
  <2>3. MadeOn(x, hand.data)
    BY <2>1, <2>2 DEF Inv, Own
  <2> QED
    BY <2>1, <2>3, OneMaker
<1> QED
  BY <1>1, Guards, PTL

(* No byte of a save reaches a card other than the one it was acknowledged for,
   whenever cards are exchanged. *)
THEOREM NoOtherCardIsWritten == Spec /\ []Undisturbed => NeverAnotherCard
<1>1. Inv /\ Undisturbed /\ [Next]_vars =>
        [media' # media => \A c \in Card :
           MadeOn(c, hand.root) /\ MadeOn(c, hand.fat) => docked = c]_vars
  <2> SUFFICES ASSUME Inv, Undisturbed, [Next]_vars, media' # media,
                      NEW c \in Card, MadeOn(c, hand.root), MadeOn(c, hand.fat)
               PROVE  docked = c
    OBVIOUS
  <2>1. WriteWindow
    BY DEF Next, vars, Swap, Stage, Pass, PresenceLost, PresenceFound, RearmDue, Rearm,
           Begin, Decide, CaptureForWriter, CaptureForHost, Deliver, NothingReady,
           ClearHost, portVars
  <2>2. seq # None /\ seq.step = "Phase" /\ Answers
    BY <2>1 DEF WriteWindow, portVars
  <2>3. PICK x \in Card : SaveOf(x, hand) /\ Since(x, 1)
    BY <2>2, Vouches DEF Trusted
  <2> QED
    BY <2>2, <2>3, OneMaker DEF SaveOf, Since
<1> QED
  BY <1>1, Guards, PTL DEF Spec, NeverAnotherCard

(* A guard that read both blocks of the card the save was acknowledged for
   knows it, however much of the block in hand is on it. *)
THEOREM TheSameCardPasses == Spec /\ []Undisturbed => SameCardPasses
<1>1. Inv /\ Undisturbed /\ [Next]_vars =>
        [seq # None /\ seq.step = "ReadFat" /\ seq' # None
         /\ seq'.step = "Unidentified" /\ Head(pipe).shown # None =>
           \A c \in Card :
             MadeOn(c, seq.expected.now[1]) /\ MadeOn(c, seq.expected.now[2]) =>
               ~(MadeOn(c, seq.seed) /\ MadeOn(c, Head(pipe).shown))]_vars
  <2> SUFFICES ASSUME Inv, [Next]_vars, seq # None, seq.step = "ReadFat", seq' # None,
                      seq'.step = "Unidentified", Head(pipe).shown # None,
                      NEW c \in Card,
                      MadeOn(c, seq.expected.now[1]), MadeOn(c, seq.expected.now[2]),
                      MadeOn(c, seq.seed), MadeOn(c, Head(pipe).shown)
               PROVE  FALSE
    OBVIOUS
  <2> USE DEF Inv
  <2>1. seq \in WriteSeq /\ hand \in Save
    BY DEF TypeOK, Handed
  <2>2. seq' # seq
    OBVIOUS
  <2>3. ~CaptureForWriter
    BY <2>1 DEF CaptureForWriter, WriteSeq
  <2>4. ~WriteWindow
    BY DEF WriteWindow
  <2>5. ~Decide
    BY <2>2 DEF Decide, EndGeneration, Abandoned, workVars, Verdict
  <2>6. Deliver
    BY <2>2, <2>3, <2>4, <2>5
       DEF Next, vars, Swap, Stage, Pass, PresenceLost, PresenceFound, RearmDue, Rearm,
           Begin, CaptureForHost, NothingReady, ClearHost, EndGeneration, Abandoned,
           workVars
  <2>7. ReadBack /\ pipe # <<>>
    BY <2>2, <2>6 DEF Deliver, Published
  <2> DEFINE shown == Head(pipe).shown
  <2>8. 1 \in DOMAIN pipe /\ Head(pipe) = pipe[1] /\ shown \in Content
    <3>1. pipe \in Seq(Capture)
      BY DEF TypeOK
    <3>2. 1 \in DOMAIN pipe /\ Head(pipe) = pipe[1] /\ pipe[1] \in Capture
      BY <2>7, <3>1, Shifted
    <3> QED
      BY <3>2 DEF Capture
  <2>9. /\ ByWriter(1) /\ pipe[1].block = Fat
        /\ \E x \in Card : shown = media[x][Fat]
    BY <2>7, <2>8 DEF ReadBack, ByWriter, Queued, ReadBlock
  <2>10. seq.seed = media[c][Root] /\ shown = media[c][Fat]
    <3>1. PICK x \in Card : seq.seed = media[x][Root]
      BY DEF Looked
    <3>2. PICK y \in Card : shown = media[y][Fat]
      BY <2>9
    <3>3. MadeOn(x, seq.seed) /\ MadeOn(y, shown)
      BY <3>1, <3>2, Nones DEF Own
    <3> QED
      BY <3>1, <3>2, <3>3, OneMaker
  <2>11. Identified(seq, shown)
    <3>1. /\ seq.seed = seq.expected.now[1]
             \/ (seq.touched /\ hand.block = Root /\ Admits(seq.expected.landing, seq.seed))
          /\ shown = seq.expected.now[2]
             \/ (seq.touched /\ hand.block = Fat /\ Admits(seq.expected.landing, shown))
      BY <2>10 DEF Landings, Landed
    <3>2. /\ seq.expected.landing = LandingOf(seq.expected.now, hand)
          /\ seq.block = hand.block
      BY DEF Handed
    <3>3. seq.expected.now \in Content \X Content
      BY <2>1 DEF WriteSeq, Expected
    <3>4. CASE seq.seed = seq.expected.now[1] /\ shown = seq.expected.now[2]
      BY <3>3, <3>4 DEF Identified
    <3>5. CASE seq.touched /\ hand.block = Root /\ Admits(seq.expected.landing, seq.seed)
      <4>1. shown = seq.expected.now[2]
        BY <3>1, <3>5, Nones
      <4>2. seq.expected.landing = [other |-> seq.expected.now[2],
                                    before |-> seq.expected.now[1], after |-> hand.data]
        BY <3>2, <3>5, Nones DEF LandingOf
      <4>3. seq.expected.landing # None
        BY <2>1, <3>3, <4>2, Nones DEF Landing, Save
      <4> QED
        BY <3>2, <3>5, <4>1, <4>2, <4>3 DEF Identified, MidWrite
    <3>6. CASE seq.touched /\ hand.block = Fat /\ Admits(seq.expected.landing, shown)
      <4>1. seq.seed = seq.expected.now[1]
        BY <3>1, <3>6, Nones
      <4>2. seq.expected.landing = [other |-> seq.expected.now[1],
                                    before |-> seq.expected.now[2], after |-> hand.data]
        BY <3>2, <3>6, Nones DEF LandingOf
      <4>3. seq.expected.landing # None
        BY <2>1, <3>3, <4>2, Nones DEF Landing, Save
      <4> QED
        BY <3>2, <3>6, <4>1, <4>2, <4>3 DEF Identified, MidWrite
    <3> QED
      BY <3>1, <3>4, <3>5, <3>6
  <2>12. /\ NoteRead(seq, hand.data, shown).step \in {"Phase", "Recover", "Failed"}
         /\ NoteRead(seq, hand.data, shown) \in WriteSeq
    BY <2>1, <2>8, <2>11, GuardRead, Nones
  <2>13. seq'.step = NoteRead(seq, hand.data, shown).step
    BY <2>7, <2>12 DEF ReadBack, WriteSeq
  <2> QED
    BY <2>12, <2>13
<1> QED
  BY <1>1, Guards, PTL DEF Spec, SameCardPasses

=============================================================================
