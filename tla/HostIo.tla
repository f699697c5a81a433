------------------------------- MODULE HostIo -------------------------------
(***************************************************************************)
(* The VMU storage service (maple-protocol/src/host_vmu_io.rs): what the   *)
(* dongle is owed over `…0003`, which saves are staged for the card, and   *)
(* which generation ("epoch") of the port they belong to.                  *)
(*                                                                         *)
(* The firmware owns one HostIo behind a mutex (src/ble/host_vmu.rs), so   *)
(* every method call is one atomic step.  Two tasks make those calls in    *)
(* any order: the BLE task (what the dongle writes, what is notified to    *)
(* it, session starts) and the poll loop (port presence, idleness, block   *)
(* reads and writes and their verdicts).  This module puts no order on     *)
(* the calls beyond the ones the callers cannot break: the dongle speaks   *)
(* and is spoken to only inside a session.                                 *)
(*                                                                         *)
(* Abstractions.  The queue's eight slots and their staging stamps become  *)
(* the sequence of the slots in use, in stamp order: a Free slot is one    *)
(* the sequence has no room taken by, `min_by_key(stamp)` is "the first".  *)
(* A phase's 128 bytes are one Payload.  The fingerprint of root and FAT   *)
(* is the pair of their contents, so FNV collisions are not modelled.      *)
(* The Stats counters are diagnostics and left out.                        *)
(***************************************************************************)
EXTENDS Integers, FiniteSets, SequencesExt

CONSTANTS
  Block,        \* block numbers of the card
  Root, Fat,    \* ROOT_BLOCK and FAT_BLOCK, whose contents fingerprint the card
  ReadBlock,    \* blocks the dongle asks for
  WriteBlock,   \* blocks the dongle saves
  SeqNo,        \* values of a WRITE's `seq` byte
  Payload,      \* contents of one phase
  Blank,        \* the zeroes of a phase not received yet
  None,         \* Rust's None, and the `card` value 0
  Phases,       \* PHASES: phases in a block
  QueueDepth,   \* QUEUE_DEPTH
  OutboxLen,    \* OUTBOX_LEN
  Seeds,        \* tick counts a first session may read
  EpochMod,     \* 2^32: width of `epoch`
  MaxEpoch      \* bound: no generation ends once `epoch` is here

ASSUME HostIoAssumption ==
  /\ Root \in Block /\ Fat \in Block /\ Root # Fat
  /\ ReadBlock \subseteq Block /\ WriteBlock \subseteq Block
  /\ Phases \in Nat \ {0} /\ QueueDepth \in Nat \ {0} /\ OutboxLen \in Nat
  /\ EpochMod \in Nat \ {0, 1} /\ MaxEpoch \in Nat
  /\ Seeds \subseteq 0..(EpochMod - 1)

Phase   == 0..(Phases - 1)
Content == [Phase -> Payload \cup {Blank}]
Epoch   == 0..(EpochMod - 1)
Fate    == {"OK", "FAILED", "DISCARDED"}
Result  == Fate \cup {"FULL", "NO_VMU", "SUPERSEDED", "BAD"}

Zeroes == [i \in Phase |-> Blank]

Pending == [block : Block, epoch : Epoch, issued : BOOLEAN]
Reply   == [block : Block, result : Fate \cup {"NO_VMU"}, data : Content,
            next : Phase, phases : {1, Phases}]
Entry   == [slot : {"Staged", "Writing"} \cup Fate, block : Block,
            seq : SeqNo, epoch : Epoch, data : Content]
Inbox   == [block : Block, seq : SeqNo, next : Phase, data : Content]
Short   == [op : {"ACK", "WRITTEN"}, block : Block, seq : SeqNo,
            result : Result]

(* `None` is not a value of any of the types it stands beside. *)
ASSUME NoneAssumption ==
  /\ None \notin Content /\ None \notin Content \X Content
  /\ None \notin Pending /\ None \notin Reply

VARIABLES
  outstanding,    \* the READ not answered yet, or None
  reply,          \* the answer being notified, phase by phase, or None
  status_due,
  last_status,    \* what the last STATUS said beside epoch and card, or None
  idle,           \* the pad is idle
  vmu_present,
  epoch,
  card,           \* fingerprint of the docked card, None while unknown
  root,           \* root_seed and root_phases: the root block's contents
  fat,            \* the FAT block's contents
  verified,       \* the guard has vouched for the card
  writes_open,
  writes_paused,
  inbox,          \* the block being assembled, or None
  queue,          \* slots in use, in staging order
  outbox,         \* ACKs, and WRITTENs of superseded saves
  session,        \* a BLE session runs (the caller's state)
  heard,          \* ghost: epoch and card of this session's last STATUS
  paid            \* ghost: flips with each WRITTEN delivered

readVars  == <<outstanding, reply>>
statVars  == <<status_due, last_status, heard>>
cardVars  == <<epoch, card, root, fat, verified>>
gateVars  == <<writes_open, writes_paused>>
portVars  == <<idle, vmu_present>>
writeVars == <<inbox, queue, outbox, paid>>
vars == <<readVars, statVars, cardVars, gateVars, portVars, writeVars, session>>

-----------------------------------------------------------------------------
(* What the state says. *)

Live(e) == e.slot \in {"Staged", "Writing"}

InSlot(slots) == {i \in DOMAIN queue : queue[i].slot \in slots}

IsFirst(i, S) == i \in S /\ \A j \in S : i <= j

Draining == InSlot({"Staged", "Writing"}) # {}

Admitting == writes_open /\ ~writes_paused /\ card # None

QueueFree == IF Admitting THEN QueueDepth - Len(queue) ELSE 0

Snapshot == [present |-> vmu_present, idle |-> idle, draining |-> Draining,
             free |-> QueueFree]

StatusPending == status_due \/ last_status # Snapshot

Fingerprint(r, f) == IF r # None /\ f # None THEN <<r, f>> ELSE None

Terminal(b, result) == [block |-> b, result |-> result, data |-> Zeroes,
                        next |-> 0, phases |-> 1]

Init ==
  /\ outstanding = None /\ reply = None
  /\ status_due = FALSE /\ last_status = None /\ heard = None
  /\ idle = FALSE /\ vmu_present = FALSE
  /\ epoch = 0 /\ card = None /\ root = None /\ fat = None
  /\ verified = FALSE
  /\ writes_open = FALSE /\ writes_paused = FALSE
  /\ inbox = None /\ queue = <<>> /\ outbox = <<>> /\ paid = FALSE
  /\ session = FALSE

-----------------------------------------------------------------------------
(* Session and admission. *)

OpenWrites ==
  /\ writes_open' = TRUE
  /\ UNCHANGED <<readVars, statVars, cardVars, writes_paused, portVars,
                 writeVars, session>>

(* Closes admission for a gesture that ends the session.  With saves still
   draining the call refuses and changes nothing. *)
PauseWritesUnlessDraining ==
  /\ ~Draining
  /\ writes_paused' = TRUE
  /\ UNCHANGED <<readVars, statVars, cardVars, writes_open, portVars,
                 writeVars, session>>

(* Mutant: the outbox is cleared. *)
WithoutAny == <<>>

(* The WRITTENs among the first n messages of q, in their order. *)
Writtens(q) ==
  LET due[n \in 0..Len(q)] ==
        IF n = 0 THEN <<>>
        ELSE IF q[n].op = "WRITTEN" THEN Append(due[n - 1], q[n])
        ELSE due[n - 1]
  IN  due

(* The outbox without its ACKs: `retain(WRITTEN)`. *)
WithoutAcks == Writtens(outbox)[Len(outbox)]

DropHost ==
  /\ outstanding' = None /\ reply' = None /\ inbox' = None
  /\ status_due' = FALSE
  /\ outbox' = WithoutAcks
  /\ UNCHANGED <<queue, last_status, paid>>

(* A session starts: `reset`, with the seed of a power cycle's first one. *)
Reset(seed) ==
  /\ ~session
  /\ session' = TRUE /\ heard' = None
  /\ writes_paused' = FALSE
  /\ epoch' = IF epoch # 0 THEN epoch ELSE IF seed = 0 THEN 1 ELSE seed
  /\ DropHost
  /\ UNCHANGED <<card, root, fat, verified, writes_open, portVars>>

(* The BLE link is gone.  The service hears of it later, from the poll loop's
   link_down or from the next session's reset. *)
SessionEnds ==
  /\ session
  /\ session' = FALSE /\ heard' = None
  /\ UNCHANGED <<readVars, status_due, last_status, cardVars, gateVars,
                 portVars, writeVars>>

LinkDown ==
  /\ ~session
  /\ DropHost
  /\ UNCHANGED <<heard, cardVars, gateVars, portVars, session>>

-----------------------------------------------------------------------------
(* From the dongle. *)

NoReadUnanswered == outstanding = None /\ reply = None

(* One READ at a time: asked while another is unanswered, it is dropped. *)
AcceptRead(b) ==
  /\ session
  /\ NoReadUnanswered
  /\ \/ /\ vmu_present
        /\ outstanding' = [block |-> b, epoch |-> epoch, issued |-> FALSE]
        /\ UNCHANGED reply
     \/ /\ ~vmu_present
        /\ reply' = Terminal(b, "NO_VMU")
        /\ UNCHANGED outstanding
  /\ UNCHANGED <<statVars, cardVars, gateVars, portVars, writeVars, session>>

(* A STATUS_Q write, or a subscription to `…0003`. *)
StatusAsked ==
  /\ session
  /\ status_due' = TRUE
  /\ UNCHANGED <<readVars, last_status, heard, cardVars, gateVars, portVars,
                 writeVars, session>>

ShortMsg(op, b, s, result) ==
  [op |-> op, block |-> b, seq |-> s, result |-> result]

Sent(msg) == IF Len(outbox) < OutboxLen THEN Append(outbox, msg) ELSE outbox

Refuse(b, s, result) ==
  /\ outbox' = Sent(ShortMsg("ACK", b, s, result))
  /\ UNCHANGED queue

(* Mutant: a save already written is not recognised. *)
LiveDuplicates(b, s) ==
  {i \in DOMAIN queue : /\ Live(queue[i]) /\ queue[i].epoch = epoch
                        /\ queue[i].block = b /\ queue[i].seq = s}

(* The slots a WRITE of block b under seq s is a resend of... *)
Duplicates(b, s) ==
  {i \in DOMAIN queue : /\ queue[i].epoch = epoch
                        /\ queue[i].block = b /\ queue[i].seq = s}

(* ...and the ones it replaces. *)
Replaceable(b) == {i \in InSlot({"Staged"}) : queue[i].block = b}

CommitRefused(x) ==
  \/ ~vmu_present /\ Refuse(x.block, x.seq, "NO_VMU")
  \/ vmu_present /\ ~Admitting /\ Refuse(x.block, x.seq, "FULL")
  \/ /\ vmu_present /\ Admitting
     /\ Duplicates(x.block, x.seq) = {} /\ Replaceable(x.block) = {}
     /\ Len(queue) = QueueDepth
     /\ Refuse(x.block, x.seq, "FULL")

CommitAgain(x) ==
  /\ vmu_present /\ Admitting
  /\ Duplicates(x.block, x.seq) # {}
  /\ outbox' = Sent(ShortMsg("ACK", x.block, x.seq, "OK"))
  /\ UNCHANGED queue

CoalescedAnswers(b, old, s) ==
  <<ShortMsg("WRITTEN", b, old, "SUPERSEDED"), ShortMsg("ACK", b, s, "OK")>>

(* The newer seq takes the older one's slot: both messages, or the WRITE is
   dropped unanswered. *)
CommitCoalesced(x) ==
  /\ vmu_present /\ Admitting
  /\ Duplicates(x.block, x.seq) = {}
  /\ \E i \in DOMAIN queue :
       /\ IsFirst(i, Replaceable(x.block))
       /\ \/ /\ Len(outbox) + 2 <= OutboxLen
             /\ queue' = [queue EXCEPT ![i].seq = x.seq, ![i].data = x.data]
             /\ outbox' =
                  outbox \o CoalescedAnswers(x.block, queue[i].seq, x.seq)
          \/ /\ Len(outbox) + 2 > OutboxLen
             /\ UNCHANGED <<queue, outbox>>

CommitStaged(x) ==
  /\ vmu_present /\ Admitting
  /\ Duplicates(x.block, x.seq) = {} /\ Replaceable(x.block) = {}
  /\ Len(queue) < QueueDepth
  /\ \/ /\ Len(outbox) < OutboxLen
        /\ queue' = Append(queue, [slot |-> "Staged", block |-> x.block,
                                   seq |-> x.seq, epoch |-> epoch,
                                   data |-> x.data])
        /\ outbox' = Append(outbox, ShortMsg("ACK", x.block, x.seq, "OK"))
     \/ /\ Len(outbox) = OutboxLen
        /\ UNCHANGED <<queue, outbox>>

Commit(x) ==
  CommitRefused(x) \/ CommitAgain(x) \/ CommitCoalesced(x) \/ CommitStaged(x)

(* Mutant: phase 0 of a new block keeps the old one's count. *)
OpenedOver(b, ph, s) ==
  IF ph = 0
  THEN [block |-> b, seq |-> s, data |-> Zeroes,
        next |-> IF inbox = None THEN 0 ELSE inbox.next]
  ELSE inbox

(* The inbox once a phase's header has been looked at: phase 0 opens a block. *)
Opened(b, ph, s) ==
  IF ph = 0 THEN [block |-> b, seq |-> s, next |-> 0, data |-> Zeroes]
            ELSE inbox

InOrder(b, ph, s) ==
  LET x == Opened(b, ph, s)
  IN  /\ ph \in Phase
      /\ x # None
      /\ x.block = b /\ x.seq = s
      /\ ph <= x.next

(* One `02 WRITE` phase; `Phases` stands for every phase out of range. *)
AcceptPhase(b, ph, s, p) ==
  /\ session
  /\ \/ /\ ~InOrder(b, ph, s)
        /\ inbox' = None
        /\ Refuse(b, s, "BAD")
     \/ /\ InOrder(b, ph, s)
        /\ LET x == [Opened(b, ph, s) EXCEPT !.data[ph] = p]
           IN  \/ /\ ph < x.next
                  /\ inbox' = x
                  /\ UNCHANGED <<queue, outbox>>
               \/ /\ ph = x.next /\ ph + 1 < Phases
                  /\ inbox' = [x EXCEPT !.next = ph + 1]
                  /\ UNCHANGED <<queue, outbox>>
               \/ /\ ph = x.next /\ ph + 1 = Phases
                  /\ inbox' = None
                  /\ Commit(x)
  /\ UNCHANGED <<readVars, statVars, cardVars, gateVars, portVars, session,
                 paid>>

-----------------------------------------------------------------------------
(* To the dongle: one notification accepted by the radio, in the priority of
   next_message.  A notification that is not accepted changes nothing. *)

NotifyStatus ==
  /\ session /\ StatusPending
  /\ status_due' = FALSE
  /\ last_status' = Snapshot
  /\ heard' = [epoch |-> epoch, card |-> card]
  /\ UNCHANGED <<readVars, cardVars, gateVars, portVars, writeVars, session>>

NotifyShort ==
  /\ session /\ ~StatusPending
  /\ outbox # <<>>
  /\ outbox' = Tail(outbox)
  /\ paid' = IF Head(outbox).op = "WRITTEN" THEN ~paid ELSE paid
  /\ UNCHANGED <<readVars, statVars, cardVars, gateVars, portVars, inbox,
                 queue, session>>

(* The slot's last duty: its WRITTEN is delivered and it is Free. *)
NotifyWritten ==
  /\ session /\ ~StatusPending
  /\ outbox = <<>>
  /\ \E i \in DOMAIN queue : /\ IsFirst(i, InSlot(Fate))
                             /\ queue' = RemoveAt(queue, i)
  /\ paid' = ~paid
  /\ UNCHANGED <<readVars, statVars, cardVars, gateVars, portVars, inbox,
                 outbox, session>>

NotifyData ==
  /\ session /\ ~StatusPending
  /\ outbox = <<>> /\ InSlot(Fate) = {}
  /\ reply # None
  /\ reply' = IF reply.next + 1 >= reply.phases THEN None
              ELSE [reply EXCEPT !.next = @ + 1]
  /\ UNCHANGED <<outstanding, statVars, cardVars, gateVars, portVars,
                 writeVars, session>>

-----------------------------------------------------------------------------
(* From the poll loop. *)

SetIdle(i) ==
  /\ idle # i
  /\ idle' = i
  /\ status_due' = TRUE
  /\ UNCHANGED <<readVars, last_status, heard, cardVars, gateVars,
                 vmu_present, writeVars, session>>

(* Mutant: a reply half-notified is dropped, the bug of 2026-09-18. *)
DiscardedOutstanding ==
  IF outstanding # None THEN Terminal(outstanding.block, "DISCARDED")
  ELSE None

DiscardedRead ==
  IF outstanding # None THEN Terminal(outstanding.block, "DISCARDED")
  ELSE IF reply # None THEN Terminal(reply.block, "DISCARDED")
  ELSE None

(* Mutant: the block in the writer's hands is left there. *)
DiscardStaged(q) ==
  [i \in DOMAIN q |-> IF q[i].slot = "Staged"
                      THEN [q[i] EXCEPT !.slot = "DISCARDED"] ELSE q[i]]

DiscardLive(q) ==
  [i \in DOMAIN q |-> IF Live(q[i]) THEN [q[i] EXCEPT !.slot = "DISCARDED"]
                                    ELSE q[i]]

(* end_generation, over the queue q as the caller left it. *)
EndGeneration(q) ==
  /\ epoch < MaxEpoch
  /\ epoch' = (epoch + 1) % EpochMod
  /\ card' = None /\ root' = None /\ fat' = None /\ verified' = FALSE
  /\ status_due' = TRUE
  /\ inbox' = None
  /\ outstanding' = None /\ reply' = DiscardedRead
  /\ queue' = DiscardLive(q)
  /\ UNCHANGED <<last_status, heard, gateVars, idle, outbox, session, paid>>

SetVmuPresent(p) ==
  /\ vmu_present # p
  /\ vmu_present' = p
  /\ EndGeneration(queue)

TakeRequest ==
  /\ idle /\ vmu_present
  /\ outstanding # None /\ ~outstanding.issued
  /\ outstanding' = [outstanding EXCEPT !.issued = TRUE]
  /\ UNCHANGED <<reply, statVars, cardVars, gateVars, portVars, writeVars,
                 session>>

Recall ==
  /\ ~idle
  /\ outstanding # None /\ outstanding.issued
  /\ outstanding' = [outstanding EXCEPT !.issued = FALSE]
  /\ UNCHANGED <<reply, statVars, cardVars, gateVars, portVars, writeVars,
                 session>>

(* Mutant: the fingerprint is taken before the halves are. *)
FingerprintLate == Fingerprint(root, fat)

Recomputed == Fingerprint(root', fat')

(* Mutant: the fingerprint moves and no STATUS says so. *)
CardMovesQuietly(now) == card' = now /\ UNCHANGED status_due

CardMoves(now) ==
  /\ card' = now
  /\ status_due' = (status_due \/ now # card)

(* The fingerprint's halves after block b is known to hold d; `card` moves
   with them, and a STATUS is due when it moves. *)
NoteContents(b, d) ==
  /\ root' = IF b = Root THEN d ELSE root
  /\ fat' = IF b = Fat THEN d ELSE fat
  /\ CardMoves(Recomputed)
  /\ UNCHANGED <<epoch, verified, last_status, heard>>

(* A block came back from the card, perhaps one that an earlier session asked
   for: nothing here ties it to an issued request.  It answers the outstanding
   READ if that asks for it under this generation, and is dropped otherwise. *)
PublishBlock(b, d) ==
  /\ outstanding # None
  /\ outstanding.block = b /\ outstanding.epoch = epoch
  /\ outstanding' = None
  /\ NoteContents(b, d)
  /\ reply' = [block |-> b, result |-> "OK", data |-> d, next |-> 0,
               phases |-> Phases]
  /\ UNCHANGED <<gateVars, portVars, writeVars, session>>

PublishFailure(b) ==
  /\ outstanding # None /\ outstanding.block = b
  /\ outstanding' = None
  /\ reply' = Terminal(b, "FAILED")
  /\ UNCHANGED <<statVars, cardVars, gateVars, portVars, writeVars, session>>

(* Mutant: the writer is handed a second block before it has decided one. *)
MayWriteTwice == vmu_present

(* Mutant: writes wait for the pad to be idle, as reads do. *)
MayWriteIdle == idle /\ vmu_present /\ InSlot({"Writing"}) = {}

MayWrite == vmu_present /\ InSlot({"Writing"}) = {}

TakeWrite ==
  /\ MayWrite
  /\ \E i \in DOMAIN queue :
       /\ IsFirst(i, {j \in InSlot({"Staged"}) : queue[j].epoch = epoch})
       /\ queue' = [queue EXCEPT ![i].slot = "Writing"]
  /\ UNCHANGED <<readVars, statVars, cardVars, gateVars, portVars, inbox,
                 outbox, session, paid>>

(* The slot in the writer's hands under this generation, for block b. *)
Writing(b) ==
  {i \in InSlot({"Writing"}) : queue[i].block = b /\ queue[i].epoch = epoch}

PublishWritten(b) ==
  /\ \E i \in DOMAIN queue :
       /\ IsFirst(i, Writing(b))
       /\ queue' = [queue EXCEPT ![i].slot = "OK"]
       /\ NoteContents(b, queue[i].data)
  /\ UNCHANGED <<readVars, gateVars, portVars, inbox, outbox, session, paid>>

PublishWriteFailed(b) ==
  /\ \E i \in DOMAIN queue :
       /\ IsFirst(i, Writing(b))
       /\ EndGeneration([queue EXCEPT ![i].slot = "FAILED"])
  /\ UNCHANGED vmu_present

PublishUnidentified(b) ==
  /\ Writing(b) # {}
  /\ EndGeneration(queue)
  /\ UNCHANGED vmu_present

(* The guard passes only on behalf of the block in the writer's hands. *)
NoteCardVerified ==
  /\ \E b \in Block : Writing(b) # {}
  /\ verified' = TRUE
  /\ UNCHANGED <<readVars, statVars, epoch, card, root, fat, gateVars,
                 portVars, writeVars, session>>

NoteEnumerated ==
  /\ verified' = FALSE
  /\ UNCHANGED <<readVars, statVars, epoch, card, root, fat, gateVars,
                 portVars, writeVars, session>>

-----------------------------------------------------------------------------
Dongle ==
  \/ \E b \in ReadBlock : AcceptRead(b)
  \/ StatusAsked
  \/ \E b \in WriteBlock, ph \in 0..Phases, s \in SeqNo, p \in Payload :
       AcceptPhase(b, ph, s, p)

Notify == NotifyStatus \/ NotifyShort \/ NotifyWritten \/ NotifyData

Verdict ==
  \E b \in WriteBlock :
    PublishWritten(b) \/ PublishWriteFailed(b) \/ PublishUnidentified(b)

Answer ==
  \E b \in ReadBlock :
    \/ \E d \in [Phase -> Payload] : PublishBlock(b, d)
    \/ PublishFailure(b)

BleTask ==
  \/ \E seed \in Seeds : Reset(seed)
  \/ SessionEnds
  \/ PauseWritesUnlessDraining
  \/ Dongle
  \/ Notify

PollLoop ==
  \/ OpenWrites
  \/ LinkDown
  \/ \E i \in BOOLEAN : SetIdle(i)
  \/ \E p \in BOOLEAN : SetVmuPresent(p)
  \/ TakeRequest \/ Recall \/ Answer
  \/ TakeWrite \/ Verdict
  \/ NoteCardVerified \/ NoteEnumerated

Next == BleTask \/ PollLoop

Spec == Init /\ [][Next]_vars

(* A dongle that keeps to the protocol sends its next WRITE after the ACK of
   the last.  One that does not can hold every WRITTEN back behind refusals. *)
PoliteNext ==
  \/ outbox = <<>> /\ Dongle
  \/ \E seed \in Seeds : Reset(seed)
  \/ SessionEnds \/ PauseWritesUnlessDraining \/ Notify
  \/ PollLoop

(* The BLE task notifies up to four messages a tick, so a message it has to
   send is sent although a STATUS overtakes it from time to time or a link
   drops; the poll loop asks for a write and serves the writer in every window;
   the dongle comes back. *)
Fairness ==
  /\ SF_vars(NotifyStatus) /\ SF_vars(NotifyShort)
  /\ SF_vars(NotifyWritten) /\ SF_vars(NotifyData)
  /\ WF_vars(TakeWrite) /\ WF_vars(Verdict)
  /\ WF_vars(\E seed \in Seeds : Reset(seed))

LiveSpec == Init /\ [][PoliteNext]_vars /\ Fairness

-----------------------------------------------------------------------------
(* Properties. *)

(* Every variable has its type; the outbox and the queue keep within their
   arrays. *)
TypeOK ==
  /\ outstanding \in Pending \cup {None}
  /\ reply \in Reply \cup {None}
  /\ status_due \in BOOLEAN
  /\ last_status \in [present : BOOLEAN, idle : BOOLEAN, draining : BOOLEAN,
                      free : 0..QueueDepth] \cup {None}
  /\ idle \in BOOLEAN /\ vmu_present \in BOOLEAN
  /\ epoch \in Epoch
  /\ card \in (Content \X Content) \cup {None}
  /\ root \in Content \cup {None} /\ fat \in Content \cup {None}
  /\ verified \in BOOLEAN
  /\ writes_open \in BOOLEAN /\ writes_paused \in BOOLEAN
  /\ inbox \in Inbox \cup {None}
  /\ queue \in Seq(Entry) /\ Len(queue) <= QueueDepth
  /\ outbox \in Seq(Short) /\ Len(outbox) <= OutboxLen
  /\ session \in BOOLEAN /\ paid \in BOOLEAN
  /\ heard \in [epoch : Epoch, card : (Content \X Content) \cup {None}]
                 \cup {None}

(* A save still to be written belongs to the card that is docked and known:
   "Every live entry is of the current one" (Entry::epoch).  An entry that
   slipped through would be drained onto whatever card is docked next. *)
LiveOfThisCard ==
  \A i \in DOMAIN queue :
    Live(queue[i]) => /\ queue[i].epoch = epoch
                      /\ vmu_present /\ card # None

(* What the service says it knows of the card was read from or written to the
   one docked now, and `card` always describes both halves as they stand. *)
CardAsDocked ==
  /\ root # None \/ fat # None => vmu_present
  /\ card = Fingerprint(root, fat)
  /\ verified => card # None

(* Saves are finished in the order they were first staged, one at a time, so
   a directory block is never on the card before the data it points to. *)
DrainInOrder ==
  \A i, j \in DOMAIN queue :
    i < j => /\ queue[j].slot = "Staged" \/ ~Live(queue[i])
             /\ queue[j].slot # "Writing" \/ queue[i].slot # "Writing"

(* A resend is recognised as long as its WRITTEN is owed: no two slots of one
   generation hold the same block and seq. *)
OneSlotPerSave ==
  \A i, j \in DOMAIN queue :
    /\ queue[i].epoch = queue[j].epoch
    /\ queue[i].block = queue[j].block
    /\ queue[i].seq = queue[j].seq
    => i = j

(* A READ is owed in one place, under this generation, and data is only ever
   an answer from a card still docked. *)
ReadInOnePlace ==
  /\ outstanding = None \/ reply = None
  /\ outstanding # None => vmu_present /\ outstanding.epoch = epoch
  /\ reply # None /\ reply.result = "OK" => vmu_present

(* Admission closed for a gesture stays closed over an empty drain: nothing
   is acked between the gesture's check and the drop it leads to. *)
PausedMeansDrained == writes_paused => ~Draining

(* The dongle takes an unchanged epoch and card for "nothing was lost": with
   no STATUS due it has been told the ones that hold now. *)
HeardIsCurrent ==
  heard # None /\ ~status_due => heard = [epoch |-> epoch, card |-> card]

(* A block is staged whole: no phase of it is the zeroes it was opened with. *)
StagedWhole ==
  \A i \in DOMAIN queue : queue[i].data \in [Phase -> Payload]

(* The block of the READ the dongle waits on. *)
ReadOwed == IF outstanding # None THEN outstanding.block
            ELSE IF reply # None THEN reply.block ELSE None

(* Within a session a READ is never forgotten: it stops being owed when the
   last message of its answer has gone out, whatever ends its generation. *)
ReadNeverForgotten ==
  [][ReadOwed # None /\ session /\ session' =>
       \/ ReadOwed' = ReadOwed
       \/ reply # None /\ reply.next + 1 >= reply.phases /\ NotifyData]_vars

(* Every acknowledged save is decided and its WRITTEN delivered: no slot stays
   in use for ever, however often the link drops or the card is pulled. *)
EverySaveAnswered ==
  \A b \in WriteBlock, s \in SeqNo, e \in Epoch :
    LET held == \E i \in DOMAIN queue : /\ queue[i].block = b
                                        /\ queue[i].seq = s
                                        /\ queue[i].epoch = e
    IN  held ~> ~held

(* The ledger's view: a slot without its data and generation, and the
   WRITTENs the outbox holds. *)
Saves ==
  [i \in DOMAIN queue |-> [block |-> queue[i].block, seq |-> queue[i].seq,
                           fate |-> queue[i].slot]]

Superseded ==
  LET due == Writtens(outbox)[Len(outbox)]
  IN  [i \in DOMAIN due |-> [block |-> due[i].block, seq |-> due[i].seq]]

Ledger == INSTANCE SaveLedger WITH saves <- Saves, superseded <- Superseded

(* Across disconnects, resets, undocks and full outboxes, every acknowledged
   save gets exactly one WRITTEN, with the fate it met. *)
KeepsLedger == Ledger!Spec
=============================================================================
