------------------------------ MODULE ReadPath ------------------------------
(***************************************************************************)
(* Block reads from request to answer: the reader (ReadPipeline), the      *)
(* schedule that gives it windows (ReadSched), and the poll loop           *)
(* (src/main.rs) that runs both, hands the blocks to the two that ask for  *)
(* them, and draws on the card's display in between.                       *)
(*                                                                         *)
(* The two are the storage service, of which only what the loop asks it is *)
(* here (HostIo has the rest), and the block writer, of which only what it *)
(* asks the loop for is here (WriteSeq has what it makes of the answers).  *)
(*                                                                         *)
(* Within a pass the loop awaits only in turn "Rest" and around a probe;   *)
(* the dongle acts in the former.  Assumption: a link's end is seen by at  *)
(* least one pass before the next session starts, so a session starts with *)
(* no READ in the reader.                                                  *)
(***************************************************************************)
EXTENDS ReadPipeline, ReadSched

VARIABLES
  reader,
  sched,
  outstanding,   \* the service's READ, or None
  published,     \* presence as the service last heard it
  idle,          \* the pad is idle, as the service last heard it
  writing,       \* the service names the writer's block as its own
  writer,        \* what the writer does with its block, or None
  present,       \* vmu_present: presence as the loop's probe has it
  dirty,         \* vmu_frame_dirty
  gap,           \* heads since the last frame
  turn           \* where the loop is in its pass

serviceVars == <<outstanding, published, idle, writing>>
displayVars == <<present, dirty, gap>>
vars == <<reader, sched, serviceVars, writer, displayVars, turn>>

Turn    == {"Head", "Ready", "Failed", "Owners", "Ask", "Window", "Poll", "Rest"}
Pending == [block : Block, issued : BOOLEAN]

(* "Send" wants a window, "Read" an answer, the others are verdicts. *)
Write == [step : {"Send", "Read", "Written", "Refused"}, block : Block,
          asked : BOOLEAN]

ASSUME NothingAssumption == None \notin Pending \cup Write

(* The queue has room for both owners; QUEUE_LEN is 32. *)
ASSUME RoomAssumption == QueueLen >= 2

Init ==
  /\ reader = NewReader /\ sched = NewSched
  /\ outstanding = None /\ published = FALSE /\ idle = FALSE
  /\ writing = FALSE /\ writer = None
  /\ present = FALSE /\ dirty = TRUE /\ gap = GapHeads
  /\ turn = "Head"

(* end_generation, as far as reads go: the service's READ is DISCARDED, no
   block is the writer's, and nothing captured speaks of the card any more. *)
EndGeneration(r) ==
  /\ outstanding' = None /\ writing' = FALSE
  /\ reader' = Aged(r)

(* The dongle. *)
HostAsks(b) ==
  /\ turn = "Rest"
  /\ published /\ outstanding = None
  /\ outstanding' = [block |-> b, issued |-> FALSE]
  /\ UNCHANGED <<reader, sched, published, idle, writing, writer, displayVars,
                 turn>>

-----------------------------------------------------------------------------
(* The head of a window. *)

(* Mutant: what is latched is applied where something seems to have changed,
   and nowhere else; the shape shipped until 2026-09-18. *)
NotAsked(r) == {r}

(* "So the caller must ask unconditionally, once per window." *)
AskedEveryWindow(r) == Service(r)

(* The pass begins: a link lost since the last takes the host's reads with it,
   presence and idleness are published, and a block that is no longer the
   writer's is abandoned. *)
Begin(lost) ==
  /\ turn = "Head" /\ turn' = "Ready"
  /\ \E r \in AskedEveryWindow(IF lost THEN ClearHost(reader) ELSE reader) :
       IF present # published THEN EndGeneration(r)
       ELSE /\ reader' = r
            /\ outstanding' = IF lost THEN None ELSE outstanding
            /\ UNCHANGED writing
  /\ sched' = IF lost THEN Cancel(sched) ELSE sched
  /\ published' = present
  /\ idle' \in BOOLEAN
  /\ writer' = IF writing' THEN writer ELSE None
  /\ UNCHANGED displayVars

(* A block, or the news that it cannot be read, goes to its owner.  The writer
   reads again, sends, or has a verdict. *)
Deliver(o, b) ==
  \/ /\ o = "Host"
     /\ outstanding' = IF outstanding # None /\ outstanding.block = b
                       THEN None ELSE outstanding
     /\ UNCHANGED writer
  \/ /\ o = "Writer"
     /\ IF writer # None /\ writer.step = "Read" /\ writer.block = b
        THEN writer' \in {w \in Write : ~w.asked}
        ELSE UNCHANGED writer
     /\ UNCHANGED outstanding

DeliverReady ==
  /\ turn = "Ready" /\ turn' = "Failed"
  /\ \/ /\ reader.ready # None
        /\ Deliver(reader.ready.owner, reader.ready.block)
        /\ reader' \in TakeReady(reader)
     \/ /\ reader.ready = None
        /\ UNCHANGED <<reader, outstanding, writer>>
  /\ UNCHANGED <<sched, published, idle, writing, displayVars>>

Failing == {o \in Owner : reader.failed[o] # None}

(* take_failed until there is none, the writer's first. *)
DeliverFailed ==
  /\ turn = "Failed" /\ turn' = "Failed"
  /\ \E o \in Failing :
       /\ "Writer" \in Failing => o = "Writer"
       /\ Deliver(o, reader.failed[o])
       /\ reader' = [reader EXCEPT !.failed[o] = None]
  /\ UNCHANGED <<sched, published, idle, writing, displayVars>>

NoneFailed ==
  /\ turn = "Failed" /\ turn' = "Owners"
  /\ Failing = {}
  /\ UNCHANGED <<reader, sched, serviceVars, writer, displayVars>>

(* Mutant: the host's capture survives the verdict that ends its generation. *)
HostKept(r) == r

HostCleared(r) == ClearHost(r)

(* The writer's turn: a read handed to the reader, or the verdict taken. *)
ServeWriter ==
  /\ turn = "Owners" /\ turn' = "Ask"
  /\ \/ /\ writer # None /\ writer.step = "Read"
        /\ IF ~writer.asked /\ HasRoom(reader)
           THEN /\ reader' = RequestVerify(reader, writer.block)
                /\ writer' = [writer EXCEPT !.asked = TRUE]
           ELSE UNCHANGED <<reader, writer>>
        /\ UNCHANGED <<outstanding, writing>>
     \/ /\ writer # None /\ writer.step = "Written"
        /\ writer' = None /\ writing' = FALSE
        /\ UNCHANGED <<reader, outstanding>>
     \/ /\ writer # None /\ writer.step = "Refused"
        /\ writer' = None
        /\ EndGeneration(HostCleared(reader))
     \/ /\ writer # None => writer.step = "Send"
        /\ UNCHANGED <<reader, outstanding, writing, writer>>
  /\ UNCHANGED <<sched, published, idle, displayVars>>

(* take_write and begin: the guard's enumeration or the first phase is next. *)
BeginWrite(b) ==
  /\ turn = "Ask"
  /\ published /\ writer = None
  /\ writing' = TRUE
  /\ writer' = [step |-> "Send", block |-> b, asked |-> FALSE]
  /\ UNCHANGED <<reader, sched, outstanding, published, idle, displayVars,
                 turn>>

(* recall and clear_host, or take_request and request.  Were the queue full,
   the second recall would find the pad idle and do nothing. *)
ServeHost ==
  /\ turn = "Ask" /\ turn' = "Window"
  /\ \/ /\ outstanding # None /\ outstanding.issued /\ ~idle
        /\ outstanding' = [outstanding EXCEPT !.issued = FALSE]
        /\ reader' = ClearHost(reader)
     \/ /\ outstanding # None /\ ~outstanding.issued /\ idle /\ published
        /\ outstanding' = [outstanding EXCEPT !.issued = TRUE]
        /\ reader' = IF HasRoom(reader)
                     THEN Request(reader, outstanding.block) ELSE reader
     \/ /\ outstanding # None => outstanding.issued = idle
        /\ UNCHANGED <<outstanding, reader>>
  /\ UNCHANGED <<sched, published, idle, writing, writer, displayVars>>

-----------------------------------------------------------------------------
(* The window: a transaction of the writer's, a read, or the controller poll. *)

WantsWindow == writer # None /\ writer.step = "Send"

Remaining == WantsWindow \/ reader.queue # <<>>

Granted == IsRead(sched, present, Remaining, gap, PipelineBusy(reader))

ReadWindow ==
  /\ turn = "Window" /\ turn' = "Rest"
  /\ Granted
  /\ sched' = NoteIssued(sched)
  /\ \/ /\ WantsWindow
        /\ writer' \in {w \in Write : ~w.asked /\ w.step # "Written"}
        /\ UNCHANGED reader
     \/ /\ ~WantsWindow
        /\ reader' \in Captured(reader)
        /\ UNCHANGED writer
  /\ gap' = IF gap < GapHeads THEN gap + 1 ELSE gap
  /\ UNCHANGED <<serviceVars, present, dirty>>

PollWindow ==
  /\ turn = "Window" /\ turn' = "Poll"
  /\ ~Granted
  /\ sched' = Windowed(sched, present, Remaining, gap)
  /\ gap' = IF gap < GapHeads THEN gap + 1 ELSE gap
  /\ UNCHANGED <<reader, serviceVars, writer, present, dirty>>

(* The controller answered.  Its probe may move presence, which voids all that
   is in the reader; then a frame that is due goes out if the gate is open. *)
Polled ==
  /\ turn = "Poll" /\ turn' = "Rest"
  /\ present' \in BOOLEAN
  /\ reader' = IF present' # present THEN Cleared(reader) ELSE reader
  /\ \E due \in {dirty, TRUE} :
       IF present' /\ due /\ FrameGate(sched)
       THEN dirty' = FALSE /\ gap' = 0
       ELSE dirty' = due /\ UNCHANGED gap
  /\ UNCHANGED <<sched, serviceVars, writer>>

(* It did not. *)
PollMissed ==
  /\ turn = "Poll" /\ turn' = "Rest"
  /\ UNCHANGED <<reader, sched, serviceVars, writer, displayVars>>

(* It did not for so long that the controller, and the card with it, is taken
   for gone: the service is told before the search for it begins. *)
ControllerLost ==
  /\ turn = "Poll" /\ turn' = "Rest"
  /\ present' = FALSE /\ dirty' = TRUE /\ idle' = FALSE
  /\ published' = FALSE
  /\ IF published THEN EndGeneration(Cleared(reader))
     ELSE reader' = Cleared(reader) /\ UNCHANGED <<outstanding, writing>>
  /\ UNCHANGED <<sched, writer, gap>>

(* What is left of the window goes to the decoder, slice by slice. *)
Decoded ==
  /\ turn = "Rest"
  /\ reader.decoding # None
  /\ reader' \in Finished(reader)
  /\ UNCHANGED <<sched, serviceVars, writer, displayVars, turn>>

Pace ==
  /\ turn = "Rest" /\ turn' = "Head"
  /\ UNCHANGED <<reader, sched, serviceVars, writer, displayVars>>

(* The loop is left for want of a link; the next session finds all new.  The
   port counts as changed. *)
Leave ==
  /\ turn = "Head"
  /\ reader' = NewReader /\ sched' = NewSched /\ writer' = None
  /\ outstanding' = None /\ published' = FALSE /\ writing' = FALSE
  /\ idle' = FALSE /\ present' = FALSE /\ dirty' = TRUE /\ gap' = GapHeads
  /\ UNCHANGED turn

-----------------------------------------------------------------------------
Loop ==
  \/ Begin(FALSE)
  \/ DeliverReady \/ DeliverFailed \/ NoneFailed
  \/ ServeWriter \/ ServeHost
  \/ ReadWindow \/ PollWindow
  \/ Polled \/ PollMissed \/ ControllerLost
  \/ Pace

Next ==
  \/ Loop
  \/ \E b \in Block : HostAsks(b) \/ BeginWrite(b)
  \/ Begin(TRUE) \/ Decoded \/ Leave

Spec == Init /\ [][Next]_vars

(* The loop never stops; a decode is given slices until it ends; a controller
   that answers now and then is one the loop goes on serving. *)
LiveSpec ==
  /\ Spec
  /\ WF_vars(Loop) /\ SF_vars(Decoded) /\ SF_vars(Polled)

-----------------------------------------------------------------------------
(* Properties. *)

(* Every variable has its type; no request has more tries than it gets. *)
TypeOK ==
  /\ reader \in Reader /\ Len(reader.queue) <= QueueLen
  /\ sched \in Sched
  /\ outstanding \in Pending \cup {None}
  /\ published \in BOOLEAN /\ idle \in BOOLEAN /\ writing \in BOOLEAN
  /\ writer \in Write \cup {None}
  /\ present \in BOOLEAN /\ dirty \in BOOLEAN /\ gap \in 0..GapHeads
  /\ turn \in Turn

(* The block each owner waits for, or None. *)
WaitsFor(o) ==
  IF o = "Host"
  THEN IF outstanding # None /\ outstanding.issued THEN outstanding.block
       ELSE None
  ELSE IF writer # None /\ writer.step = "Read" /\ writer.asked
       THEN writer.block ELSE None

(* What an owner waits for is in exactly one place of the pipeline, and what
   nobody waits for is nowhere in it: "a single slot lost one of the two, and
   the writer stranded in its verify with draining() true for good".  While
   a loss of the card is not yet published or obeyed, the pipeline is empty. *)
OwedIsHeld ==
  \A o \in Owner :
    LET held == HeldFor(reader, o)
    IN  \/ /\ WaitsFor(o) = None
           /\ held = {}
        \/ /\ WaitsFor(o) # None
           /\ \E place \in held : held = {place}
        \/ /\ held = {}
           /\ present # published \/ (o = "Writer" /\ ~writing)

(* A block handed out is the one asked for, as the card docked now holds it:
   nothing captured before a generation ended is an answer after it. *)
ReadyIsFresh ==
  reader.ready # None /\ present = published =>
    reader.data = [block |-> reader.ready.block, fresh |-> TRUE]

(* What the writer waits for comes, or its block is taken from it, whatever
   the pad, the display, the host and the card do; the dongle's READ is
   answered once the pad stays idle and the writer has nothing more to write,
   for until then "the writer goes first". *)
ReadsServed ==
  /\ WaitsFor("Writer") # None ~> WaitsFor("Writer") = None
  /\ <>[](idle /\ writer = None) => (outstanding # None ~> outstanding = None)

(* A read that is owed holds the display back, but never for good. *)
DisplayKeepsUp == dirty /\ present ~> ~dirty \/ ~present
=============================================================================
