---------------------------- MODULE ReadPipeline ----------------------------
(***************************************************************************)
(* The block-read pipeline (maple-protocol/src/read_pipeline.rs) and its   *)
(* firmware half (src/maple/block_read.rs): a queue of requests, three     *)
(* slots, and the buffers a capture passes through on its way to a block.  *)
(* Both Rust types are values with methods and no clock, so the reader is  *)
(* a record here and a method an operator from record to record, or to the *)
(* set of records it can end in.                                           *)
(*                                                                         *)
(* Abstractions.  What a buffer holds is the block its bytes are of and    *)
(* whether the generation they were captured under still runs (a ghost).   *)
(* The stage of a failure and the counters are left out: they are reported *)
(* and never looked at.                                                    *)
(***************************************************************************)
EXTENDS Integers, Sequences

CONSTANTS
  Block,
  QueueLen,    \* QUEUE_LEN
  ReadTries,   \* READ_TRIES
  None

ASSUME ReadPipelineAssumption ==
  /\ QueueLen \in Nat \ {0} /\ ReadTries \in Nat \ {0}
  /\ None \notin Block

Owner == {"Host", "Writer"}

Req     == [block : Block, tries : 0..(ReadTries - 1), owner : Owner]
Outcome == {"NoReply", "Incomplete", "Streams"}
Bytes   == [block : Block, fresh : BOOLEAN]
Latch   == [req : Req, outcome : Outcome]
Ready   == [block : Block, owner : Owner]

ASSUME NoneAssumption == None \notin Req \cup Bytes \cup Latch \cup Ready

(* `streams` are the two bit streams the hardware filled, `frame` the samples
   unpacked from them and being decoded, `data` the copy of the last block. *)
Reader ==
  [queue : Seq(Req), latched : Latch \cup {None},
   decoding : Req \cup {None}, ready : Ready \cup {None},
   failed : [Owner -> Block \cup {None}],
   streams : Bytes \cup {None}, frame : Bytes \cup {None},
   data : Bytes \cup {None}]

NewReader ==
  [queue |-> <<>>, latched |-> None, decoding |-> None, ready |-> None,
   failed |-> [o \in Owner |-> None],
   streams |-> None, frame |-> None, data |-> None]

PipelineBusy(r) == r.latched # None

-----------------------------------------------------------------------------
(* Asking.  The writer's read goes first: it is the drain's critical path. *)

Asked(b, o) == [block |-> b, tries |-> 0, owner |-> o]

HasRoom(r) == Len(r.queue) < QueueLen

Request(r, b) == [r EXCEPT !.queue = Append(@, Asked(b, "Host"))]

RequestVerify(r, b) == [r EXCEPT !.queue = <<Asked(b, "Writer")>> \o @]

-----------------------------------------------------------------------------
(* Failing. *)

MayRetry(tries) == tries < ReadTries

(* Mutant: the one failure slot there was before 2026-09-22. *)
ReportOnce(failed, req) ==
  IF \A o \in Owner : failed[o] = None
  THEN [failed EXCEPT ![req.owner] = req.block] ELSE failed

(* A slot for each owner; the first report is the one owed. *)
Report(failed, req) ==
  IF failed[req.owner] = None
  THEN [failed EXCEPT ![req.owner] = req.block] ELSE failed

(* An attempt failed: back to the front of the queue, or reported. *)
Fail(r, req) ==
  LET s == IF r.decoding = req THEN [r EXCEPT !.decoding = None] ELSE r
  IN  IF MayRetry(req.tries + 1) /\ HasRoom(s)
      THEN [s EXCEPT !.queue = <<[req EXCEPT !.tries = @ + 1]>> \o @]
      ELSE [s EXCEPT !.failed = Report(@, req)]

-----------------------------------------------------------------------------
(* From latch to decode. *)

(* take_applicable: a decode in flight and an unread block both hold the
   latched capture back. *)
MayApply(r) == r.latched # None /\ r.decoding = None /\ r.ready = None

(* service: what can be applied is.  Streams in which no frame starts fail. *)
Service(r) ==
  IF ~MayApply(r) THEN {r}
  ELSE LET req == r.latched.req
           s == [r EXCEPT !.latched = None, !.streams = None]
       IN  IF r.latched.outcome = "Streams" /\ r.streams # None
           THEN {[s EXCEPT !.frame = r.streams, !.decoding = req],
                 Fail([s EXCEPT !.frame = r.streams], req)}
           ELSE {Fail(s, req)}

(* finish: the decode ended.  A frame of another block is refused like one
   that is short or whose checksum does not close. *)
Finished(r) ==
  LET good == [r EXCEPT !.decoding = None, !.data = r.frame,
                        !.ready = [block |-> r.decoding.block,
                                   owner |-> r.decoding.owner]]
      judged == {Fail(r, r.decoding)}
                \cup (IF r.frame.block = r.decoding.block THEN {good} ELSE {})
  IN  UNION {Service(s) : s \in judged}

(* Slices of the decode run; it may end. *)
Sliced(r) == {r} \cup (IF r.decoding = None THEN {} ELSE Finished(r))

(* note_latched: a capture's outcome, with its streams. *)
Latched(r, req, outcome) ==
  [r EXCEPT !.latched = [req |-> req, outcome |-> outcome],
            !.streams = IF outcome = "Streams"
                        THEN [block |-> req.block, fresh |-> TRUE] ELSE None]

(* read_window: a command on the bus, slices while the reply comes in, and
   the outcome latched, then applied if it may be. *)
Captured(r) ==
  LET req == Head(r.queue)
      on == [r EXCEPT !.queue = Tail(@)]
      silent == {Latched(on, req, "NoReply")}
      heard == {Latched(s, req, outcome) :
                  s \in Sliced(on), outcome \in {"Incomplete", "Streams"}}
  IN  UNION {Service(s) : s \in silent \cup heard}

-----------------------------------------------------------------------------
(* Taking and clearing. *)

(* take_ready releases the backpressure and applies what it held back.  The
   block is handed out with the copy of its bytes. *)
TakeReady(r) == Service([r EXCEPT !.ready = None])

Cleared(r) == [NewReader EXCEPT !.frame = r.frame, !.data = r.data]

(* The streams are kept if the latch that remains is the writer's. *)
StreamsKept(s) == IF PipelineBusy(s) THEN s ELSE [s EXCEPT !.streams = None]

(* The queue is rebuilt, front to back: what is kept of its first n requests. *)
Kept(q) ==
  LET kept[n \in 0..Len(q)] ==
        IF n = 0 THEN <<>>
        ELSE IF q[n].owner = "Writer" THEN Append(kept[n - 1], q[n])
        ELSE kept[n - 1]
  IN  kept

ClearHost(r) ==
  StreamsKept(
    [r EXCEPT
       !.queue = Kept(@)[Len(@)],
       !.latched = IF @ # None /\ @.req.owner = "Host" THEN None ELSE @,
       !.decoding = IF @ # None /\ @.owner = "Host" THEN None ELSE @,
       !.ready = IF @ # None /\ @.owner = "Host" THEN None ELSE @,
       !.failed["Host"] = None])

(* Nothing captured so far is of the generation that begins (ghost). *)
Aged(r) ==
  LET old(bytes) == IF bytes = None THEN None
                    ELSE [bytes EXCEPT !.fresh = FALSE]
  IN  [r EXCEPT !.streams = old(@), !.frame = old(@), !.data = old(@)]

(* Everything the reader holds for an owner. *)
HeldFor(r, o) ==
  {<<"queue", i>> : i \in {j \in DOMAIN r.queue : r.queue[j].owner = o}}
  \cup (IF r.latched # None /\ r.latched.req.owner = o
        THEN {<<"latched", 0>>} ELSE {})
  \cup (IF r.decoding # None /\ r.decoding.owner = o
        THEN {<<"decoding", 0>>} ELSE {})
  \cup (IF r.ready # None /\ r.ready.owner = o THEN {<<"ready", 0>>} ELSE {})
  \cup (IF r.failed[o] # None THEN {<<"failed", 0>>} ELSE {})
=============================================================================
