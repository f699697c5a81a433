--------------------------------- MODULE Bus ---------------------------------
(***************************************************************************)
(* What the adapter takes from the Maple bus: the controller's polls and   *)
(* probes (src/maple/host.rs), the block reads (src/maple/block_read.rs),  *)
(* and the one pair of SPIM instances that samples the replies of both     *)
(* (src/maple/spim_capture.rs).  A poll unpacks its capture at once; a     *)
(* block's capture is latched, and unpacked and decoded in slices windows  *)
(* later, with polls in between.                                           *)
(*                                                                         *)
(* A step is one stretch of the poll task between two awaits, in which     *)
(* nothing else touches the bus.  A reply is one of `Lines`: a packet,     *)
(* what befell its waveform, and of a block the image that was written to  *)
(* the card.  `of`, in what is held, is the line it came from (ghost).     *)
(* Queue, owners and retries of the block reads are ReadPipeline's: here   *)
(* a read that fails is over.  A capture in progress is never left armed   *)
(* between two steps, so the instance has no state of its own; only the    *)
(* buffers do.  The decoder is a function of the line and the slices it    *)
(* has run, tabulated in `Decoding`.                                       *)
(***************************************************************************)
EXTENDS BlockDecode

CONSTANTS
  Lines,         \* a sequence of [packet, fault, image]
  ReadLines,     \* the lines that may answer a BLOCK_READ
  PollLines,     \* the lines that may answer GET_CONDITION
  ProbeLines,    \* the lines that may answer DEVICE_INFO_REQUEST
  Blocks,
  Samples,       \* samples in a capture
  SliceSamples,  \* SLICE_SAMPLES
  InfoWords,     \* words a device info must have
  FrameWords     \* FRAME_WORDS

Faulted ==
  [lead : Seq(SUBSET Floating), clip : Nat, flip : Nat, pause : Nat, at : Nat,
   stop : Nat]

ASSUME BusAssumption ==
  /\ Samples \in Nat /\ SliceSamples \in Nat \ {0}
  /\ InfoWords \in Nat /\ FrameWords \in Nat /\ FrameWords >= 2
  /\ Lines \in Seq([packet : Packets, fault : Faulted, image : Seq(Byte)])
  /\ \A k \in DOMAIN Lines : Len(Lines[k].packet.payload) <= MaxWords
  /\ ReadLines \cup PollLines \cup ProbeLines \subseteq DOMAIN Lines

VARIABLES
  streams,   \* the line in each pair of stream buffers, 0 before the first
  latched,   \* the capture waiting to be unpacked, or None
  frame,     \* the line unpacked into CAPTURE, 0 before the first
  slices,    \* slices the decoder has run on it
  decoding,  \* the read whose frame is being decoded, or None
  ready,     \* the block waiting for its owner, or None
  heard      \* what the poll or probe just made returned, or None

readVars == <<latched, frame, slices, decoding, ready>>
vars == <<streams, readVars, heard>>

-----------------------------------------------------------------------------
(* The peripherals. *)

ConditionResponse  == 8
DataTransfer       == 8
DeviceInfoResponse == 5
Controller == <<1, 0, 0, 0>>
Storage    == <<2, 0, 0, 0>>
Location(b) == <<b, 0, 0, 0>>

Inverted(byte, i) == ByteOf([BitsOf(byte) EXCEPT ![i] = 1 - @])

Flipped(bytes, bit) ==
  IF bit \notin 1..(8 * Len(bytes)) THEN bytes
  ELSE [bytes EXCEPT ![(bit + 7) \div 8] = Inverted(@, ((bit - 1) % 8) + 1)]

(* A reply on the wire: `lead` precedes it, its first `clip` half bits are
   missed, bit `flip` arrives wrong, the peripheral pauses for `pause` samples
   before byte `at`, and stops for good after `stop` bytes.  After it the bus
   floats. *)
OnTheWire(bytes, f) ==
  f.lead \o SubSeq(StartPattern, f.clip + 1, Len(StartPattern))
  \o FlattenSeq([i \in 1..SmallerOf(Len(bytes), f.stop) |->
       (IF i = f.at THEN [j \in 1..f.pause |-> Idle] ELSE <<>>)
       \o ByteSteps(bytes[i])])
  \o (IF f.stop < Len(bytes) THEN <<>> ELSE EndPattern)

Waveform(p, f) == OnTheWire(Flipped(FrameBytes(p), f.flip), f)

(* The samples of a capture: the transfer's length, whatever the reply's. *)
Wave ==
  [k \in DOMAIN Lines |->
     SubSeq(Waveform(Lines[k].packet, Lines[k].fault)
              \o [i \in 1..Samples |-> Floating], 1, Samples)]

(* What the decoder is after n slices. *)
Decoded(s, n) ==
  Iterated([d \in Decoder |-> Step(d, s, SliceSamples)], Begin(s), n)

(* The slices a capture has, were each only as long as it must be. *)
Steps == Samples \div SliceSamples + 1

Decoding ==
  [k \in DOMAIN Lines |-> [n \in 0..Steps |-> Decoded(Wave[k], n)]]

After(k, n) == Decoding[k][SmallerOf(n, Steps)]

BulkOf(acc) == [bytes |-> BytesOf(acc.bits), over |-> acc.over]

BulkAt(s, start) ==
  IF start = NoStart THEN [bytes |-> <<>>, over |-> FALSE]
  ELSE BulkOf(DecodeBulk(s, start))

Bulk == [k \in DOMAIN Lines |-> BulkAt(Wave[k], FindDataStart(Wave[k]))]

Packet == [k \in DOMAIN Lines |-> ParseFrame(Bulk[k].bytes)]

-----------------------------------------------------------------------------
(* Capturing. *)

Pairs == {"poll", "read"}

(* Mutant: one pair of buffers for both, as before run 175. *)
SharedBufs(consumer) == "read"

(* Each consumer arms the capture with the buffers it owns. *)
StreamBufs(consumer) == consumer

Silence == 0

(* arm, then the transfer if the bus answers.  What is in the poll's buffers is
   unpacked in the same step, and not kept. *)
Filled(consumer, k) ==
  IF k = Silence THEN streams
  ELSE [[streams EXCEPT ![StreamBufs(consumer)] = k] EXCEPT !["poll"] = 0]

Init ==
  /\ streams = [pair \in Pairs |-> 0]
  /\ latched = None /\ frame = 0 /\ slices = 0
  /\ decoding = None /\ ready = None /\ heard = None

-----------------------------------------------------------------------------
(* Polls and probes. *)

(* read_packet_bulk on the line that came, the packet or nothing. *)
ReadPacketBulk(k) == IF k = Silence THEN <<>> ELSE Packet[k]

Tries == 3

(* get_condition: only the lack of a packet is tried again.  A packet of
   another kind is an error at once. *)
(* What comes back, try by try. *)
Exchanges ==
  {t \in UNION {[1..n -> PollLines \cup {Silence}] : n \in 1..Tries} :
     /\ \A i \in 1..(Len(t) - 1) : ReadPacketBulk(t[i]) = <<>>
     /\ Len(t) < Tries => ReadPacketBulk(t[Len(t)]) # <<>>}

Answers == {t[Len(t)] : t \in Exchanges}

IsCondition(p) ==
  /\ p.command = ConditionResponse
  /\ Len(p.payload) >= 3 /\ p.payload[1] = Controller

GetCondition ==
  /\ heard = None
  /\ \E k \in Answers :
       /\ streams' = Filled("poll", k)
       /\ heard' = IF ReadPacketBulk(k) = <<>> THEN None
                   ELSE LET p == ReadPacketBulk(k)[1]
                        IN  IF IsCondition(p)
                            THEN [kind |-> "condition", of |-> k,
                                  got |-> SubSeq(p.payload, 2, 3)]
                            ELSE None
  /\ UNCHANGED readVars

(* request_device_info takes the words, sub_peripheral_mask what the sender's
   address says is docked. *)
Probe ==
  /\ heard = None
  /\ \E k \in ProbeLines \cup {Silence}, kind \in {"info", "mask"} :
       /\ streams' = Filled("poll", k)
       /\ heard' = IF ReadPacketBulk(k) = <<>> THEN None
                   ELSE LET p == ReadPacketBulk(k)[1]
                        IN  IF p.command # DeviceInfoResponse THEN None
                            ELSE IF kind = "mask"
                            THEN [kind |-> kind, of |-> k, got |-> p.sender % 32]
                            ELSE IF Len(p.payload) < InfoWords THEN None
                            ELSE [kind |-> kind, of |-> k,
                                  got |-> SubSeq(p.payload, 1, InfoWords)]
  /\ UNCHANGED readVars

(* The loop has what the poll or the probe returned. *)
Heard ==
  /\ heard # None /\ heard' = None
  /\ UNCHANGED <<streams, readVars>>

-----------------------------------------------------------------------------
(* Block reads. *)

(* wire_to_image: each word's bytes the other way round. *)
WireToImage(bytes) ==
  [i \in DOMAIN bytes |-> bytes[4 * ((i - 1) \div 4) + 4 - ((i - 1) % 4)]]

Word(out, i) == SubSeq(out, 4 * i + 5, 4 * i + 8)

(* finish: the frame is the block asked for, whole and with its checksum, and
   what it carries. *)
IsBlock(out, b) ==
  /\ out[4] = DataTransfer /\ out[1] = FrameWords
  /\ Word(out, 0) = Storage /\ Word(out, 1) = Location(b)
  /\ Crc(out) = 0

End == [k \in DOMAIN Lines |-> After(k, Steps)]

Accepted ==
  [k \in DOMAIN Lines |-> [b \in Blocks |->
     End[k].done = "Complete" /\ IsBlock(End[k].out, b)]]

DataOf ==
  [k \in DOMAIN Lines |->
     IF End[k].done # "Complete" THEN <<>>
     ELSE WireToImage(SubSeq(End[k].out, 13, 4 + 4 * FrameWords))]

Latch(b, captured, k) == [block |-> b, captured |-> captured, of |-> k]

(* service: with no decode under way and no block waiting, what is latched is
   unpacked, from the buffers its capture names, and its decode begins. *)
Serviced(held, busy, bufs) ==
  IF held = None \/ busy
  THEN /\ latched' = held /\ decoding' = None /\ UNCHANGED <<frame, slices>>
  ELSE /\ latched' = None
       /\ IF held.captured = None
          THEN decoding' = None /\ UNCHANGED <<frame, slices>>
          ELSE LET k == bufs[held.captured]
               IN  /\ frame' = k /\ slices' = 0
                   /\ decoding' = IF After(k, 0).done # None THEN None
                                  ELSE [block |-> held.block, of |-> held.of]

(* The window head. *)
Service ==
  /\ latched # None /\ decoding = None /\ ready = None
  /\ Serviced(latched, FALSE, streams)
  /\ heard' = None
  /\ UNCHANGED <<streams, ready>>

(* read_window.  The slices that run while the reply comes in are steps before
   this one: they and the capture have nothing in common. *)
ReadWindow ==
  /\ heard = None
  /\ latched = None
  /\ \E b \in Blocks, k \in ReadLines \cup {Silence}, whole \in BOOLEAN :
       LET held == IF k # Silence /\ whole THEN Latch(b, StreamBufs("read"), k)
                   ELSE Latch(b, None, Silence)
       IN  /\ streams' = Filled("read", k)
           /\ IF decoding # None
              THEN latched' = held /\ UNCHANGED <<frame, slices, decoding>>
              ELSE Serviced(held, ready # None, streams')
  /\ UNCHANGED <<ready, heard>>

(* run_slice, and the verdict if the decode ended; then what was latched
   meanwhile is applied, unless a block waits now. *)
RunSlice ==
  /\ decoding # None
  /\ LET d == After(frame, slices + 1)
         good == Accepted[frame][decoding.block]
     IN  IF d.done = None
         THEN /\ slices' = SmallerOf(slices + 1, Steps)
              /\ UNCHANGED <<latched, frame, decoding, ready>>
         ELSE /\ ready' = IF good THEN [block |-> decoding.block, of |-> decoding.of,
                                        data |-> DataOf[frame]]
                          ELSE ready
              /\ IF latched = None \/ good
                 THEN /\ slices' = slices + 1 /\ decoding' = None
                      /\ UNCHANGED <<latched, frame>>
                 ELSE Serviced(latched, FALSE, streams)
  /\ heard' = None
  /\ UNCHANGED streams

(* take_ready: what was held back is applied.  No decode is under way: none
   begins while a block waits. *)
TakeReady ==
  /\ ready # None
  /\ ready' = None
  /\ Serviced(latched, FALSE, streams)
  /\ heard' = None
  /\ UNCHANGED streams

Next == GetCondition \/ Probe \/ Heard \/ Service \/ ReadWindow \/ RunSlice \/ TakeReady

Spec == Init /\ [][Next]_vars

-----------------------------------------------------------------------------
(* What was put on the wire for the block asked for. *)
SentBlock(k, b) ==
  LET p == Lines[k].packet
  IN  /\ p.command = DataTransfer /\ p.payload[1] = Storage
      /\ p.payload[2] = Location(b)

BlockAsSent(k) ==
  \A b \in Blocks :
    Accepted[k][b] => SentBlock(k, b) /\ DataOf[k] = Lines[k].image

PacketAsSent(k) == Packet[k] = <<>> \/ Packet[k] = <<Lines[k].packet>>

(* Line k is captured from its start pattern, but for three half bits at most,
   to its end; no pause in it passes for its end, and its length arrives. *)
Legible(k) ==
  LET p == Lines[k].packet
      f == Lines[k].fault
  IN  /\ f.lead = <<>> /\ f.clip \in 0..3 /\ f.flip \notin 1..8
      /\ f.at \in 1..Len(FrameBytes(p)) => f.pause < EndIdle
      /\ Len(Waveform(p, f)) <= Samples

(* What the cards are trusted with: they answer with the words a block was
   written with. *)
CardsAnswer ==
  \A k \in ReadLines, b \in Blocks :
    SentBlock(k, b) =>
      LET image == Lines[k].image
      IN  /\ Len(image) % 4 = 0
          /\ Lines[k].packet.payload
               = WriteFrame(1, Storage, Location(b), image).payload

(* And the hardware: what befalls a reply that is not legible leaves it unread,
   or read as it was sent. *)
FaultsAreCaught ==
  /\ \A k \in ReadLines : Legible(k) \/ BlockAsSent(k)
  /\ \A k \in PollLines \cup ProbeLines : Legible(k) \/ PacketAsSent(k)

(* TypeOK: the parts have their shapes. *)
TypeOK ==
  /\ streams \in [Pairs -> 0..Len(Lines)] /\ frame \in 0..Len(Lines)
  /\ slices \in Nat
  /\ frame # 0 => After(frame, slices) \in Decoder
  /\ decoding # None => ready = None

(* Nothing is taken from the bus but what a peripheral sent, and for the one
   that asked: a latched capture outlives the polls made before it is unpacked
   (spim_capture.rs:401-411, block_read.rs:191-200), a block is accepted only
   as it was written to the card and for that read (block_read.rs:603-643), and neither a
   stop, a pause, a wrong bit, a late capture nor a foreign pattern makes a
   poll or a probe return what was not sent ("it can never produce a corrupt
   packet", gpio_bus.rs:1007-1010). *)
TakenAsSent ==
  /\ (latched # None /\ latched.captured # None)
        => streams[latched.captured] = latched.of
  /\ decoding # None => frame = decoding.of
  /\ ready # None =>
       /\ SentBlock(ready.of, ready.block)
       /\ ready.data = Lines[ready.of].image
  /\ heard # None =>
       LET p == Lines[heard.of].packet
       IN  heard.got = CASE heard.kind = "condition" -> SubSeq(p.payload, 2, 3)
                         [] heard.kind = "info" -> SubSeq(p.payload, 1, InfoWords)
                         [] heard.kind = "mask" -> p.sender % 32

(* A decode in slices ended as the one pass over the same samples. *)
SameAsWhole(d, bulk, start) ==
  LET whole == bulk.bytes
      n == Len(d.out)
  IN  CASE d.done = "NoStart" -> start = NoStart
        [] d.done = "Complete" ->
             /\ 4 <= n /\ n <= Len(whole) /\ d.out = SubSeq(whole, 1, n)
             /\ n = FrameLen(whole[1])
        [] d.done = "TooLong" ->
             /\ n <= Len(whole) /\ d.out = SubSeq(whole, 1, n)
             /\ FrameLen(whole[1]) > OutBytes
        [] OTHER ->
             /\ d.out = whole
             /\ n >= 4 => n < FrameLen(whole[1])
             /\ (d.done = "Ended") = bulk.over

(* The decode in slices is the decode in one pass (block_decode.rs:43-45):
   wherever the slices fall, it ends, even of a reply that stops early and
   leaves no edge behind (337-346), with the same bytes and for the same
   reason. *)
SlicesAsWhole ==
  /\ frame # 0 => End[frame].done # None
  /\ (frame # 0 /\ After(frame, slices).done # None) =>
       SameAsWhole(After(frame, slices), Bulk[frame], FindDataStart(Wave[frame]))
=============================================================================
