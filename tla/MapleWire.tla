------------------------------ MODULE MapleWire ------------------------------
(***************************************************************************)
(* The Maple wire: how a packet is put on the two lines                    *)
(* (src/maple/gpio_bus.rs, and pwm_tx.rs which mirrors it), how the start  *)
(* of a reply is found in its samples (maple-protocol/src/wire.rs), and    *)
(* the decode of a whole capture in one pass that the controller poll uses *)
(* (gpio_bus.rs).                                                          *)
(*                                                                         *)
(* A level is the set of the lines that are high; a waveform is a sequence *)
(* of levels, one per half bit, and so is a capture, one per sample.       *)
(* Sample indices count from 0 as in the code.  The counters of falls and  *)
(* gaps are left out: nothing looks at them.                               *)
(***************************************************************************)
EXTENDS Integers, SequencesExt

CONSTANTS
  Gap,        \* GAP_THRESHOLD
  EndIdle,    \* END_IDLE_THRESHOLD
  MaxWords    \* a packet's payload capacity

ASSUME MapleWireAssumption ==
  /\ Gap \in Nat \ {0} /\ EndIdle \in Nat /\ Gap < EndIdle
  /\ MaxWords \in 0..255

Bit  == {0, 1}
Byte == 0..255

Packets ==
  [sender : Byte, recipient : Byte, command : Byte, payload : Seq([1..4 -> Byte])]

Floating == {"A", "B"}
Idle     == {"A"}

-----------------------------------------------------------------------------
(* Sending. *)

StartPattern ==
  <<{"B"}, {}, {"B"}, {}, {"B"}, {}, {"B"}, {}, {"B"}, {"A", "B"}, {"A"}>>

EndPattern ==
  <<{"A", "B"}, {"A"}, {}, {"A"}, {}, {"A"}, {"A", "B"}>>

(* The most significant bit first. *)
Weight == <<128, 64, 32, 16, 8, 4, 2, 1>>

BitsOf(byte) == [i \in 1..8 |-> (byte \div Weight[i]) % 2]

ByteOf(b) ==
  128 * b[1] + 64 * b[2] + 32 * b[3] + 16 * b[4] + 8 * b[5] + 4 * b[6]
    + 2 * b[7] + b[8]

(* Two half bits: the data line takes its value, then the clock falls. *)
BitSteps(clock, data, bit) ==
  LET held == IF bit = 1 THEN {data} ELSE {}
  IN  <<{clock} \cup held, held>>

(* The lines take turns as clock; a byte has an even number of bits, so every
   byte starts with A. *)
ByteSteps(byte) ==
  FlattenSeq([i \in 1..8 |->
    IF i % 2 = 1 THEN BitSteps("A", "B", BitsOf(byte)[i])
                 ELSE BitSteps("B", "A", BitsOf(byte)[i])])

(* The exclusive or of the bytes: each bit is the parity of its column. *)
Crc(bytes) ==
  ByteOf([i \in 1..8 |->
    Cardinality({j \in DOMAIN bytes : BitsOf(bytes[j])[i] = 1}) % 2])

(* A word is the sequence of its four bytes, the least significant first. *)
FrameWord(p) == <<Len(p.payload), p.sender, p.recipient, p.command>>

(* A word goes out least significant byte first, an image has its most
   significant byte first: what write_lcd and write_block_phase put on the
   wire for an image. *)
WireWord(image, i) == [j \in 1..4 |-> image[4 * i - j + 1]]

BlockWrite == 12

WriteFrame(dest, function, location, image) ==
  [sender |-> 0, recipient |-> dest, command |-> BlockWrite,
   payload |-> <<function, location>>
                 \o [i \in 1..(Len(image) \div 4) |-> WireWord(image, i)]]

WithCrc(body) == Append(body, Crc(body))

FrameBytes(p) == WithCrc(FrameWord(p) \o FlattenSeq(p.payload))

-----------------------------------------------------------------------------
(* Finding where the data starts. *)

At(s, i) == s[i + 1]

MinToggles == 3
MaxToggles == 5

(* A line's falls and rises are between two samples; a capture that opens with
   A low is taken to open on its fall. *)
FallsOfA(s) ==
  {i \in 0..(Len(s) - 1) :
     /\ "A" \notin At(s, i)
     /\ i > 0 => "A" \in At(s, i - 1)}

Rises(s, fall) == \E i \in (fall + 1)..(Len(s) - 1) : "A" \in At(s, i)

RiseOfA(s, fall) ==
  CHOOSE i \in (fall + 1)..(Len(s) - 1) :
    "A" \in At(s, i) /\ \A j \in (fall + 1)..(i - 1) : "A" \notin At(s, j)

(* scan_pattern: B rises three to five times while A is low, and is high as A
   rises; the rise of B that falls in A's own sample counts. *)
IsDataStart(s, fall) ==
  /\ Rises(s, fall)
  /\ LET rise == RiseOfA(s, fall)
         toggles == Cardinality({i \in (fall + 1)..rise :
                                   "B" \notin At(s, i - 1) /\ "B" \in At(s, i)})
     IN  toggles \in MinToggles..MaxToggles /\ "B" \in At(s, rise)

NoStart == -1

(* The search resumes at a rejected pattern's own rise of A: the first fall
   that begins a data pattern is the one. *)
FindDataStart(s) ==
  LET falls == FallsOfA(s)
      first(i) == /\ IsDataStart(s, i)
                  /\ \A j \in falls : j < i => ~IsDataStart(s, j)
  IN  IF \E i \in falls : IsDataStart(s, i)
      THEN RiseOfA(s, CHOOSE i \in falls : first(i))
      ELSE NoStart

-----------------------------------------------------------------------------
(* Decoding a whole capture, sample by sample. *)

(* The bit an edge clocks in, if it does: a fall of A samples B; a fall of B
   samples A once A has fallen. *)
BitAt(from, to, seen) ==
  IF "A" \in from \ to THEN <<IF "B" \in to THEN 1 ELSE 0>>
  ELSE IF "B" \in from \ to /\ seen THEN <<IF "A" \in to THEN 1 ELSE 0>>
  ELSE <<>>

(* What the pass has after the samples before `at`. *)
Accumulator ==
  [at : Nat, last : SUBSET Floating, quiet : Nat, idle : Nat, seen : BOOLEAN,
   over : BOOLEAN, bits : Seq(Bit)]

BulkStart(s, start) ==
  [at |-> start, last |-> At(s, start - 1), quiet |-> 0, idle |-> 0,
   seen |-> FALSE, over |-> FALSE, bits |-> <<>>]

BulkSample(acc, level) ==
  LET quiet == IF level = acc.last THEN acc.quiet + 1 ELSE 0
      seen  == acc.seen /\ ~(level # Idle /\ acc.idle > Gap)
  IN  IF quiet > EndIdle /\ acc.bits # <<>>
           THEN [acc EXCEPT !.over = TRUE]
      ELSE [at |-> acc.at + 1, last |-> level, quiet |-> quiet, over |-> FALSE,
            idle |-> IF level = Idle THEN acc.idle + 1 ELSE 0,
            seen |-> seen \/ "A" \in acc.last \ level,
            bits |-> acc.bits \o BitAt(acc.last, level, seen)]

BulkNext(acc, s) ==
  IF acc.over \/ acc.at >= Len(s) THEN acc ELSE BulkSample(acc, At(s, acc.at))

(* F, n times from x. *)
Iterated(F, x, n) ==
  LET after[k \in Nat] == IF k = 0 THEN x ELSE F[after[k - 1]]
  IN  after[n]

BulkAfter(s, start, n) ==
  Iterated([acc \in Accumulator |-> BulkNext(acc, s)], BulkStart(s, start), n)

DecodeBulk(s, start) == BulkAfter(s, start, Len(s) - start)

BytesOf(bits) ==
  [i \in 1..(Len(bits) \div 8) |-> ByteOf(SubSeq(bits, 8 * i - 7, 8 * i))]

FrameLen(words) == 4 + 4 * words + 1

(* read_packet_bulk, past the capture: the packet, or nothing. *)
ParseFrame(bytes) ==
  IF \/ Len(bytes) < 4
     \/ Len(bytes) < FrameLen(bytes[1])
     \/ bytes[1] > MaxWords
  THEN <<>>
  ELSE IF Crc(SubSeq(bytes, 1, FrameLen(bytes[1]))) # 0 THEN <<>>
  ELSE <<[sender |-> bytes[2], recipient |-> bytes[3], command |-> bytes[4],
          payload |-> [w \in 1..bytes[1] |-> SubSeq(bytes, 4 * w + 1, 4 * w + 4)]]>>
=============================================================================
