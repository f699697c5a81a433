----------------------------- MODULE BlockDecode -----------------------------
(***************************************************************************)
(* The incremental decoder of a block's reply                              *)
(* (maple-protocol/src/block_decode.rs): the bit rule of the wire, applied *)
(* at edges only and a slice of the capture at a time.                     *)
(*                                                                         *)
(* The decoder is a record and its methods operators on it.  What the code *)
(* keeps to save work is computed from the rest: the frame's length from   *)
(* the header, the checksum from the bytes, the end of the reply from the  *)
(* last edge.  Statistics and byte positions are left out.                 *)
(***************************************************************************)
EXTENDS MapleWire

CONSTANTS
  OutBytes,   \* OUT_BYTES, the room for a frame
  None

Outcome == {"NoStart", "Complete", "TooLong", "Ended", "Exhausted"}

ASSUME BlockDecodeAssumption ==
  OutBytes \in Nat /\ OutBytes >= 4 /\ None \notin Outcome

Verdict == Outcome \cup {None}

Decoder ==
  [cursor : Nat, last : SUBSET Floating, prev : Nat, seen : BOOLEAN,
   cur : Seq(Bit), out : Seq(Byte), done : Verdict]

NewDecoder ==
  [cursor |-> 0, last |-> {}, prev |-> 0, seen |-> FALSE, cur |-> <<>>,
   out |-> <<>>, done |-> None]

BeginAt(s, start) ==
  IF start = NoStart THEN [NewDecoder EXCEPT !.done = "NoStart"]
  ELSE [NewDecoder EXCEPT !.cursor = start, !.prev = start,
                          !.last = At(s, start - 1)]

Begin(s) == BeginAt(s, FindDataStart(s))

HasBits(d) == d.out # <<>> \/ d.cur # <<>>

(* ended_at: not before the first bit. *)
EndedAt(d, s) == IF HasBits(d) THEN d.prev + EndIdle + 2 ELSE Len(s) + 5

SmallerOf(x, y) == IF x < y THEN x ELSE y

(* Where the search for an edge gives up: it goes by four samples where four
   remain, and so may overrun `stop` to the end of a word. *)
Reach(s, cursor, stop) ==
  LET words == cursor + 4 * ((stop - cursor + 3) \div 4)
  IN  IF stop <= cursor THEN cursor
      ELSE IF words <= Len(s) THEN words
      ELSE stop

Search(s, cursor, last, stop) ==
  LET reach == Reach(s, cursor, stop)
  IN  IF \A j \in cursor..(reach - 1) : At(s, j) = last
      THEN [edge |-> FALSE, at |-> reach]
      ELSE [edge |-> TRUE,
            at |-> CHOOSE i \in cursor..(reach - 1) :
                     /\ At(s, i) # last
                     /\ \A j \in cursor..(i - 1) : At(s, j) = last]

(* A whole byte is in: no room for it, a header that announces more than
   there is room for, or the frame's own length reached. *)
Took(d, out) ==
  LET expected == IF Len(out) < 4 THEN 0 ELSE FrameLen(out[1])
      in == [d EXCEPT !.out = out, !.cur = <<>>]
  IN  IF Len(out) > OutBytes THEN [d EXCEPT !.done = "TooLong"]
      ELSE IF Len(out) = 4 /\ expected > OutBytes
           THEN [in EXCEPT !.done = "TooLong"]
      ELSE IF Len(out) = expected THEN [in EXCEPT !.done = "Complete"]
      ELSE in

WholeByte(d) ==
  IF Len(d.cur) = 8 THEN Took(d, Append(d.out, BytesOf(d.cur)[1])) ELSE d

(* Leaving a long idle forgets the clock's phase, then the bit rule. *)
AtEdge(d, level, at) ==
  LET seen == d.seen /\ ~(d.last = Idle /\ at - d.prev > Gap)
  IN  WholeByte([d EXCEPT !.cursor = at + 1, !.prev = at, !.last = level,
                          !.seen = seen \/ "A" \in d.last \ level,
                          !.cur = @ \o BitAt(d.last, level, seen)])

(* Mutant: the reply's end is declared at an edge only, as in v265. *)
WithoutEdgeStalls(d, s, at) == [d EXCEPT !.cursor = SmallerOf(at, EndedAt(d, s))]

(* No edge before the bound; it may have been the end of the reply. *)
WithoutEdge(d, s, at) ==
  IF EndedAt(d, s) <= at
  THEN [d EXCEPT !.cursor = EndedAt(d, s), !.done = "Ended"]
  ELSE [d EXCEPT !.cursor = at]

NextEdge(d, s, limit) ==
  Search(s, d.cursor, d.last, SmallerOf(limit, EndedAt(d, s)))

(* To the next edge, or as far as the slice goes. *)
Hop(d, s, limit) ==
  LET next == NextEdge(d, s, limit)
  IN  IF d.done # None THEN d
      ELSE IF ~next.edge THEN WithoutEdge(d, s, next.at)
      ELSE IF next.at >= EndedAt(d, s)
           THEN [d EXCEPT !.cursor = EndedAt(d, s), !.done = "Ended"]
      ELSE AtEdge(d, At(s, next.at), next.at)

(* The loop of hops: one that met no edge leaves the next nothing to do. *)
Scanned(d, s, limit) ==
  Iterated([e \in Decoder |-> Hop(e, s, limit)], d, limit - d.cursor + 1)

Exhausted(d, s) ==
  IF d.done = None /\ d.cursor >= Len(s) THEN [d EXCEPT !.done = "Exhausted"]
  ELSE d

Step(d, s, quota) ==
  IF d.done # None THEN d
  ELSE Exhausted(Scanned(d, s, SmallerOf(Len(s), d.cursor + quota)), s)
=============================================================================
