-------------------------------- MODULE MCBus --------------------------------
(* What comes from the bus (Bus) and what is sent to the display (HostScreen).
   The two share no variable: an invariant of one holds in their interleaving
   when it holds of it alone, so they are explored side by side. *)
EXTENDS Bus, HostScreen

VARIABLE part

Clean == [lead |-> <<>>, clip |-> 0, flip |-> 0, pause |-> 0, at |-> 0,
          stop |-> 99]

(* A light gun's pattern. *)
LightGun == FlattenSeq([i \in 1..8 |-> <<{"B"}, {}>>]) \o <<Floating, Floating>>

(* Wrong bits in the length, the location and the checksum; stops; pauses
   about both thresholds; a capture that misses some or too many of the
   start's rises, or takes a foreign pattern first.  The first four may befall
   any reply. *)
Faults ==
  <<Clean>>
  \o [i \in 1..2 |-> [Clean EXCEPT !.flip = 6 + i]]
  \o <<[Clean EXCEPT !.stop = 9]>>
  \o [i \in 1..2 |-> [Clean EXCEPT !.flip = <<72, 130>>[i]]]
  \o <<[Clean EXCEPT !.stop = 16]>>
  \o [i \in 1..3 |-> [Clean EXCEPT !.at = 13,
                          !.pause = <<Gap, EndIdle, EndIdle + 1>>[i]]]
  \o [i \in 1..2 |-> [Clean EXCEPT !.clip = <<2, 4>>[i]]]
  \o <<[Clean EXCEPT !.lead = LightGun]>>

Reply(sender, command, words) ==
  [sender |-> sender, recipient |-> 0, command |-> command, payload |-> words]

(* The card answers a read with the words the block was written with. *)
BlockReply(b, image) ==
  Reply(1, DataTransfer, WriteFrame(1, Storage, Location(b), image).payload)

(* What the card holds, block 0 before and after a change and block 1, and
   what the controller answers. *)
Images == <<<<4, 3, 2, 1>>, <<4, 3, 2, 9>>, <<4, 3, 2, 1>>>>

Replies ==
  <<BlockReply(0, Images[1]), BlockReply(0, Images[2]), BlockReply(1, Images[3]),
    Reply(33, ConditionResponse,
          <<Controller, <<0, 7, 255, 255>>, <<128, 128, 128, 64>>>>),
    Reply(33, DeviceInfoResponse, <<Controller, <<254, 6, 15, 0>>>>),
    Reply(33, 252, <<>>)>>

MCLines ==
  [k \in 1..(Len(Replies) * Len(Faults)) |->
     LET r == (k - 1) \div Len(Faults) + 1
     IN  [packet |-> Replies[r],
          fault  |-> Faults[((k - 1) % Len(Faults)) + 1],
          image  |-> IF r \in DOMAIN Images THEN Images[r] ELSE <<>>]]

LinesOf(replies, faults) == {(r - 1) * Len(Faults) + f : r \in replies, f \in faults}
MCReadLines == LinesOf({1}, DOMAIN Faults) \cup LinesOf({2, 3}, 1..2)
MCPollLines == LinesOf({4, 6}, 1..4)
MCProbeLines == LinesOf({5, 6}, 1..4)

ASSUME MCBusFaults == FaultsAreCaught /\ CardsAnswer

Parts == {"Bus", "Screen"}
MCInit == part \in Parts /\ Init /\ ScreenInit

BusStep == part = "Bus" /\ Next /\ UNCHANGED <<screenVars, part>>
ScreenStep == part = "Screen" /\ ScreenNext /\ UNCHANGED <<vars, part>>
MCNext == BusStep \/ ScreenStep

MCSpec == MCInit /\ [][MCNext]_<<vars, screenVars, part>>
=============================================================================
