------------------------------ MODULE MCHostIo ------------------------------
(***************************************************************************)
(* Small instances of HostIo.  Contents and seq bytes are only compared,   *)
(* so their model values are symmetric; blocks are not (root and FAT).     *)
(***************************************************************************)
EXTENDS HostIo, TLC

CONSTANTS root_blk, fat_blk, d1, d2, s1, s2

Symmetry == Permutations(SeqNo) \cup Permutations(Payload)

(* The pad is in use throughout: what the saves do does not depend on it. *)
PadInUse == ~idle

(* READs serve only to learn the card. *)
ReadsToLearn == outstanding # None => card = None

(* The guard's verdict and the gesture gate do not move a debt, and READs
   and short messages meet only in the radio's turn. *)
SavesOnly ==
  /\ PadInUse /\ ReadsToLearn /\ ~verified /\ ~writes_paused
  /\ outstanding # None => outbox = <<>>

(* A refusal takes room and its turn in the outbox, and once is enough. *)
Refusal(m) == m.op = "ACK" /\ m.result # "OK"

FewRefusals ==
  SavesOnly /\ \A i \in DOMAIN outbox : Refusal(outbox[i]) => i = 1
=============================================================================
