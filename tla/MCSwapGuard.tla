---------------------------- MODULE MCSwapGuard ----------------------------
(***************************************************************************)
(* Small instances of SwapGuard: two cards, each with an old and a new     *)
(* payload, blocks of two phases.                                          *)
(***************************************************************************)
EXTENDS SwapGuard, TLC

CONSTANTS root_blk, fat_blk, data_blk, card1, card2, old1, new1, old2, new2

MakerOf == old1 :> card1 @@ new1 :> card1 @@ old2 :> card2 @@ new2 :> card2

OldOf == card1 :> old1 @@ card2 :> old2

FactoryOf == [c \in Card |-> [k \in Block |-> [i \in Phase |-> OldOf[c]]]]

(* The dongle saves new contents only, and to the first card only. *)
SavesToOne ==
  \A i \in DOMAIN staged : \A k \in Phase : staged[i].data[k] = new1

(* A save changes its block: the same contents again are not saved. *)
SavesChange ==
  \A i \in DOMAIN staged :
    staged[i].data # IF staged[i].block = Root THEN staged[i].root
                     ELSE staged[i].fat

(* A save waits only while the writer has none. *)
OneSave ==
  /\ SavesToOne /\ SavesChange
  /\ seq # None => staged = <<>>
=============================================================================
