----------------------------- MODULE SaveLedger -----------------------------
(***************************************************************************)
(* What the write half of the storage service promises the dongle: every  *)
(* save it acknowledges is a debt, and a debt is paid by exactly one       *)
(* WRITTEN.  The fate a WRITTEN names is the true one: OK and FAILED come  *)
(* only from the one save in the writer's hands, SUPERSEDED only from a    *)
(* newer save of the same block, and DISCARDED only together with every    *)
(* other save that was still waiting.  Saves are taken and their WRITTENs  *)
(* delivered in the order in which they were first acknowledged.           *)
(*                                                                         *)
(* Sessions, ACKs, queue room and generations do not appear: nothing that  *)
(* happens to a link may create, change or forget a debt.  HostIo is shown *)
(* to implement this.                                                      *)
(***************************************************************************)
EXTENDS Naturals, Sequences

CONSTANTS Block, SeqNo

Fate == {"OK", "FAILED", "DISCARDED"}

VARIABLES
  saves,        \* acknowledged saves whose WRITTEN is owed, oldest first
  superseded,   \* saves a newer one replaced, whose SUPERSEDED is owed
  paid          \* flips with each WRITTEN that reaches the dongle

TypeOK ==
  /\ saves \in Seq([block : Block, seq : SeqNo,
                    fate : {"Staged", "Writing"} \cup Fate])
  /\ superseded \in Seq([block : Block, seq : SeqNo])
  /\ paid \in BOOLEAN

Init == saves = <<>> /\ superseded = <<>> /\ paid = FALSE

First(i, fates) ==
  /\ saves[i].fate \in fates
  /\ \A j \in 1..(i - 1) : saves[j].fate \notin fates

(* Every save not on the card yet is given up. *)
GivenUp(q) ==
  [i \in DOMAIN q |-> IF q[i].fate \in Fate THEN q[i]
                      ELSE [q[i] EXCEPT !.fate = "DISCARDED"]]

Admit(b, s) ==
  /\ saves' = Append(saves, [block |-> b, seq |-> s, fate |-> "Staged"])
  /\ UNCHANGED <<superseded, paid>>

Supersede(i, s) ==
  /\ saves[i].fate = "Staged" /\ saves[i].seq # s
  /\ saves' = [saves EXCEPT ![i].seq = s]
  /\ superseded' = Append(superseded, [block |-> saves[i].block,
                                       seq |-> saves[i].seq])
  /\ UNCHANGED paid

Start(i) ==
  /\ First(i, {"Staged"})
  /\ \A j \in DOMAIN saves : saves[j].fate # "Writing"
  /\ saves' = [saves EXCEPT ![i].fate = "Writing"]
  /\ UNCHANGED <<superseded, paid>>

Land(i) ==
  /\ saves[i].fate = "Writing"
  /\ saves' = [saves EXCEPT ![i].fate = "OK"]
  /\ UNCHANGED <<superseded, paid>>

(* A card that refuses a block is not one to keep draining onto. *)
Fail(i) ==
  /\ saves[i].fate = "Writing"
  /\ saves' = GivenUp([saves EXCEPT ![i].fate = "FAILED"])
  /\ UNCHANGED <<superseded, paid>>

EndGeneration ==
  /\ saves' = GivenUp(saves)
  /\ UNCHANGED <<superseded, paid>>

Deliver(i) ==
  /\ First(i, Fate)
  /\ saves' = SubSeq(saves, 1, i - 1) \o SubSeq(saves, i + 1, Len(saves))
  /\ paid' = ~paid
  /\ UNCHANGED superseded

DeliverSuperseded ==
  /\ superseded # <<>>
  /\ superseded' = Tail(superseded)
  /\ paid' = ~paid
  /\ UNCHANGED saves

Next ==
  \/ \E b \in Block, s \in SeqNo : Admit(b, s)
  \/ \E i \in DOMAIN saves :
       \/ \E s \in SeqNo : Supersede(i, s)
       \/ Start(i) \/ Land(i) \/ Fail(i) \/ Deliver(i)
  \/ EndGeneration
  \/ DeliverSuperseded

Spec == Init /\ [][Next]_<<saves, superseded, paid>>
=============================================================================
