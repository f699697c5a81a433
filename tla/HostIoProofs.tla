---------------------------- MODULE HostIoProofs ----------------------------
(***************************************************************************)
(* Theorems of HostIo, for every value of its constants: type and queue    *)
(* correctness, the port's generations, the fate and order of every save,  *)
(* and the refinement of SaveLedger.                                       *)
(***************************************************************************)
EXTENDS HostIo, TLAPS, SequenceTheorems, WellFoundedInduction

(* What the writers of the queue and the outbox return. *)

LEMMA RemoveAtProperties ==
  ASSUME NEW S, NEW s \in Seq(S), NEW i \in 1..Len(s)
  PROVE  /\ RemoveAt(s, i) \in Seq(S)
         /\ Len(RemoveAt(s, i)) = Len(s) - 1
         /\ \A k \in 1..(Len(s) - 1) :
              RemoveAt(s, i)[k] = IF k < i THEN s[k] ELSE s[k + 1]
<1> DEFINE front == SubSeq(s, 1, i - 1)
           back  == SubSeq(s, i + 1, Len(s))
<1>1. Len(s) \in Nat /\ \A k \in 1..Len(s) : s[k] \in S
  BY LenProperties, ElementOfSeq
<1>2. /\ front \in Seq(S) /\ Len(front) = i - 1
      /\ \A k \in 1..(i - 1) : front[k] = s[k]
  BY <1>1, SubSeqProperties
<1>3. /\ back \in Seq(S) /\ Len(back) = Len(s) - i
      /\ \A k \in 1..(Len(s) - i) : back[k] = s[i + k]
  BY <1>1, SubSeqProperties
<1>4. RemoveAt(s, i) = front \o back
  BY DEF RemoveAt
<1> HIDE DEF front, back
<1>5. /\ front \o back \in Seq(S)
      /\ Len(front \o back) = Len(front) + Len(back)
      /\ \A k \in 1..(Len(front) + Len(back)) :
           (front \o back)[k] = IF k <= Len(front) THEN front[k]
                                ELSE back[k - Len(front)]
  BY <1>2, <1>3, ConcatProperties
<1>6. ASSUME NEW k \in 1..(Len(s) - 1)
      PROVE  (front \o back)[k] = IF k < i THEN s[k] ELSE s[k + 1]
  <2>1. CASE k < i
    BY <2>1, <1>1, <1>2, <1>3, <1>5
  <2>2. CASE ~(k < i)
    <3>1. back[k - (i - 1)] = s[k + 1]
      BY <2>2, <1>1, <1>3
    <3> QED
      BY <3>1, <2>2, <1>1, <1>2, <1>3, <1>5
  <2> QED
    BY <2>1, <2>2
<1> QED
  BY <1>1, <1>2, <1>3, <1>4, <1>5, <1>6

LEMMA LowestExists ==
  ASSUME NEW S, S \subseteq Nat, S # {}
  PROVE  \E i \in S : \A j \in S : i <= j
<1>1. PICK i \in S : \A j \in S : ~ (<<j, i>> \in OpToRel(<, Nat))
  BY NatLessThanWellFounded, WFMin
<1>2. \A j \in S : ~ (j < i)
  BY <1>1 DEF OpToRel
<1> QED
  BY <1>2

(* The recursion of Writtens defines a function: the shortest part of the
   outbox for which there is none would have one. *)
LEMMA WrittensUnfolds ==
  ASSUME NEW q \in Seq(Short)
  PROVE  Writtens(q) = [n \in 0..Len(q) |->
                          IF n = 0 THEN <<>>
                          ELSE IF q[n].op = "WRITTEN"
                               THEN Append(Writtens(q)[n - 1], q[n])
                               ELSE Writtens(q)[n - 1]]
<1> DEFINE Step(f, n) == IF n = 0 THEN <<>>
                         ELSE IF q[n].op = "WRITTEN"
                              THEN Append(f[n - 1], q[n])
                              ELSE f[n - 1]
           Bad == {m \in Nat : /\ m <= Len(q)
                               /\ ~ \E f : f = [n \in 0..m |-> Step(f, n)]}
<1>1. Bad = {}
  <2> SUFFICES ASSUME Bad # {} PROVE FALSE
    OBVIOUS
  <2>1. PICK m \in Bad : \A k \in Bad : m <= k
    <3>1. Bad \subseteq Nat
      OBVIOUS
    <3> HIDE DEF Bad
    <3> QED
      BY <3>1, LowestExists
  <2>2. m \in Nat /\ m <= Len(q)
    OBVIOUS
  <2>3. m # 0
    <3>1. [n \in 0..0 |-> <<>>] = [n \in 0..0 |-> Step([i \in 0..0 |-> <<>>], n)]
      OBVIOUS
    <3>2. 0 \notin Bad
      BY <3>1
    <3> QED
      BY <3>2
  <2>4. PICK f : f = [n \in 0..(m - 1) |-> Step(f, n)]
    <3>1. m - 1 \in Nat /\ m - 1 <= Len(q) /\ ~ (m <= m - 1)
      BY <2>2, <2>3
    <3>2. m - 1 \notin Bad
      BY <2>1, <3>1
    <3> HIDE DEF Step
    <3> QED
      BY <3>1, <3>2
  <2> DEFINE g == [n \in 0..m |-> IF n < m THEN f[n] ELSE Step(f, m)]
  <2>5. \A n \in 0..m : g[n] = Step(g, n)
    <3> SUFFICES ASSUME NEW n \in 0..m PROVE g[n] = Step(g, n)
      OBVIOUS
    <3>1. CASE n = 0
      BY <2>3, <2>4, <3>1
    <3>2. CASE n # 0
      <4>1. n - 1 \in 0..(m - 1) /\ g[n - 1] = f[n - 1]
        BY <3>2, <2>2
      <4> HIDE DEF g
      <4>2. Step(g, n) = Step(f, n)
        BY <4>1, <3>2
      <4> HIDE DEF Step
      <4>3. CASE n = m
        BY <4>2, <4>3 DEF g
      <4>4. CASE n < m
        <5>1. g[n] = f[n]
          BY <4>4 DEF g
        <5>2. n \in 0..(m - 1)
          BY <4>4, <2>2
        <5>3. f[n] = Step(f, n)
          BY <5>2, <2>4
        <5> QED
          BY <4>2, <5>1, <5>3
      <4> QED
        BY <4>3, <4>4, <2>2
    <3> QED
      BY <3>1, <3>2
  <2>6. g = [n \in 0..m |-> Step(g, n)]
    <3> HIDE DEF Step
    <3> QED
      BY <2>5
  <2> HIDE DEF g, Step
  <2> QED
    BY <2>6
<1>2. \E f : f = [n \in 0..Len(q) |-> Step(f, n)]
  <2> HIDE DEF Step
  <2> QED
    BY <1>1
<1> QED
  BY <1>2 DEF Writtens

(* Step by step, with its type. *)
LEMMA WrittensProperties ==
  ASSUME NEW q \in Seq(Short)
  PROVE  /\ Writtens(q)[0] = <<>>
         /\ \A n \in 1..Len(q) :
              Writtens(q)[n] = IF q[n].op = "WRITTEN"
                               THEN Append(Writtens(q)[n - 1], q[n])
                               ELSE Writtens(q)[n - 1]
         /\ \A n \in 0..Len(q) : /\ Writtens(q)[n] \in Seq(Short)
                                  /\ Len(Writtens(q)[n]) <= n
<1>1. Writtens(q)[0] = <<>>
  BY WrittensUnfolds
<1>2. ASSUME NEW n \in 1..Len(q)
      PROVE  Writtens(q)[n] = IF q[n].op = "WRITTEN"
                              THEN Append(Writtens(q)[n - 1], q[n])
                              ELSE Writtens(q)[n - 1]
  <2>1. n \in 0..Len(q) /\ n # 0
    OBVIOUS
  <2> QED
    BY <2>1, WrittensUnfolds
<1> DEFINE W == Writtens(q)
           Good(n) == W[n] \in Seq(Short) /\ Len(W[n]) <= n
           Bad == {n \in 0..Len(q) : ~ Good(n)}
<1> HIDE DEF W
<1>3. Bad = {}
  <2> SUFFICES ASSUME Bad # {} PROVE FALSE
    OBVIOUS
  <2>1. PICK m \in Bad : \A k \in Bad : m <= k
    <3>1. Bad \subseteq Nat
      OBVIOUS
    <3> HIDE DEF Bad
    <3> QED
      BY <3>1, LowestExists
  <2>2. m \in 0..Len(q) /\ ~ Good(m)
    OBVIOUS
  <2>3. m # 0
    <3>1. W[0] \in Seq(Short) /\ Len(W[0]) <= 0
      BY <1>1, EmptySeq DEF W
    <3> QED
      BY <2>2, <3>1
  <2>4. m - 1 \in 0..Len(q) /\ m \in 1..Len(q) /\ Good(m - 1)
    BY <2>1, <2>2, <2>3
  <2>5. W[m] = IF q[m].op = "WRITTEN" THEN Append(W[m - 1], q[m]) ELSE W[m - 1]
    BY <1>2, <2>4 DEF W
  <2>6. q[m] \in Short
    BY <2>4, ElementOfSeq
  <2> QED
    BY <2>2, <2>4, <2>5, <2>6
<1>4. \A n \in 0..Len(q) : Good(n)
  BY <1>3
<1> QED
  BY <1>1, <1>2, <1>4 DEF W

LEMMA WithoutAcksProperties ==
  ASSUME outbox \in Seq(Short)
  PROVE  WithoutAcks \in Seq(Short) /\ Len(WithoutAcks) <= Len(outbox)
<1>1. Len(outbox) \in 0..Len(outbox)
  BY LenProperties
<1> QED
  BY <1>1, WrittensProperties DEF WithoutAcks

LEMMA SentProperties ==
  ASSUME outbox \in Seq(Short), Len(outbox) <= OutboxLen, NEW m \in Short
  PROVE  Sent(m) \in Seq(Short) /\ Len(Sent(m)) <= OutboxLen
BY HostIoAssumption DEF Sent
-----------------------------------------------------------------------------
(* Types. *)

LEMMA TerminalType ==
  ASSUME NEW b \in Block, NEW r \in Fate \cup {"NO_VMU"}
  PROVE  Terminal(b, r) \in Reply
BY HostIoAssumption DEF Terminal, Reply, Content, Zeroes, Phase

LEMMA EntrySlot ==
  ASSUME NEW q \in Seq(Entry), NEW i \in DOMAIN q,
         NEW r \in {"Staged", "Writing"} \cup Fate
  PROVE  /\ [q EXCEPT ![i].slot = r] \in Seq(Entry)
         /\ Len([q EXCEPT ![i].slot = r]) = Len(q)
<1>1. i \in 1..Len(q) /\ q[i] \in Entry
  BY LenProperties, ElementOfSeq
<1>2. [q[i] EXCEPT !.slot = r] \in Entry
  BY <1>1 DEF Entry
<1> QED
  BY <1>1, <1>2, ExceptSeq

LEMMA DiscardLiveType ==
  ASSUME NEW q \in Seq(Entry)
  PROVE  /\ DiscardLive(q) \in Seq(Entry)
         /\ Len(DiscardLive(q)) = Len(q)
<1>1. Len(q) \in Nat /\ DOMAIN q = 1..Len(q)
  BY LenProperties
<1>2. \A i \in 1..Len(q) : q[i] \in Entry
  BY ElementOfSeq
<1>3. DiscardLive(q) \in [1..Len(q) -> Entry]
  BY <1>1, <1>2 DEF DiscardLive, Entry, Fate
<1>4. DiscardLive(q) \in Seq(Entry)
  BY <1>1, <1>3, SeqDef
<1> QED
  BY <1>1, <1>3, <1>4, LenProperties

LEMMA EndGenerationType ==
  ASSUME TypeOK, NEW q \in Seq(Entry), Len(q) <= QueueDepth,
         EndGeneration(q), vmu_present' \in BOOLEAN
  PROVE  TypeOK'
<1>1. epoch' \in Epoch
  BY HostIoAssumption DEF EndGeneration, TypeOK, Epoch
<1>2. reply' \in Reply \cup {None}
  <2>1. outstanding # None => outstanding.block \in Block
    BY DEF TypeOK, Pending
  <2>2. reply # None => reply.block \in Block
    BY DEF TypeOK, Reply
  <2> QED
    BY <2>1, <2>2, TerminalType DEF EndGeneration, DiscardedRead, Fate
<1>3. queue' \in Seq(Entry) /\ Len(queue') <= QueueDepth
  BY DiscardLiveType DEF EndGeneration
<1> QED
  BY <1>1, <1>2, <1>3 DEF EndGeneration, TypeOK, gateVars
LEMMA DropHostType ==
  ASSUME TypeOK, DropHost
  PROVE  /\ outstanding' = None /\ reply' = None /\ inbox' = None
         /\ status_due' = FALSE /\ last_status' = last_status
         /\ queue' = queue /\ paid' = paid
         /\ outbox' \in Seq(Short) /\ Len(outbox') <= OutboxLen
BY WithoutAcksProperties, LenProperties, HostIoAssumption DEF DropHost, TypeOK

LEMMA ShortType ==
  ASSUME NEW op \in {"ACK", "WRITTEN"}, NEW b \in Block, NEW s \in SeqNo,
         NEW r \in Result
  PROVE  ShortMsg(op, b, s, r) \in Short
BY DEF ShortMsg, Short

LEMMA CommitType ==
  ASSUME TypeOK, NEW x \in Inbox, Commit(x)
  PROVE  /\ queue' \in Seq(Entry) /\ Len(queue') <= QueueDepth
         /\ outbox' \in Seq(Short) /\ Len(outbox') <= OutboxLen
<1>1. /\ x.block \in Block /\ x.seq \in SeqNo /\ x.data \in Content
      /\ Len(queue) \in Nat /\ Len(outbox) \in Nat
      /\ epoch \in Epoch /\ queue \in Seq(Entry) /\ outbox \in Seq(Short)
      /\ Len(queue) <= QueueDepth /\ Len(outbox) <= OutboxLen
      /\ QueueDepth \in Nat /\ OutboxLen \in Nat
  BY LenProperties, HostIoAssumption DEF TypeOK, Inbox
<1>2. \A op \in {"ACK", "WRITTEN"}, s \in SeqNo, r \in Result :
        ShortMsg(op, x.block, s, r) \in Short
  BY <1>1, ShortType
<1>3. CASE CommitRefused(x)
  BY <1>1, <1>2, <1>3, SentProperties DEF CommitRefused, Refuse, Result, Fate
<1>4. CASE CommitAgain(x)
  BY <1>1, <1>2, <1>4, SentProperties DEF CommitAgain, Result, Fate
<1>5. CASE CommitCoalesced(x)
  <2>1. CASE UNCHANGED <<queue, outbox>>
    BY <2>1, <1>1
  <2>2. ASSUME NEW i \in DOMAIN queue, Len(outbox) + 2 <= OutboxLen,
               queue' = [queue EXCEPT ![i].seq = x.seq, ![i].data = x.data],
               outbox' = outbox \o CoalescedAnswers(x.block, queue[i].seq, x.seq)
        PROVE  /\ queue' \in Seq(Entry) /\ Len(queue') = Len(queue)
               /\ outbox' \in Seq(Short) /\ Len(outbox') <= OutboxLen
    <3>1. i \in 1..Len(queue) /\ queue[i] \in Entry
      BY <1>1, LenProperties, ElementOfSeq
    <3> DEFINE e == [queue[i] EXCEPT !.seq = x.seq, !.data = x.data]
               two == CoalescedAnswers(x.block, queue[i].seq, x.seq)
    <3>2. e \in Entry
      BY <3>1, <1>1 DEF Entry
    <3>3. queue' = [queue EXCEPT ![i] = e]
      BY <2>2, <3>1, <1>1, LenProperties
    <3>4. two \in Seq(Short) /\ Len(two) = 2
      BY <3>1, <1>1, <1>2 DEF CoalescedAnswers, Entry, Result, Fate
    <3> HIDE DEF e, two
    <3>5. outbox \in Seq(Short) /\ two \in Seq(Short)
      BY <3>4, <1>1
    <3>7. outbox \o two \in Seq(Short) /\ Len(outbox \o two) = Len(outbox) + Len(two)
      BY <3>5, ConcatProperties
    <3>6. queue' \in Seq(Entry) /\ Len(queue') = Len(queue)
      BY <3>1, <3>2, <3>3, <1>1, ExceptSeq
    <3> QED
      BY <3>4, <3>6, <3>7, <2>2, <1>1 DEF two
  <2> QED
    BY <2>1, <2>2, <1>1, <1>5 DEF CommitCoalesced
<1>6. CASE CommitStaged(x)
  <2> DEFINE e == [slot |-> "Staged", block |-> x.block, seq |-> x.seq,
                   epoch |-> epoch, data |-> x.data]
             ack == ShortMsg("ACK", x.block, x.seq, "OK")
  <2>1. e \in Entry /\ ack \in Short
    BY <1>1, <1>2 DEF Entry, Result, Fate
  <2> HIDE DEF e, ack
  <2>2. /\ Append(queue, e) \in Seq(Entry)
        /\ Len(Append(queue, e)) = Len(queue) + 1
        /\ Append(outbox, ack) \in Seq(Short)
        /\ Len(Append(outbox, ack)) = Len(outbox) + 1
    BY <2>1, <1>1
  <2>3. \/ queue' = Append(queue, e) /\ outbox' = Append(outbox, ack)
        \/ UNCHANGED <<queue, outbox>>
    BY <1>6 DEF CommitStaged, e, ack
  <2>4. Len(queue) < QueueDepth /\ (Len(outbox) < OutboxLen \/ UNCHANGED <<queue, outbox>>)
    BY <1>6 DEF CommitStaged
  <2>5. CASE UNCHANGED <<queue, outbox>>
    BY <2>5, <1>1
  <2>6. CASE /\ queue' = Append(queue, e) /\ outbox' = Append(outbox, ack)
             /\ Len(outbox) < OutboxLen
    BY <2>6, <2>2, <2>4, <1>1
  <2> QED
    BY <2>3, <2>4, <2>5, <2>6
<1> QED
  BY <1>3, <1>4, <1>5, <1>6 DEF Commit
USE DEF readVars, statVars, cardVars, gateVars, portVars, writeVars

(* The block being assembled, with the phase that just came in. *)
LEMMA AssembledType ==
  ASSUME TypeOK, NEW b \in WriteBlock, NEW ph \in 0..Phases, NEW s \in SeqNo,
         NEW p \in Payload, InOrder(b, ph, s)
  PROVE  [Opened(b, ph, s) EXCEPT !.data[ph] = p] \in Inbox
<1>1. b \in Block /\ Phases \in Nat \ {0}
  BY HostIoAssumption
<1>2. Zeroes \in Content
  BY DEF Zeroes, Content
<1>3. ph \in Phase /\ Opened(b, ph, s) \in Inbox
  BY <1>1, <1>2 DEF InOrder, Opened, TypeOK, Inbox, Phase
<1>4. [Opened(b, ph, s).data EXCEPT ![ph] = p] \in Content
  BY <1>3 DEF Inbox, Content
<1>5. [Opened(b, ph, s) EXCEPT !.data[ph] = p]
        = [Opened(b, ph, s) EXCEPT
             !.data = [Opened(b, ph, s).data EXCEPT ![ph] = p]]
  BY <1>3 DEF Inbox
<1> QED
  BY <1>3, <1>4, <1>5 DEF Inbox

LEMMA AcceptPhaseType ==
  ASSUME TypeOK, NEW b \in WriteBlock, NEW ph \in 0..Phases, NEW s \in SeqNo,
         NEW p \in Payload, AcceptPhase(b, ph, s, p)
  PROVE  TypeOK'
<1> DEFINE x == [Opened(b, ph, s) EXCEPT !.data[ph] = p]
           y == [x EXCEPT !.next = ph + 1]
<1>1. UNCHANGED <<readVars, statVars, cardVars, gateVars, portVars, session, paid>>
  BY DEF AcceptPhase
<1>2. CASE ~InOrder(b, ph, s)
  <2>1. ShortMsg("ACK", b, s, "BAD") \in Short
    BY HostIoAssumption, ShortType DEF Result
  <2>2. inbox' = None /\ queue' = queue
        /\ outbox' \in Seq(Short) /\ Len(outbox') <= OutboxLen
    BY <1>2, <2>1, SentProperties DEF AcceptPhase, Refuse, TypeOK
  <2> QED
    BY <1>1, <2>2 DEF TypeOK
<1>3. CASE InOrder(b, ph, s)
  <2>1. x \in Inbox
    BY <1>3, AssembledType
  <2> HIDE DEF x
  <2>2. ph + 1 < Phases => y \in Inbox
    <3>1. ph + 1 < Phases => ph + 1 \in Phase
      BY HostIoAssumption DEF Phase
    <3> QED
      BY <2>1, <3>1 DEF Inbox
  <2>3. /\ inbox' \in Inbox \cup {None}
        /\ queue' \in Seq(Entry) /\ Len(queue') <= QueueDepth
        /\ outbox' \in Seq(Short) /\ Len(outbox') <= OutboxLen
    <3>1. CASE inbox' = x /\ UNCHANGED <<queue, outbox>>
      BY <3>1, <2>1 DEF TypeOK
    <3>2. CASE ph + 1 < Phases /\ inbox' = y /\ UNCHANGED <<queue, outbox>>
      BY <3>2, <2>2 DEF TypeOK
    <3>3. CASE inbox' = None /\ Commit(x)
      BY <3>3, <2>1, CommitType
    <3> QED
      BY <1>3, <3>1, <3>2, <3>3 DEF AcceptPhase, x
  <2> QED
    BY <1>1, <2>3 DEF TypeOK
<1> QED
  BY <1>2, <1>3

LEMMA NoteContentsType ==
  ASSUME TypeOK, NEW b \in Block, NEW d \in Content, NoteContents(b, d)
  PROVE  /\ root' \in Content \cup {None} /\ fat' \in Content \cup {None}
         /\ card' \in (Content \X Content) \cup {None}
         /\ status_due' \in BOOLEAN
         /\ epoch' = epoch /\ verified' = verified
         /\ last_status' = last_status /\ heard' = heard
<1>1. root' \in Content \cup {None} /\ fat' \in Content \cup {None}
  BY DEF NoteContents, TypeOK
<1> QED
  BY <1>1 DEF NoteContents, TypeOK, CardMoves, Recomputed, Fingerprint

LEMMA BleTaskType ==
  ASSUME TypeOK, BleTask
  PROVE  TypeOK'
<1>1. ASSUME NEW seed \in Seeds, Reset(seed)
      PROVE  TypeOK'
  <2>1. epoch' \in Epoch
    BY <1>1, HostIoAssumption DEF Reset, TypeOK, Epoch
  <2> QED
    BY <1>1, <2>1, DropHostType DEF Reset, TypeOK
<1>2. CASE SessionEnds
  <2>1. /\ heard' = None /\ session' \in BOOLEAN
        /\ UNCHANGED <<outstanding, reply, status_due, last_status, epoch, card,
                       root, fat, verified, writes_open, writes_paused, idle,
                       vmu_present, inbox, queue, outbox, paid>>
    BY <1>2 DEF SessionEnds
  <2> QED
    BY <2>1 DEF TypeOK
<1>3. CASE PauseWritesUnlessDraining
  BY <1>3 DEF PauseWritesUnlessDraining, TypeOK
<1>4. ASSUME NEW b \in ReadBlock, AcceptRead(b)
      PROVE  TypeOK'
  <2>1. b \in Block
    BY HostIoAssumption
  <2>2. Terminal(b, "NO_VMU") \in Reply
    BY <2>1, TerminalType
  <2>3. [block |-> b, epoch |-> epoch, issued |-> FALSE] \in Pending
    BY <2>1 DEF TypeOK, Pending
  <2>4. outstanding' \in Pending \cup {None} /\ reply' \in Reply \cup {None}
    BY <1>4, <2>2, <2>3 DEF AcceptRead, NoReadUnanswered
  <2>5. UNCHANGED <<statVars, cardVars, gateVars, portVars, writeVars, session>>
    BY <1>4 DEF AcceptRead
  <2> QED
    BY <2>4, <2>5 DEF TypeOK
<1>5. CASE StatusAsked
  BY <1>5 DEF StatusAsked, TypeOK
<1>6. ASSUME NEW b \in WriteBlock, NEW ph \in 0..Phases, NEW s \in SeqNo,
             NEW p \in Payload, AcceptPhase(b, ph, s, p)
      PROVE  TypeOK'
  BY <1>6, AcceptPhaseType
<1>7. CASE NotifyStatus
  <2>1. Len(queue) \in Nat /\ QueueDepth \in Nat /\ Len(queue) <= QueueDepth
    BY LenProperties, HostIoAssumption DEF TypeOK
  <2>2. QueueFree \in 0..QueueDepth /\ Draining \in BOOLEAN
    BY <2>1 DEF QueueFree, Draining
  <2>3. Snapshot \in [present : BOOLEAN, idle : BOOLEAN, draining : BOOLEAN,
                      free : 0..QueueDepth]
    BY <2>2 DEF Snapshot, TypeOK
  <2>4. heard' \in [epoch : Epoch, card : (Content \X Content) \cup {None}]
    BY <1>7 DEF NotifyStatus, TypeOK
  <2>5. status_due' \in BOOLEAN /\ last_status' = Snapshot
        /\ UNCHANGED <<readVars, cardVars, gateVars, portVars, writeVars, session>>
    BY <1>7 DEF NotifyStatus
  <2> QED
    BY <2>3, <2>4, <2>5 DEF TypeOK
<1>8. CASE NotifyShort
  <2>1. outbox \in Seq(Short) /\ outbox # <<>> /\ outbox' = Tail(outbox)
    BY <1>8 DEF NotifyShort, TypeOK
  <2>2. outbox' \in Seq(Short) /\ Len(outbox') <= OutboxLen
    BY <2>1, HeadTailProperties, LenProperties, HostIoAssumption DEF TypeOK
  <2>3. paid' \in BOOLEAN
    BY <1>8 DEF NotifyShort, TypeOK
  <2>4. UNCHANGED <<readVars, statVars, cardVars, gateVars, portVars, inbox,
                    queue, session>>
    BY <1>8 DEF NotifyShort
  <2> QED
    BY <2>2, <2>3, <2>4 DEF TypeOK
<1>9. CASE NotifyWritten
  <2>1. PICK i \in DOMAIN queue : queue' = RemoveAt(queue, i)
    BY <1>9 DEF NotifyWritten
  <2>2. i \in 1..Len(queue) /\ queue \in Seq(Entry) /\ Len(queue) \in Nat
    BY LenProperties DEF TypeOK
  <2>3. queue' \in Seq(Entry) /\ Len(queue') = Len(queue) - 1
    BY <2>1, <2>2, RemoveAtProperties
  <2>4. Len(queue') <= QueueDepth
    BY <2>2, <2>3, HostIoAssumption DEF TypeOK
  <2> QED
    BY <1>9, <2>3, <2>4 DEF NotifyWritten, TypeOK
<1>10. CASE NotifyData
  <2>1. reply \in Reply /\ Phases \in Nat \ {0}
    BY <1>10, HostIoAssumption DEF NotifyData, TypeOK
  <2>2. ~(reply.next + 1 >= reply.phases)
          => [reply EXCEPT !.next = @ + 1] \in Reply
    BY <2>1 DEF Reply, Phase
  <2> QED
    BY <1>10, <2>2 DEF NotifyData, TypeOK
<1> QED
  BY <1>1, <1>2, <1>3, <1>4, <1>5, <1>6, <1>7, <1>8, <1>9, <1>10
     DEF BleTask, Dongle, Notify
LEMMA PublishBlockType ==
  ASSUME TypeOK, NEW b \in Block, NEW d \in [Phase -> Payload], PublishBlock(b, d)
  PROVE  TypeOK'
<1>1. d \in Content
  BY DEF Content
<1>2. [block |-> b, result |-> "OK", data |-> d, next |-> 0, phases |-> Phases]
        \in Reply
  BY <1>1, HostIoAssumption DEF Reply, Fate, Phase
<1>3. outstanding' = None /\ reply' \in Reply
      /\ UNCHANGED <<gateVars, portVars, writeVars, session>>
  BY <1>2 DEF PublishBlock
<1>4. NoteContents(b, d)
  BY DEF PublishBlock
<1> QED
  BY <1>1, <1>3, <1>4, NoteContentsType DEF TypeOK

LEMMA PublishWrittenType ==
  ASSUME TypeOK, NEW b \in Block, PublishWritten(b)
  PROVE  TypeOK'
<1>1. PICK i \in DOMAIN queue :
        /\ queue' = [queue EXCEPT ![i].slot = "OK"]
        /\ NoteContents(b, queue[i].data)
  BY DEF PublishWritten
<1>2. queue[i] \in Entry
  BY LenProperties, ElementOfSeq DEF TypeOK
<1>3. queue[i].data \in Content
  BY <1>2 DEF Entry
<1>4. queue' \in Seq(Entry) /\ Len(queue') <= QueueDepth
  BY <1>1, EntrySlot DEF TypeOK, Fate
<1>5. UNCHANGED <<readVars, gateVars, portVars, inbox, outbox, session, paid>>
  BY DEF PublishWritten
<1> QED
  BY <1>1, <1>3, <1>4, <1>5, NoteContentsType DEF TypeOK

LEMMA PollLoopType ==
  ASSUME TypeOK, PollLoop
  PROVE  TypeOK'
<1>1. CASE OpenWrites
  <2>1. writes_open' \in BOOLEAN
        /\ UNCHANGED <<readVars, statVars, cardVars, writes_paused, portVars,
                       writeVars, session>>
    BY <1>1 DEF OpenWrites
  <2> QED
    BY <2>1 DEF TypeOK
<1>2. CASE LinkDown
  <2>1. UNCHANGED <<heard, cardVars, gateVars, portVars, session>>
    BY <1>2 DEF LinkDown
  <2>2. /\ outstanding' = None /\ reply' = None /\ inbox' = None
        /\ status_due' \in BOOLEAN /\ UNCHANGED <<last_status, queue, paid>>
        /\ outbox' \in Seq(Short) /\ Len(outbox') <= OutboxLen
    BY <1>2, DropHostType DEF LinkDown
  <2> QED
    BY <2>1, <2>2 DEF TypeOK
<1>3. ASSUME NEW i \in BOOLEAN, SetIdle(i)
      PROVE  TypeOK'
  <2>1. idle' \in BOOLEAN /\ status_due' \in BOOLEAN
        /\ UNCHANGED <<readVars, last_status, heard, cardVars, gateVars,
                       vmu_present, writeVars, session>>
    BY <1>3 DEF SetIdle
  <2> QED
    BY <2>1 DEF TypeOK
<1>4. ASSUME NEW p \in BOOLEAN, SetVmuPresent(p)
      PROVE  TypeOK'
  BY <1>4, EndGenerationType DEF SetVmuPresent, TypeOK
<1>5. CASE TakeRequest
  <2>1. outstanding' \in Pending
    BY <1>5 DEF TakeRequest, TypeOK, Pending
  <2> QED
    BY <1>5, <2>1 DEF TakeRequest, TypeOK
<1>6. CASE Recall
  <2>1. outstanding' \in Pending
    BY <1>6 DEF Recall, TypeOK, Pending
  <2> QED
    BY <1>6, <2>1 DEF Recall, TypeOK
<1>7. CASE Answer
  <2>1. ReadBlock \subseteq Block
    BY HostIoAssumption
  <2>2. ASSUME NEW b \in Block, PublishFailure(b)
        PROVE  TypeOK'
    <3>1. Terminal(b, "FAILED") \in Reply
      BY TerminalType DEF Fate
    <3> QED
      BY <2>2, <3>1 DEF PublishFailure, TypeOK
  <2> QED
    BY <1>7, <2>1, <2>2, PublishBlockType DEF Answer
<1>8. CASE TakeWrite
  <2>1. PICK i \in DOMAIN queue : queue' = [queue EXCEPT ![i].slot = "Writing"]
    BY <1>8 DEF TakeWrite
  <2>2. queue' \in Seq(Entry) /\ Len(queue') <= QueueDepth
    BY <2>1, EntrySlot DEF TypeOK
  <2> QED
    BY <1>8, <2>2 DEF TakeWrite, TypeOK
<1>9. CASE Verdict
  <2>1. WriteBlock \subseteq Block
    BY HostIoAssumption
  <2>2. ASSUME NEW b \in Block, PublishWriteFailed(b)
        PROVE  TypeOK'
    <3>1. PICK i \in DOMAIN queue :
            EndGeneration([queue EXCEPT ![i].slot = "FAILED"])
      BY <2>2 DEF PublishWriteFailed
    <3>2. /\ [queue EXCEPT ![i].slot = "FAILED"] \in Seq(Entry)
          /\ Len([queue EXCEPT ![i].slot = "FAILED"]) <= QueueDepth
      BY EntrySlot DEF TypeOK, Fate
    <3>3. vmu_present' \in BOOLEAN
      BY <2>2 DEF PublishWriteFailed, TypeOK
    <3> QED
      BY <3>1, <3>2, <3>3, EndGenerationType
  <2>3. ASSUME NEW b \in Block, PublishUnidentified(b)
        PROVE  TypeOK'
    BY <2>3, EndGenerationType DEF PublishUnidentified, TypeOK
  <2> QED
    BY <1>9, <2>1, <2>2, <2>3, PublishWrittenType DEF Verdict
<1>10. CASE NoteCardVerified
  <2>1. verified' \in BOOLEAN
        /\ UNCHANGED <<readVars, statVars, epoch, card, root, fat, gateVars,
                       portVars, writeVars, session>>
    BY <1>10 DEF NoteCardVerified
  <2> QED
    BY <2>1 DEF TypeOK
<1>11. CASE NoteEnumerated
  <2>1. verified' \in BOOLEAN
        /\ UNCHANGED <<readVars, statVars, epoch, card, root, fat, gateVars,
                       portVars, writeVars, session>>
    BY <1>11 DEF NoteEnumerated
  <2> QED
    BY <2>1 DEF TypeOK
<1> QED
  BY <1>1, <1>2, <1>3, <1>4, <1>5, <1>6, <1>7, <1>8, <1>9, <1>10, <1>11
     DEF PollLoop

LEMMA TypeInit == Init => TypeOK
<1> SUFFICES ASSUME Init PROVE TypeOK
  OBVIOUS
<1>1. <<>> \in Seq(Entry) /\ <<>> \in Seq(Short) /\ Len(<<>>) = 0
  BY EmptySeq
<1>2. 0 \in Epoch /\ QueueDepth \in Nat /\ OutboxLen \in Nat
  BY HostIoAssumption DEF Epoch
<1>3. /\ status_due \in BOOLEAN /\ idle \in BOOLEAN /\ vmu_present \in BOOLEAN
      /\ verified \in BOOLEAN /\ writes_open \in BOOLEAN
      /\ writes_paused \in BOOLEAN /\ session \in BOOLEAN /\ paid \in BOOLEAN
  BY DEF Init
<1>4. /\ outstanding = None /\ reply = None /\ last_status = None
      /\ heard = None /\ epoch = 0 /\ card = None /\ root = None /\ fat = None
      /\ inbox = None /\ queue = <<>> /\ outbox = <<>>
  BY DEF Init
<1> QED
  BY <1>1, <1>2, <1>3, <1>4 DEF TypeOK

LEMMA TypeNext == TypeOK /\ [Next]_vars => TypeOK'
<1>1. TypeOK /\ UNCHANGED vars => TypeOK'
  BY DEF TypeOK, vars
<1> QED
  BY <1>1, BleTaskType, PollLoopType DEF Next

(* Every variable of the storage service keeps its type, and the queue and the
   outbox never outgrow their arrays, whatever the constants: host_vmu_io.rs
   HostIo. *)
THEOREM TypeCorrect == Spec => []TypeOK
BY TypeInit, TypeNext, PTL DEF Spec
-----------------------------------------------------------------------------
(* Generations.  The strengthening: a port that has shown a card, like a
   session, has moved the epoch off 0, so `reset` cannot reseed under it. *)

GenerationInv ==
  /\ LiveOfThisCard
  /\ CardAsDocked
  /\ ReadInOnePlace
  /\ HeardIsCurrent
  /\ PausedMeansDrained
  /\ epoch = 0 => ~vmu_present
  /\ heard # None => session

LEMMA EndGenerationSafe ==
  ASSUME TypeOK, GenerationInv, MaxEpoch < EpochMod,
         NEW q \in Seq(Entry), EndGeneration(q)
  PROVE  GenerationInv'
<1>1. epoch' # 0
  BY HostIoAssumption DEF EndGeneration, TypeOK, Epoch
<1>2. \A i \in DOMAIN queue' : ~Live(queue'[i])
  <2>1. DOMAIN queue' = DOMAIN q /\ DOMAIN q = 1..Len(q)
    BY LenProperties DEF EndGeneration, DiscardLive
  <2>2. ASSUME NEW i \in DOMAIN q
        PROVE  DiscardLive(q)[i].slot \notin {"Staged", "Writing"}
    <3>1. q[i] \in Entry
      BY <2>1, ElementOfSeq
    <3>2. CASE Live(q[i])
      BY <3>1, <3>2 DEF DiscardLive, Entry
    <3>3. CASE ~Live(q[i])
      BY <3>3 DEF DiscardLive, Live
    <3> QED
      BY <3>2, <3>3
  <2> QED
    BY <2>1, <2>2 DEF EndGeneration, Live
<1>3. LiveOfThisCard' /\ PausedMeansDrained'
  BY <1>2 DEF LiveOfThisCard, PausedMeansDrained, Draining, InSlot, Live
<1>4. CardAsDocked'
  BY DEF EndGeneration, CardAsDocked, Fingerprint
<1>5. ReadInOnePlace'
  BY DEF EndGeneration, ReadInOnePlace, DiscardedRead, Terminal
<1>6. HeardIsCurrent'
  BY DEF EndGeneration, HeardIsCurrent
<1>7. (heard # None => session)'
  BY DEF EndGeneration, GenerationInv
<1> QED
  BY <1>1, <1>3, <1>4, <1>5, <1>6, <1>7 DEF GenerationInv

(* Learning or rewriting one half keeps the card known, if it was. *)
LEMMA NoteContentsSafe ==
  ASSUME TypeOK, CardAsDocked, HeardIsCurrent, vmu_present, vmu_present' = vmu_present,
         NEW b \in Block, NEW d \in Content, NoteContents(b, d)
  PROVE  /\ CardAsDocked' /\ HeardIsCurrent'
         /\ card # None => card' # None
<1>1. root' = (IF b = Root THEN d ELSE root) /\ fat' = (IF b = Fat THEN d ELSE fat)
      /\ card' = Fingerprint(root', fat') /\ status_due' = (status_due \/ card' # card)
      /\ UNCHANGED <<epoch, verified, last_status, heard>>
  BY DEF NoteContents, CardMoves, Recomputed
<1>2. card # None => card' # None
  <2>1. SUFFICES ASSUME card # None PROVE card' # None
    OBVIOUS
  <2>2. root # None /\ fat # None
    BY <2>1 DEF CardAsDocked, Fingerprint
  <2>3. root' \in Content /\ fat' \in Content
    BY <1>1, <2>2 DEF TypeOK
  <2>4. card' \in Content \X Content
    BY <1>1, <2>3, NoneAssumption DEF Fingerprint
  <2> QED
    BY <2>4, NoneAssumption
<1>3. CardAsDocked'
  BY <1>1, <1>2 DEF CardAsDocked
<1>4. HeardIsCurrent'
  BY <1>1 DEF HeardIsCurrent
<1> QED
  BY <1>2, <1>3, <1>4
(* A step that adds no save keeps what the live ones rest on. *)
LEMMA NoNewSave ==
  ASSUME LiveOfThisCard, PausedMeansDrained,
         UNCHANGED <<epoch, vmu_present>>, card # None => card' # None,
         writes_paused' => writes_paused,
         \A i \in DOMAIN queue' :
           Live(queue'[i]) => \E j \in DOMAIN queue :
                                /\ Live(queue[j])
                                /\ queue[j].epoch = queue'[i].epoch
  PROVE  LiveOfThisCard' /\ PausedMeansDrained'
<1>1. LiveOfThisCard'
  BY DEF LiveOfThisCard
<1>2. PausedMeansDrained'
  <2>1. SUFFICES ASSUME writes_paused', NEW i \in DOMAIN queue',
                        Live(queue'[i])
                 PROVE  FALSE
    BY DEF PausedMeansDrained, Draining, InSlot, Live
  <2>2. PICK j \in DOMAIN queue : Live(queue[j])
    BY <2>1
  <2> QED
    BY <2>1, <2>2 DEF PausedMeansDrained, Draining, InSlot, Live
<1> QED
  BY <1>1, <1>2

LEMMA QueueUntouched ==
  ASSUME LiveOfThisCard, PausedMeansDrained, queue' = queue,
         UNCHANGED <<epoch, vmu_present>>, card # None => card' # None,
         writes_paused' => writes_paused
  PROVE  LiveOfThisCard' /\ PausedMeansDrained'
BY NoNewSave

(* A save enters only while the card is known and admission is open. *)
LEMMA CommitSafe ==
  ASSUME TypeOK, GenerationInv, NEW x \in Inbox, Commit(x),
         UNCHANGED <<epoch, vmu_present, card, writes_paused>>
  PROVE  LiveOfThisCard' /\ PausedMeansDrained'
<1>1. CASE queue' = queue
  BY <1>1, QueueUntouched DEF GenerationInv
<1>2. ASSUME NEW i \in DOMAIN queue,
             queue' = [queue EXCEPT ![i].seq = x.seq, ![i].data = x.data],
             i \in Replaceable(x.block)
      PROVE  LiveOfThisCard' /\ PausedMeansDrained'
  <2>1. DOMAIN queue' = DOMAIN queue
    BY <1>2
  <2>2. \A j \in DOMAIN queue : /\ queue[j] \in Entry
                                /\ queue'[j].slot = queue[j].slot
                                /\ queue'[j].epoch = queue[j].epoch
    <3>1. \A j \in DOMAIN queue : queue[j] \in Entry
      BY LenProperties, ElementOfSeq DEF TypeOK
    <3> QED
      BY <3>1, <1>2 DEF Entry
  <2> QED
    BY <2>1, <2>2, NoNewSave DEF GenerationInv, Live
<1>3. ASSUME vmu_present, Admitting,
             queue' = Append(queue, [slot |-> "Staged", block |-> x.block,
                                     seq |-> x.seq, epoch |-> epoch,
                                     data |-> x.data])
      PROVE  LiveOfThisCard' /\ PausedMeansDrained'
  <2> DEFINE e == [slot |-> "Staged", block |-> x.block, seq |-> x.seq,
                   epoch |-> epoch, data |-> x.data]
  <2>1. queue \in Seq(Entry) /\ Len(queue) \in Nat
        /\ DOMAIN queue = 1..Len(queue)
    BY LenProperties DEF TypeOK
  <2>2. e.epoch = epoch
    OBVIOUS
  <2> HIDE DEF e
  <2>3. \A i \in DOMAIN queue' : (i \in DOMAIN queue /\ queue'[i] = queue[i])
                                \/ queue'[i] = e
    BY <1>3, <2>1 DEF e
  <2>4. LiveOfThisCard'
    BY <1>3, <2>2, <2>3 DEF GenerationInv, LiveOfThisCard, Admitting
  <2>5. PausedMeansDrained'
    BY <1>3 DEF Admitting, PausedMeansDrained
  <2> QED
    BY <2>4, <2>5
<1>4. CASE CommitRefused(x)
  BY <1>1, <1>4 DEF CommitRefused, Refuse
<1>5. CASE CommitAgain(x)
  BY <1>1, <1>5 DEF CommitAgain
<1>6. CASE CommitCoalesced(x)
  BY <1>1, <1>2, <1>6 DEF CommitCoalesced, IsFirst
<1>7. CASE CommitStaged(x)
  BY <1>1, <1>3, <1>7 DEF CommitStaged
<1> QED
  BY <1>4, <1>5, <1>6, <1>7 DEF Commit
LEMMA BleTaskSafe ==
  ASSUME TypeOK, GenerationInv, BleTask
  PROVE  GenerationInv'
<1> USE DEF GenerationInv
<1>1. ASSUME NEW seed \in Seeds, Reset(seed)
      PROVE  GenerationInv'
  <2>1. /\ outstanding' = None /\ reply' = None /\ heard' = None
        /\ status_due' = FALSE /\ queue' = queue /\ ~writes_paused'
        /\ UNCHANGED <<card, root, fat, verified, vmu_present>>
    BY <1>1 DEF Reset, DropHost
  <2>2. epoch' # 0 /\ (epoch' # epoch => epoch = 0)
    BY <1>1 DEF Reset
  <2>3. LiveOfThisCard' /\ PausedMeansDrained'
    BY <2>1, <2>2 DEF LiveOfThisCard, PausedMeansDrained
  <2>4. CardAsDocked' /\ ReadInOnePlace' /\ HeardIsCurrent'
    BY <2>1 DEF CardAsDocked, ReadInOnePlace, HeardIsCurrent, Fingerprint
  <2> QED
    BY <2>1, <2>2, <2>3, <2>4
<1>2. CASE SessionEnds
  <2>1. heard' = None /\ UNCHANGED <<outstanding, reply, status_due, queue, epoch,
          card, root, fat, verified, vmu_present, writes_paused>>
    BY <1>2 DEF SessionEnds
  <2>2. LiveOfThisCard' /\ PausedMeansDrained'
    BY <2>1, QueueUntouched
  <2>3. CardAsDocked' /\ ReadInOnePlace' /\ HeardIsCurrent'
    BY <2>1 DEF CardAsDocked, ReadInOnePlace, HeardIsCurrent, Fingerprint
  <2> QED
    BY <2>1, <2>2, <2>3
<1>3. CASE PauseWritesUnlessDraining
  <2>1. /\ ~Draining
        /\ UNCHANGED <<outstanding, reply, status_due, heard, queue, epoch, card,
                       root, fat, verified, vmu_present, session>>
    BY <1>3 DEF PauseWritesUnlessDraining
  <2>2. PausedMeansDrained' /\ LiveOfThisCard'
    BY <2>1 DEF PausedMeansDrained, LiveOfThisCard, Draining, InSlot, Live
  <2>3. CardAsDocked' /\ ReadInOnePlace' /\ HeardIsCurrent'
    BY <2>1 DEF CardAsDocked, ReadInOnePlace, HeardIsCurrent, Fingerprint
  <2> QED
    BY <2>1, <2>2, <2>3
<1>4. ASSUME NEW b \in ReadBlock, AcceptRead(b)
      PROVE  GenerationInv'
  <2>1. UNCHANGED <<status_due, heard, queue, epoch, card, root, fat, verified,
                    vmu_present, session, writes_paused>>
    BY <1>4 DEF AcceptRead
  <2>2. ReadInOnePlace'
    BY <1>4, <2>1 DEF AcceptRead, NoReadUnanswered, ReadInOnePlace, Terminal
  <2>3. LiveOfThisCard' /\ PausedMeansDrained'
    BY <2>1, QueueUntouched
  <2>4. CardAsDocked' /\ HeardIsCurrent'
    BY <2>1 DEF CardAsDocked, HeardIsCurrent, Fingerprint
  <2> QED
    BY <2>1, <2>2, <2>3, <2>4
<1>5. CASE StatusAsked
  <2>1. status_due' /\ UNCHANGED <<outstanding, reply, heard, queue, epoch, card,
          root, fat, verified, vmu_present, session, writes_paused>>
    BY <1>5 DEF StatusAsked
  <2>2. LiveOfThisCard' /\ PausedMeansDrained'
    BY <2>1, QueueUntouched
  <2>3. CardAsDocked' /\ ReadInOnePlace' /\ HeardIsCurrent'
    BY <2>1 DEF CardAsDocked, ReadInOnePlace, HeardIsCurrent, Fingerprint
  <2> QED
    BY <2>1, <2>2, <2>3
<1>6. ASSUME NEW b \in WriteBlock, NEW ph \in 0..Phases, NEW s \in SeqNo,
             NEW p \in Payload, AcceptPhase(b, ph, s, p)
      PROVE  GenerationInv'
  <2>1. UNCHANGED <<outstanding, reply, status_due, heard, epoch, card, root, fat,
                    verified, vmu_present, session, writes_paused>>
    BY <1>6 DEF AcceptPhase
  <2>2. queue' = queue \/ \E x \in Inbox : Commit(x)
    <3>1. CASE ~InOrder(b, ph, s)
      BY <1>6, <3>1 DEF AcceptPhase, Refuse
    <3>2. CASE InOrder(b, ph, s)
      <4> DEFINE x == [Opened(b, ph, s) EXCEPT !.data[ph] = p]
      <4>1. x \in Inbox
        BY <3>2, AssembledType
      <4> HIDE DEF x
      <4> QED
        BY <1>6, <3>2, <4>1 DEF AcceptPhase, x
    <3> QED
      BY <3>1, <3>2
  <2>3. LiveOfThisCard' /\ PausedMeansDrained'
    BY <2>1, <2>2, QueueUntouched, CommitSafe
  <2>4. CardAsDocked' /\ ReadInOnePlace' /\ HeardIsCurrent'
    BY <2>1 DEF CardAsDocked, ReadInOnePlace, HeardIsCurrent, Fingerprint
  <2> QED
    BY <2>1, <2>3, <2>4
<1>7. CASE NotifyStatus
  <2>1. /\ heard' = [epoch |-> epoch, card |-> card] /\ session
        /\ UNCHANGED <<outstanding, reply, queue, epoch, card, root, fat, verified,
                       vmu_present, session, writes_paused>>
    BY <1>7 DEF NotifyStatus
  <2>2. LiveOfThisCard' /\ PausedMeansDrained'
    BY <2>1, QueueUntouched
  <2>3. CardAsDocked' /\ ReadInOnePlace' /\ HeardIsCurrent'
    BY <2>1 DEF CardAsDocked, ReadInOnePlace, HeardIsCurrent, Fingerprint
  <2> QED
    BY <2>1, <2>2, <2>3
<1>8. CASE NotifyShort
  <2>1. UNCHANGED <<outstanding, reply, status_due, heard, queue, epoch, card, root,
                    fat, verified, vmu_present, session, writes_paused>>
    BY <1>8 DEF NotifyShort
  <2>2. LiveOfThisCard' /\ PausedMeansDrained'
    BY <2>1, QueueUntouched
  <2>3. CardAsDocked' /\ ReadInOnePlace' /\ HeardIsCurrent'
    BY <2>1 DEF CardAsDocked, ReadInOnePlace, HeardIsCurrent, Fingerprint
  <2> QED
    BY <2>1, <2>2, <2>3
<1>9. CASE NotifyWritten
  <2>1. UNCHANGED <<outstanding, reply, status_due, heard, epoch, card, root,
                    fat, verified, vmu_present, session, writes_paused>>
    BY <1>9 DEF NotifyWritten
  <2>2. PICK i \in DOMAIN queue : queue' = RemoveAt(queue, i)
    BY <1>9 DEF NotifyWritten
  <2>3. queue \in Seq(Entry) /\ i \in 1..Len(queue) /\ Len(queue) \in Nat
        /\ DOMAIN queue = 1..Len(queue)
    BY LenProperties DEF TypeOK
  <2>4. queue' \in Seq(Entry) /\ Len(queue') = Len(queue) - 1
        /\ \A k \in 1..(Len(queue) - 1) :
             queue'[k] = IF k < i THEN queue[k] ELSE queue[k + 1]
    BY <2>2, <2>3, RemoveAtProperties
  <2>5. DOMAIN queue' = 1..(Len(queue) - 1)
    BY <2>4, LenProperties
  <2>6. \A k \in DOMAIN queue' : \E j \in DOMAIN queue : queue'[k] = queue[j]
    <3>1. ASSUME NEW k \in 1..(Len(queue) - 1)
          PROVE  \E j \in 1..Len(queue) : queue'[k] = queue[j]
      <4>1. k \in 1..Len(queue) /\ k + 1 \in 1..Len(queue)
        BY <2>3
      <4> QED
        BY <2>4, <4>1
    <3> QED
      BY <2>3, <2>5, <3>1
  <2>7. LiveOfThisCard' /\ PausedMeansDrained'
    BY <2>1, <2>6, NoNewSave
  <2>8. CardAsDocked' /\ ReadInOnePlace' /\ HeardIsCurrent'
    BY <2>1 DEF CardAsDocked, ReadInOnePlace, HeardIsCurrent, Fingerprint
  <2> QED
    BY <2>1, <2>7, <2>8
<1>10. CASE NotifyData
  <2>1. UNCHANGED <<outstanding, status_due, heard, queue, epoch, card, root,
                    fat, verified, vmu_present, session, writes_paused>>
    BY <1>10 DEF NotifyData
  <2>2. reply \in Reply /\ (reply' = None \/ reply'.result = reply.result)
    BY <1>10 DEF NotifyData, TypeOK, Reply
  <2>3. ReadInOnePlace'
    BY <1>10, <2>1, <2>2 DEF NotifyData, ReadInOnePlace
  <2>4. LiveOfThisCard' /\ PausedMeansDrained'
    BY <2>1, QueueUntouched
  <2>5. CardAsDocked' /\ HeardIsCurrent'
    BY <2>1 DEF CardAsDocked, HeardIsCurrent, Fingerprint
  <2> QED
    BY <2>1, <2>3, <2>4, <2>5
<1> QED
  BY <1>1, <1>2, <1>3, <1>4, <1>5, <1>6, <1>7, <1>8, <1>9, <1>10
     DEF BleTask, Dongle, Notify
(* A slot of the queue moves on to r, everything else in it as it was. *)
LEMMA SlotMoves ==
  ASSUME TypeOK, NEW i \in DOMAIN queue, NEW r \in {"Staged", "Writing"} \cup Fate,
         queue' = [queue EXCEPT ![i].slot = r]
  PROVE  /\ DOMAIN queue' = DOMAIN queue
         /\ \A j \in DOMAIN queue :
              /\ queue[j] \in Entry
              /\ queue'[j].block = queue[j].block
              /\ queue'[j].seq = queue[j].seq
              /\ queue'[j].epoch = queue[j].epoch
              /\ queue'[j].data = queue[j].data
              /\ queue'[j].slot = IF j = i THEN r ELSE queue[j].slot
<1>1. \A j \in DOMAIN queue : queue[j] \in Entry
  BY LenProperties, ElementOfSeq DEF TypeOK
<1> QED
  BY <1>1 DEF Entry

LEMMA PollLoopSafe ==
  ASSUME TypeOK, GenerationInv, MaxEpoch < EpochMod, PollLoop
  PROVE  GenerationInv'
<1> USE DEF GenerationInv
<1>1. CASE OpenWrites
  <2>1. UNCHANGED <<outstanding, reply, status_due, heard, queue, epoch, card, root,
                    fat, verified, vmu_present, session, writes_paused>>
    BY <1>1 DEF OpenWrites
  <2>2. LiveOfThisCard' /\ PausedMeansDrained'
    BY <2>1, QueueUntouched
  <2>3. CardAsDocked' /\ ReadInOnePlace' /\ HeardIsCurrent'
    BY <2>1 DEF CardAsDocked, ReadInOnePlace, HeardIsCurrent, Fingerprint
  <2> QED
    BY <2>1, <2>2, <2>3
<1>2. CASE LinkDown
  <2>1. /\ ~session /\ outstanding' = None /\ reply' = None
        /\ UNCHANGED <<heard, queue, epoch, card, root, fat, verified, vmu_present,
                       session, writes_paused>>
    BY <1>2 DEF LinkDown, DropHost
  <2>2. LiveOfThisCard' /\ PausedMeansDrained'
    BY <2>1, QueueUntouched
  <2>3. CardAsDocked' /\ ReadInOnePlace' /\ HeardIsCurrent'
    BY <2>1 DEF CardAsDocked, ReadInOnePlace, HeardIsCurrent, Fingerprint
  <2> QED
    BY <2>1, <2>2, <2>3
<1>3. ASSUME NEW i \in BOOLEAN, SetIdle(i)
      PROVE  GenerationInv'
  <2>1. status_due' /\ UNCHANGED <<outstanding, reply, heard, queue, epoch, card,
          root, fat, verified, vmu_present, session, writes_paused>>
    BY <1>3 DEF SetIdle
  <2>2. LiveOfThisCard' /\ PausedMeansDrained'
    BY <2>1, QueueUntouched
  <2>3. CardAsDocked' /\ ReadInOnePlace' /\ HeardIsCurrent'
    BY <2>1 DEF CardAsDocked, ReadInOnePlace, HeardIsCurrent, Fingerprint
  <2> QED
    BY <2>1, <2>2, <2>3
<1>4. ASSUME NEW p \in BOOLEAN, SetVmuPresent(p)
      PROVE  GenerationInv'
  BY <1>4, EndGenerationSafe DEF SetVmuPresent, TypeOK
<1>5. ASSUME TakeRequest \/ Recall
      PROVE  GenerationInv'
  <2>1. UNCHANGED <<reply, status_due, heard, queue, epoch, card, root, fat,
                    verified, vmu_present, session, writes_paused>>
    BY <1>5 DEF TakeRequest, Recall
  <2>2. /\ outstanding # None /\ outstanding.epoch = epoch
        /\ outstanding'.epoch = outstanding.epoch
    BY <1>5 DEF TakeRequest, Recall, ReadInOnePlace, TypeOK, Pending
  <2>3. ReadInOnePlace'
    BY <2>1, <2>2 DEF ReadInOnePlace
  <2>4. LiveOfThisCard' /\ PausedMeansDrained'
    BY <2>1, QueueUntouched
  <2>5. CardAsDocked' /\ HeardIsCurrent'
    BY <2>1 DEF CardAsDocked, HeardIsCurrent, Fingerprint
  <2> QED
    BY <2>1, <2>3, <2>4, <2>5
<1>6. ASSUME NEW b \in Block, NEW d \in [Phase -> Payload], PublishBlock(b, d)
      PROVE  GenerationInv'
  <2>1. /\ outstanding' = None /\ vmu_present /\ NoteContents(b, d)
        /\ UNCHANGED <<vmu_present, queue, session, writes_paused>>
    BY <1>6 DEF PublishBlock, ReadInOnePlace
  <2>2. epoch' = epoch /\ heard' = heard
    BY <2>1 DEF NoteContents
  <2>3. CardAsDocked' /\ HeardIsCurrent' /\ (card # None => card' # None)
    BY <2>1, NoteContentsSafe DEF Content
  <2>4. ReadInOnePlace'
    BY <2>1 DEF ReadInOnePlace
  <2>5. LiveOfThisCard' /\ PausedMeansDrained'
    BY <2>1, <2>2, <2>3, QueueUntouched
  <2> QED
    BY <2>1, <2>2, <2>3, <2>4, <2>5
<1>7. ASSUME NEW b \in Block, PublishFailure(b)
      PROVE  GenerationInv'
  <2>1. outstanding' = None /\ reply'.result = "FAILED"
        /\ UNCHANGED <<status_due, heard, queue, epoch, card, root, fat, verified,
                       vmu_present, session, writes_paused>>
    BY <1>7 DEF PublishFailure, Terminal
  <2>2. LiveOfThisCard' /\ PausedMeansDrained'
    BY <2>1, QueueUntouched
  <2>3. CardAsDocked' /\ ReadInOnePlace' /\ HeardIsCurrent'
    BY <2>1 DEF CardAsDocked, ReadInOnePlace, HeardIsCurrent, Fingerprint
  <2> QED
    BY <2>1, <2>2, <2>3
<1>8. CASE TakeWrite
  <2>1. UNCHANGED <<outstanding, reply, status_due, heard, epoch, card, root, fat,
                    verified, vmu_present, session, writes_paused>>
    BY <1>8 DEF TakeWrite
  <2>2. PICK i \in DOMAIN queue : /\ queue' = [queue EXCEPT ![i].slot = "Writing"]
                                 /\ queue[i].slot = "Staged"
    BY <1>8 DEF TakeWrite, IsFirst, InSlot
  <2>3. \A j \in DOMAIN queue' : Live(queue'[j]) =>
          j \in DOMAIN queue /\ Live(queue[j]) /\ queue[j].epoch = queue'[j].epoch
    BY <2>2, SlotMoves DEF Live
  <2>4. LiveOfThisCard' /\ PausedMeansDrained'
    BY <2>1, <2>3, NoNewSave
  <2>5. CardAsDocked' /\ ReadInOnePlace' /\ HeardIsCurrent'
    BY <2>1 DEF CardAsDocked, ReadInOnePlace, HeardIsCurrent, Fingerprint
  <2> QED
    BY <2>1, <2>4, <2>5
<1>9. ASSUME NEW b \in Block, PublishWritten(b)
      PROVE  GenerationInv'
  <2>1. PICK i \in DOMAIN queue : /\ queue' = [queue EXCEPT ![i].slot = "OK"]
                                 /\ queue[i].slot = "Writing"
                                 /\ NoteContents(b, queue[i].data)
    BY <1>9 DEF PublishWritten, IsFirst, Writing, InSlot
  <2>2. UNCHANGED <<outstanding, reply, heard, epoch, vmu_present, session,
                    writes_paused>>
    BY <1>9, <2>1 DEF PublishWritten, NoteContents
  <2>3. vmu_present
    BY <2>1 DEF LiveOfThisCard, Live
  <2>4. queue[i].data \in Content
    BY <2>1, SlotMoves DEF Entry, Fate
  <2>5. CardAsDocked' /\ HeardIsCurrent' /\ (card # None => card' # None)
    BY <2>1, <2>2, <2>3, <2>4, NoteContentsSafe
  <2>6. \A j \in DOMAIN queue' : Live(queue'[j]) =>
          j \in DOMAIN queue /\ Live(queue[j]) /\ queue[j].epoch = queue'[j].epoch
    BY <2>1, SlotMoves DEF Live, Fate
  <2>7. LiveOfThisCard' /\ PausedMeansDrained'
    BY <2>2, <2>5, <2>6, NoNewSave
  <2>8. ReadInOnePlace'
    BY <2>2 DEF ReadInOnePlace
  <2> QED
    BY <2>2, <2>5, <2>7, <2>8
<1>10. ASSUME NEW b \in Block, PublishWriteFailed(b)
       PROVE  GenerationInv'
  <2>1. PICK i \in DOMAIN queue :
          EndGeneration([queue EXCEPT ![i].slot = "FAILED"])
    BY <1>10 DEF PublishWriteFailed
  <2>2. [queue EXCEPT ![i].slot = "FAILED"] \in Seq(Entry)
    BY EntrySlot DEF TypeOK, Fate
  <2> QED
    BY <2>1, <2>2, EndGenerationSafe
<1>11. ASSUME NEW b \in Block, PublishUnidentified(b)
       PROVE  GenerationInv'
  BY <1>11, EndGenerationSafe DEF PublishUnidentified, TypeOK
<1>12. ASSUME NoteCardVerified \/ NoteEnumerated
       PROVE  GenerationInv'
  <2>1. UNCHANGED <<outstanding, reply, status_due, heard, queue, epoch, card, root,
                    fat, vmu_present, session, writes_paused>>
    BY <1>12 DEF NoteCardVerified, NoteEnumerated
  <2>2. verified' => card # None
    BY <1>12 DEF NoteCardVerified, NoteEnumerated, Writing, InSlot,
                 LiveOfThisCard, Live
  <2>3. LiveOfThisCard' /\ PausedMeansDrained'
    BY <2>1, QueueUntouched
  <2>4. CardAsDocked' /\ ReadInOnePlace' /\ HeardIsCurrent'
    BY <2>1, <2>2 DEF CardAsDocked, ReadInOnePlace, HeardIsCurrent, Fingerprint
  <2> QED
    BY <2>1, <2>3, <2>4
<1> QED
  <2>1. ReadBlock \subseteq Block /\ WriteBlock \subseteq Block
    BY HostIoAssumption
  <2> QED
    BY <2>1, <1>1, <1>2, <1>3, <1>4, <1>5, <1>6, <1>7, <1>8, <1>9, <1>10, <1>11,
       <1>12 DEF PollLoop, Answer, Verdict

LEMMA GenerationInit == Init => GenerationInv
BY DEF Init, GenerationInv, LiveOfThisCard, CardAsDocked, ReadInOnePlace,
       HeardIsCurrent, PausedMeansDrained, Fingerprint

LEMMA GenerationNext ==
  ASSUME MaxEpoch < EpochMod
  PROVE  TypeOK /\ GenerationInv /\ [Next]_vars => GenerationInv'
<1>1. ASSUME GenerationInv, UNCHANGED vars
      PROVE  GenerationInv'
  <2>1. UNCHANGED <<outstanding, reply, status_due, heard, queue, epoch, card, root,
                    fat, verified, vmu_present, session, writes_paused>>
    BY <1>1 DEF vars
  <2>2. LiveOfThisCard' /\ PausedMeansDrained'
    BY <1>1, <2>1, QueueUntouched DEF GenerationInv
  <2>3. CardAsDocked' /\ ReadInOnePlace' /\ HeardIsCurrent'
    BY <1>1, <2>1 DEF CardAsDocked, ReadInOnePlace, HeardIsCurrent, Fingerprint,
                      GenerationInv
  <2> QED
    BY <1>1, <2>1, <2>2, <2>3 DEF GenerationInv
<1> QED
  BY <1>1, BleTaskSafe, PollLoopSafe DEF Next

LEMMA GenerationHolds ==
  ASSUME MaxEpoch < EpochMod
  PROVE  Spec => []GenerationInv
<1>1. TypeOK /\ GenerationInv /\ [Next]_vars => GenerationInv'
  BY GenerationNext
<1> QED
  BY <1>1, GenerationInit, TypeCorrect, PTL DEF Spec

(* "Every live entry is of the current one": short of 2^32 generations in one
   power cycle, a save waiting or being written belongs to the card docked now,
   whatever was pulled, dropped or reset since: end_generation, reset, commit. *)
THEOREM LiveEntriesAreCurrent ==
  ASSUME MaxEpoch < EpochMod
  PROVE  Spec => []LiveOfThisCard
<1>1. GenerationInv => LiveOfThisCard
  BY DEF GenerationInv
<1> QED
  BY <1>1, GenerationHolds, PTL

(* What the service knows of the card it learnt since the card was docked, and
   `card` is the fingerprint of both halves: recompute_card, end_generation. *)
THEOREM CardDescribesTheDocked ==
  ASSUME MaxEpoch < EpochMod
  PROVE  Spec => []CardAsDocked
<1>1. GenerationInv => CardAsDocked
  BY DEF GenerationInv
<1> QED
  BY <1>1, GenerationHolds, PTL

(* A READ is owed in one place, and data only from a card still docked:
   accept_read, publish_block, end_generation. *)
THEOREM ReadOwedOnce ==
  ASSUME MaxEpoch < EpochMod
  PROVE  Spec => []ReadInOnePlace
<1>1. GenerationInv => ReadInOnePlace
  BY DEF GenerationInv
<1> QED
  BY <1>1, GenerationHolds, PTL

(* With no STATUS due the dongle has been told the epoch and card that hold
   now: status_due in recompute_card and end_generation, advance. *)
THEOREM DongleKnowsGeneration ==
  ASSUME MaxEpoch < EpochMod
  PROVE  Spec => []HeardIsCurrent
<1>1. GenerationInv => HeardIsCurrent
  BY DEF GenerationInv
<1> QED
  BY <1>1, GenerationHolds, PTL

(* Nothing is acknowledged between a gesture's drain check and the end of the
   session it brings: pause_writes_unless_draining. *)
THEOREM PauseKeepsDrained ==
  ASSUME MaxEpoch < EpochMod
  PROVE  Spec => []PausedMeansDrained
<1>1. GenerationInv => PausedMeansDrained
  BY DEF GenerationInv
<1> QED
  BY <1>1, GenerationHolds, PTL

-----------------------------------------------------------------------------
(* What every save in the queue is, whatever happened to the link and the
   port: whole, staged once, and drained in its turn; the READ half's promise
   that no READ is forgotten within a session; and that the service implements
   SaveLedger. *)

USE DEF readVars, statVars, cardVars, gateVars, portVars, writeVars

(* The phases of the block being assembled that have come in. *)
InboxFilled ==
  inbox # None => \A ph \in Phase : ph < inbox.next => inbox.data[ph] \in Payload

QueueInv == DrainInOrder /\ OneSlotPerSave /\ StagedWhole /\ InboxFilled

LEMMA QueueType ==
  ASSUME TypeOK
  PROVE  /\ Len(queue) \in Nat /\ DOMAIN queue = 1..Len(queue)
         /\ \A i \in DOMAIN queue : queue[i] \in Entry
BY LenProperties, ElementOfSeq DEF TypeOK

(* A step whose entries were each, and each once, in the queue before keeps
   what depends on their keys and data. *)
LEMMA KeysKept ==
  ASSUME OneSlotPerSave, StagedWhole,
         NEW f \in [DOMAIN queue' -> DOMAIN queue],
         \A i, j \in DOMAIN queue' : f[i] = f[j] => i = j,
         \A i \in DOMAIN queue' : /\ queue'[i].block = queue[f[i]].block
                                  /\ queue'[i].seq = queue[f[i]].seq
                                  /\ queue'[i].epoch = queue[f[i]].epoch
                                  /\ queue'[i].data = queue[f[i]].data
  PROVE  OneSlotPerSave' /\ StagedWhole'
BY DEF OneSlotPerSave, StagedWhole

(* The common case: every entry in its place, perhaps in another slot. *)
LEMMA KeysInPlace ==
  ASSUME OneSlotPerSave, StagedWhole, DOMAIN queue' = DOMAIN queue,
         \A i \in DOMAIN queue : /\ queue'[i].block = queue[i].block
                                 /\ queue'[i].seq = queue[i].seq
                                 /\ queue'[i].epoch = queue[i].epoch
                                 /\ queue'[i].data = queue[i].data
  PROVE  OneSlotPerSave' /\ StagedWhole'
BY DEF OneSlotPerSave, StagedWhole

LEMMA DiscardLiveKeeps ==
  ASSUME NEW q \in Seq(Entry)
  PROVE  /\ DOMAIN DiscardLive(q) = DOMAIN q
         /\ \A i \in DOMAIN q : /\ DiscardLive(q)[i].block = q[i].block
                                /\ DiscardLive(q)[i].seq = q[i].seq
                                /\ DiscardLive(q)[i].epoch = q[i].epoch
                                /\ DiscardLive(q)[i].data = q[i].data
                                /\ ~Live(DiscardLive(q)[i])
<1>1. DOMAIN DiscardLive(q) = DOMAIN q
  BY DEF DiscardLive
<1>2. ASSUME NEW i \in DOMAIN q
      PROVE  /\ DiscardLive(q)[i].block = q[i].block
             /\ DiscardLive(q)[i].seq = q[i].seq
             /\ DiscardLive(q)[i].epoch = q[i].epoch
             /\ DiscardLive(q)[i].data = q[i].data
             /\ ~Live(DiscardLive(q)[i])
  <2>1. q[i] \in Entry
    BY <1>2, LenProperties, ElementOfSeq
  <2>2. CASE Live(q[i])
    BY <1>2, <2>1, <2>2 DEF DiscardLive, Entry, Live
  <2>3. CASE ~Live(q[i])
    BY <1>2, <2>3 DEF DiscardLive
  <2> QED
    BY <2>2, <2>3
<1> QED
  BY <1>1, <1>2
-----------------------------------------------------------------------------
(* One lemma per way the queue moves. *)

LEMMA SlotMoved ==
  ASSUME TypeOK, QueueInv, NEW i \in DOMAIN queue,
         NEW r \in {"Staged", "Writing"} \cup Fate,
         queue' = [queue EXCEPT ![i].slot = r]
  PROVE  OneSlotPerSave' /\ StagedWhole'
BY SlotMoves, KeysInPlace DEF QueueInv

LEMMA Taken ==
  ASSUME TypeOK, GenerationInv, QueueInv, TakeWrite
  PROVE  DrainInOrder' /\ OneSlotPerSave' /\ StagedWhole'
<1>1. PICK i \in DOMAIN queue :
        /\ IsFirst(i, {j \in InSlot({"Staged"}) : queue[j].epoch = epoch})
        /\ queue' = [queue EXCEPT ![i].slot = "Writing"]
  BY DEF TakeWrite
<1>2. \A j \in DOMAIN queue : queue[j].slot # "Writing"
  BY DEF TakeWrite, MayWrite, InSlot
<1>3. \A j \in DOMAIN queue : queue[j].slot = "Staged" => i <= j
  BY <1>1 DEF IsFirst, InSlot, GenerationInv, LiveOfThisCard, Live
<1>4. queue[i].slot = "Staged"
  BY <1>1 DEF IsFirst, InSlot
<1>5. DOMAIN queue' = DOMAIN queue
      /\ \A j \in DOMAIN queue :
           queue'[j].slot = IF j = i THEN "Writing" ELSE queue[j].slot
  BY <1>1, SlotMoves
<1>6. DrainInOrder'
  <2>1. ASSUME NEW k \in DOMAIN queue, NEW j \in DOMAIN queue, k < j
        PROVE  /\ queue'[j].slot = "Staged" \/ ~Live(queue'[k])
               /\ queue'[j].slot # "Writing" \/ queue'[k].slot # "Writing"
    <3>0. k \in Int /\ j \in Int /\ i \in Int
      BY QueueType
    <3>1. queue[j].slot = "Staged" \/ ~Live(queue[k])
      BY <2>1 DEF QueueInv, DrainInOrder
    <3>2. CASE j = i
      BY <3>2, <3>0, <2>1, <1>2, <1>3, <1>5 DEF Live
    <3>3. CASE k = i
      BY <3>3, <3>0, <3>1, <2>1, <1>2, <1>4, <1>5 DEF Live
    <3>4. CASE j # i /\ k # i
      BY <3>4, <3>1, <1>2, <1>5 DEF Live
    <3> QED
      BY <3>2, <3>3, <3>4
  <2> QED
    BY <2>1, <1>5 DEF DrainInOrder, Live
<1> QED
  BY <1>1, <1>6, SlotMoved

LEMMA Written ==
  ASSUME TypeOK, QueueInv, NEW b \in Block, PublishWritten(b)
  PROVE  DrainInOrder' /\ OneSlotPerSave' /\ StagedWhole'
<1>1. PICK i \in DOMAIN queue : /\ queue[i].slot = "Writing"
                                /\ queue' = [queue EXCEPT ![i].slot = "OK"]
  BY DEF PublishWritten, IsFirst, Writing, InSlot
<1>2. /\ DOMAIN queue' = DOMAIN queue
      /\ \A j \in DOMAIN queue :
           queue'[j].slot = IF j = i THEN "OK" ELSE queue[j].slot
  BY <1>1, SlotMoves DEF Fate
<1>3. ASSUME NEW k \in DOMAIN queue, NEW j \in DOMAIN queue, k < j
      PROVE  /\ queue'[j].slot = "Staged" \/ ~Live(queue'[k])
             /\ queue'[j].slot # "Writing" \/ queue'[k].slot # "Writing"
  <2>1. /\ queue[j].slot = "Staged" \/ ~Live(queue[k])
        /\ queue[j].slot # "Writing" \/ queue[k].slot # "Writing"
    BY <1>3 DEF QueueInv, DrainInOrder
  <2> QED
    BY <2>1, <1>1, <1>2, <1>3 DEF Live
<1>4. DrainInOrder'
  BY <1>2, <1>3 DEF DrainInOrder, Live
<1> QED
  BY <1>1, <1>4, SlotMoved DEF Fate

LEMMA Discarded ==
  ASSUME TypeOK, QueueInv, NEW q \in Seq(Entry), DOMAIN q = DOMAIN queue,
         \A i \in DOMAIN queue : /\ q[i].block = queue[i].block
                                 /\ q[i].seq = queue[i].seq
                                 /\ q[i].epoch = queue[i].epoch
                                 /\ q[i].data = queue[i].data,
         EndGeneration(q)
  PROVE  QueueInv'
<1>1. queue' = DiscardLive(q) /\ inbox' = None
  BY DEF EndGeneration
<1>2. OneSlotPerSave' /\ StagedWhole'
  BY <1>1, DiscardLiveKeeps, KeysInPlace DEF QueueInv
<1>3. DrainInOrder'
  <2>1. \A i \in DOMAIN queue' : ~Live(queue'[i])
    BY <1>1, DiscardLiveKeeps
  <2> QED
    BY <2>1 DEF DrainInOrder, Live
<1>4. InboxFilled'
  BY <1>1 DEF InboxFilled
<1> QED
  BY <1>2, <1>3, <1>4 DEF QueueInv

LEMMA Freed ==
  ASSUME TypeOK, QueueInv, NotifyWritten
  PROVE  DrainInOrder' /\ OneSlotPerSave' /\ StagedWhole'
<1>1. PICK i \in DOMAIN queue : queue' = RemoveAt(queue, i)
  BY DEF NotifyWritten
<1>2. Len(queue) \in Nat /\ i \in 1..Len(queue) /\ queue \in Seq(Entry)
  BY QueueType DEF TypeOK
<1>3. DOMAIN queue' = 1..(Len(queue) - 1)
  BY <1>1, <1>2, RemoveAtProperties, LenProperties
<1> DEFINE f == [k \in DOMAIN queue' |-> IF k < i THEN k ELSE k + 1]
<1>4. f \in [DOMAIN queue' -> DOMAIN queue]
  BY <1>2, <1>3, QueueType
<1>5. \A k, j \in DOMAIN queue' : /\ f[k] = f[j] => k = j
                                  /\ k < j => f[k] < f[j]
  BY <1>2, <1>3
<1>6. \A k \in DOMAIN queue' : queue'[k] = queue[f[k]]
  BY <1>1, <1>2, <1>3, RemoveAtProperties
<1> HIDE DEF f
<1>7. OneSlotPerSave' /\ StagedWhole'
  BY <1>4, <1>5, <1>6, KeysKept DEF QueueInv
<1>8. DrainInOrder'
  BY <1>4, <1>5, <1>6 DEF QueueInv, DrainInOrder, Live
<1> QED
  BY <1>7, <1>8

(* Only whole blocks are committed. *)
LEMMA Committed ==
  ASSUME TypeOK, GenerationInv, QueueInv, NEW x \in Inbox,
         x.data \in [Phase -> Payload], Commit(x)
  PROVE  DrainInOrder' /\ OneSlotPerSave' /\ StagedWhole'
<1>0. /\ Len(queue) \in Nat /\ DOMAIN queue = 1..Len(queue)
      /\ \A i \in DOMAIN queue : queue[i] \in Entry
  BY QueueType
<1>1. ASSUME NEW i \in DOMAIN queue, Duplicates(x.block, x.seq) = {},
             i \in Replaceable(x.block),
             queue' = [queue EXCEPT ![i].seq = x.seq, ![i].data = x.data]
      PROVE  DrainInOrder' /\ OneSlotPerSave' /\ StagedWhole'
  <2>1. queue[i].slot = "Staged" /\ queue[i].block = x.block
        /\ queue[i].epoch = epoch
    BY <1>1 DEF Replaceable, InSlot, GenerationInv, LiveOfThisCard, Live
  <2>2. \A j \in DOMAIN queue :
          queue[j].epoch # epoch \/ queue[j].block # x.block \/ queue[j].seq # x.seq
    BY <1>1 DEF Duplicates
  <2>3. /\ DOMAIN queue' = DOMAIN queue
        /\ \A j \in DOMAIN queue :
             /\ queue'[j].slot = queue[j].slot
             /\ queue'[j].block = queue[j].block
             /\ queue'[j].epoch = queue[j].epoch
             /\ queue'[j].seq = IF j = i THEN x.seq ELSE queue[j].seq
             /\ queue'[j].data = IF j = i THEN x.data ELSE queue[j].data
    BY <1>0, <1>1 DEF Entry
  <2>4. DrainInOrder'
    BY <2>3 DEF QueueInv, DrainInOrder, Live
  <2>5. OneSlotPerSave'
    BY <2>1, <2>2, <2>3 DEF QueueInv, OneSlotPerSave
  <2>6. StagedWhole'
    BY <2>3 DEF QueueInv, StagedWhole
  <2> QED
    BY <2>4, <2>5, <2>6
<1>2. ASSUME Duplicates(x.block, x.seq) = {},
             queue' = Append(queue, [slot |-> "Staged", block |-> x.block,
                                     seq |-> x.seq, epoch |-> epoch,
                                     data |-> x.data])
      PROVE  DrainInOrder' /\ OneSlotPerSave' /\ StagedWhole'
  <2> DEFINE e == [slot |-> "Staged", block |-> x.block, seq |-> x.seq,
                   epoch |-> epoch, data |-> x.data]
             n == Len(queue) + 1
  <2>1. /\ e.slot = "Staged" /\ e.block = x.block /\ e.seq = x.seq
        /\ e.epoch = epoch /\ e.data = x.data
    OBVIOUS
  <2>2. \A j \in DOMAIN queue :
          queue[j].epoch # epoch \/ queue[j].block # x.block \/ queue[j].seq # x.seq
    BY <1>2 DEF Duplicates
  <2> HIDE DEF e
  <2>3. queue \in Seq(Entry) /\ queue' = Append(queue, e)
    BY <1>2 DEF e, TypeOK
  <2>4. /\ DOMAIN queue' = 1..n /\ queue'[n] = e
        /\ \A j \in DOMAIN queue : queue'[j] = queue[j]
    BY <1>0, <2>3
  <2>5. \A j \in 1..n : j \in DOMAIN queue \/ j = n
    BY <1>0
  <2>6. \A i, j \in DOMAIN queue' : i < j => i \in DOMAIN queue
    BY <1>0, <2>4
  <2> HIDE DEF n
  <2>7. DrainInOrder'
    BY <2>1, <2>4, <2>5, <2>6 DEF QueueInv, DrainInOrder, Live
  <2>8. OneSlotPerSave'
    BY <2>1, <2>2, <2>4, <2>5 DEF QueueInv, OneSlotPerSave
  <2>9. StagedWhole'
    BY <2>1, <2>4, <2>5 DEF QueueInv, StagedWhole
  <2> QED
    BY <2>7, <2>8, <2>9
<1>3. CASE queue' = queue
  BY <1>3 DEF QueueInv, DrainInOrder, OneSlotPerSave, StagedWhole, Live
<1>4. CASE CommitRefused(x) \/ CommitAgain(x)
  BY <1>3, <1>4 DEF CommitRefused, CommitAgain, Refuse
<1>5. CASE CommitCoalesced(x)
  BY <1>1, <1>3, <1>5 DEF CommitCoalesced, IsFirst
<1>6. CASE CommitStaged(x)
  BY <1>2, <1>3, <1>6 DEF CommitStaged
<1> QED
  BY <1>4, <1>5, <1>6 DEF Commit

LEMMA PhaseAccepted ==
  ASSUME TypeOK, GenerationInv, QueueInv, NEW b \in WriteBlock,
         NEW ph \in 0..Phases, NEW s \in SeqNo, NEW p \in Payload,
         AcceptPhase(b, ph, s, p)
  PROVE  QueueInv'
<1> DEFINE x == [Opened(b, ph, s) EXCEPT !.data[ph] = p]
<1>1. CASE inbox' = None /\ queue' = queue
  BY <1>1 DEF QueueInv, DrainInOrder, OneSlotPerSave, StagedWhole, InboxFilled, Live
<1>2. CASE ~InOrder(b, ph, s)
  BY <1>1, <1>2 DEF AcceptPhase, Refuse
<1>3. CASE InOrder(b, ph, s)
  <2>1. /\ x \in Inbox /\ ph \in Phase /\ ph <= x.next
        /\ \A k \in Phase : x.data[k] = IF k = ph THEN p ELSE Opened(b, ph, s).data[k]
        /\ x.next = Opened(b, ph, s).next
        /\ Opened(b, ph, s) \in Inbox
    <3>1. b \in Block /\ Phases \in Nat \ {0}
      BY HostIoAssumption
    <3>2. Zeroes \in Content
      BY DEF Zeroes, Content
    <3>3. ph \in Phase /\ ph <= Opened(b, ph, s).next /\ Opened(b, ph, s) \in Inbox
      BY <1>3, <3>1, <3>2 DEF InOrder, Opened, TypeOK, Inbox, Phase
    <3> QED
      BY <1>3, <3>3, AssembledType DEF Inbox, Content
  <2>2. \A k \in Phase : k < x.next => x.data[k] \in Payload
    <3>1. \A k \in Phase : k < Opened(b, ph, s).next
                             => Opened(b, ph, s).data[k] \in Payload
      BY <1>3 DEF InOrder, Opened, QueueInv, InboxFilled, Phase
    <3> QED
      BY <2>1, <3>1
  <2>3. CASE /\ ph < x.next /\ inbox' = x /\ queue' = queue
    <3>1. InboxFilled'
      BY <2>2, <2>3 DEF InboxFilled
    <3> QED
      BY <2>3, <3>1 DEF QueueInv, DrainInOrder, OneSlotPerSave, StagedWhole, Live
  <2>4. CASE /\ ph = x.next /\ inbox' = [x EXCEPT !.next = ph + 1]
             /\ queue' = queue
    <3>1. \A k \in Phase : k < ph + 1 => x.data[k] \in Payload
      BY <2>1, <2>2, <2>4 DEF Phase
    <3>2. inbox'.next = ph + 1 /\ inbox'.data = x.data
      BY <2>1, <2>4 DEF Inbox
    <3>3. InboxFilled'
      BY <3>1, <3>2 DEF InboxFilled
    <3> QED
      BY <2>4, <3>3 DEF QueueInv, DrainInOrder, OneSlotPerSave, StagedWhole, Live
  <2>5. CASE ph = x.next /\ ph + 1 = Phases /\ inbox' = None /\ Commit(x)
    <3>1. \A k \in Phase : x.data[k] \in Payload
      BY <2>1, <2>2, <2>5, HostIoAssumption DEF Phase
    <3>2. x.data \in [Phase -> Payload]
      BY <2>1, <3>1 DEF Inbox, Content
    <3>3. DrainInOrder' /\ OneSlotPerSave' /\ StagedWhole'
      BY <2>1, <2>5, <3>2, Committed
    <3> QED
      BY <2>5, <3>3 DEF QueueInv, InboxFilled
  <2> HIDE DEF x
  <2> QED
    BY <1>3, <2>3, <2>4, <2>5 DEF AcceptPhase, x
<1> QED
  BY <1>2, <1>3

LEMMA QueueInit == Init => QueueInv
BY DEF Init, QueueInv, DrainInOrder, OneSlotPerSave, StagedWhole, InboxFilled

LEMMA QueueNext == TypeOK /\ GenerationInv /\ QueueInv /\ [Next]_vars => QueueInv'
<1> SUFFICES ASSUME TypeOK, GenerationInv, QueueInv, [Next]_vars PROVE QueueInv'
  OBVIOUS
<1>0. ReadBlock \subseteq Block /\ WriteBlock \subseteq Block
  BY HostIoAssumption
<1>1. CASE queue' = queue /\ (inbox' = inbox \/ inbox' = None)
  BY <1>1 DEF QueueInv, DrainInOrder, OneSlotPerSave, StagedWhole, InboxFilled, Live
<1>2. CASE BleTask
  <2>1. ASSUME NEW b \in WriteBlock, NEW ph \in 0..Phases, NEW s \in SeqNo,
               NEW p \in Payload, AcceptPhase(b, ph, s, p)
        PROVE  QueueInv'
    BY <2>1, PhaseAccepted
  <2>2. CASE NotifyWritten
    BY <2>2, Freed DEF NotifyWritten, QueueInv, InboxFilled
  <2>3. CASE \/ \E seed \in Seeds : Reset(seed)
             \/ SessionEnds \/ PauseWritesUnlessDraining
             \/ \E b \in ReadBlock : AcceptRead(b)
             \/ StatusAsked \/ NotifyStatus \/ NotifyShort \/ NotifyData
    <3>1. queue' = queue /\ (inbox' = inbox \/ inbox' = None)
      BY <2>3 DEF Reset, DropHost, SessionEnds, PauseWritesUnlessDraining,
                  AcceptRead, StatusAsked, NotifyStatus, NotifyShort, NotifyData
    <3> QED
      BY <3>1, <1>1
  <2> QED
    BY <1>2, <2>1, <2>2, <2>3 DEF BleTask, Dongle, Notify
<1>3. CASE PollLoop
  <2>1. ASSUME NEW p \in BOOLEAN, SetVmuPresent(p)
        PROVE  QueueInv'
    BY <2>1, Discarded DEF SetVmuPresent, TypeOK
  <2>2. CASE TakeWrite
    BY <2>2, Taken DEF TakeWrite, QueueInv, InboxFilled
  <2>3. ASSUME NEW b \in Block, PublishWritten(b)
        PROVE  QueueInv'
    BY <2>3, Written DEF PublishWritten, QueueInv, InboxFilled
  <2>4. ASSUME NEW b \in Block, PublishWriteFailed(b)
        PROVE  QueueInv'
    <3>1. PICK i \in DOMAIN queue :
            EndGeneration([queue EXCEPT ![i].slot = "FAILED"])
      BY <2>4 DEF PublishWriteFailed
    <3> DEFINE q == [queue EXCEPT ![i].slot = "FAILED"]
    <3>2. q \in Seq(Entry)
      BY EntrySlot DEF TypeOK, Fate
    <3>3. /\ DOMAIN q = DOMAIN queue
          /\ \A j \in DOMAIN queue : /\ q[j].block = queue[j].block
                                     /\ q[j].seq = queue[j].seq
                                     /\ q[j].epoch = queue[j].epoch
                                     /\ q[j].data = queue[j].data
      BY QueueType DEF Entry
    <3> HIDE DEF q
    <3> QED
      BY <3>1, <3>2, <3>3, Discarded DEF q
  <2>5. ASSUME NEW b \in Block, PublishUnidentified(b)
        PROVE  QueueInv'
    BY <2>5, Discarded DEF PublishUnidentified, TypeOK
  <2>6. CASE \/ OpenWrites \/ LinkDown \/ \E i \in BOOLEAN : SetIdle(i)
             \/ TakeRequest \/ Recall \/ Answer
             \/ NoteCardVerified \/ NoteEnumerated
    <3>1. queue' = queue /\ (inbox' = inbox \/ inbox' = None)
      BY <2>6 DEF OpenWrites, LinkDown, DropHost, SetIdle, TakeRequest, Recall,
         Answer, PublishBlock, PublishFailure, NoteCardVerified, NoteEnumerated
    <3> QED
      BY <3>1, <1>1
  <2> QED
    BY <1>0, <1>3, <2>1, <2>2, <2>3, <2>4, <2>5, <2>6 DEF PollLoop, Verdict
<1>4. CASE UNCHANGED vars
  BY <1>1, <1>4 DEF vars
<1> QED
  BY <1>2, <1>3, <1>4 DEF Next

LEMMA QueueHolds ==
  ASSUME MaxEpoch < EpochMod
  PROVE  Spec => []QueueInv
BY QueueInit, QueueNext, TypeCorrect, GenerationHolds, PTL DEF Spec

(* Saves finish in the order they were first staged, one at a time: take_write
   over stamps that a coalescing commit keeps. *)
THEOREM SavesDrainInOrder ==
  ASSUME MaxEpoch < EpochMod
  PROVE  Spec => []DrainInOrder
<1>1. QueueInv => DrainInOrder
  BY DEF QueueInv
<1> QED
  BY <1>1, QueueHolds, PTL

(* No save is staged twice, however often the dongle resends it: the resend
   test and the replacement of a staged block in commit. *)
THEOREM ResendsAreKnown ==
  ASSUME MaxEpoch < EpochMod
  PROVE  Spec => []OneSlotPerSave
<1>1. QueueInv => OneSlotPerSave
  BY DEF QueueInv
<1> QED
  BY <1>1, QueueHolds, PTL

(* Only whole blocks are staged, in whatever order, how often and of whatever
   block the phases come: accept_phase. *)
THEOREM BlocksAreWhole ==
  ASSUME MaxEpoch < EpochMod
  PROVE  Spec => []StagedWhole
<1>1. QueueInv => StagedWhole
  BY DEF QueueInv
<1> QED
  BY <1>1, QueueHolds, PTL
-----------------------------------------------------------------------------
(* READs. *)

LEMMA ReadOwedSame ==
  ASSUME readVars' = readVars
  PROVE  ReadOwed' = ReadOwed
BY DEF ReadOwed

LEMMA EndGenerationOwes ==
  ASSUME TypeOK, NEW q, EndGeneration(q)
  PROVE  ReadOwed' = ReadOwed
<1>1. outstanding' = None /\ reply' = DiscardedRead
  BY DEF EndGeneration
<1>2. CASE outstanding # None
  <2>1. outstanding.block \in Block
    BY <1>2 DEF TypeOK, Pending
  <2>2. Terminal(outstanding.block, "DISCARDED") # None
    BY <2>1, TerminalType, NoneAssumption DEF Fate
  <2> QED
    BY <1>1, <1>2, <2>2 DEF ReadOwed, DiscardedRead, Terminal
<1>3. CASE outstanding = None /\ reply # None
  <2>1. reply.block \in Block
    BY <1>3 DEF TypeOK, Reply
  <2>2. Terminal(reply.block, "DISCARDED") # None
    BY <2>1, TerminalType, NoneAssumption DEF Fate
  <2> QED
    BY <1>1, <1>3, <2>2 DEF ReadOwed, DiscardedRead, Terminal
<1>4. CASE outstanding = None /\ reply = None
  BY <1>1, <1>4 DEF ReadOwed, DiscardedRead
<1> QED
  BY <1>2, <1>3, <1>4

(* What a step may do to a READ that is owed. *)
ReadStep ==
  ReadOwed # None /\ session /\ session' =>
    \/ ReadOwed' = ReadOwed
    \/ reply # None /\ reply.next + 1 >= reply.phases /\ NotifyData

LEMMA ReadsKept == TypeOK /\ [Next]_vars => ReadStep
<1> SUFFICES ASSUME TypeOK, [Next]_vars, ReadOwed # None, session, session'
             PROVE  \/ ReadOwed' = ReadOwed
                    \/ /\ reply # None /\ reply.next + 1 >= reply.phases
                       /\ NotifyData
  BY DEF ReadStep
<1>1. CASE BleTask
  <2>1. ASSUME NEW b \in ReadBlock
        PROVE  ~AcceptRead(b)
    BY DEF AcceptRead, NoReadUnanswered, ReadOwed
  <2>2. CASE NotifyData
    <3>1. reply \in Reply /\ UNCHANGED outstanding
      BY <2>2 DEF NotifyData, TypeOK
    <3>2. ASSUME ~(reply.next + 1 >= reply.phases)
          PROVE  reply' \in Reply /\ reply'.block = reply.block
      BY <2>2, <3>1, <3>2, HostIoAssumption DEF NotifyData, Reply, Phase
    <3> QED
      BY <2>2, <3>1, <3>2, NoneAssumption DEF ReadOwed, NotifyData
  <2>3. CASE \/ PauseWritesUnlessDraining \/ StatusAsked
             \/ \E b \in WriteBlock, ph \in 0..Phases, s \in SeqNo, p \in Payload :
                  AcceptPhase(b, ph, s, p)
             \/ NotifyStatus \/ NotifyShort \/ NotifyWritten
    <3>1. ASSUME NEW b \in WriteBlock, NEW ph \in 0..Phases, NEW s \in SeqNo,
                 NEW p \in Payload, AcceptPhase(b, ph, s, p)
          PROVE  readVars' = readVars
      BY <3>1 DEF AcceptPhase
    <3>2. CASE PauseWritesUnlessDraining \/ StatusAsked
      BY <3>2, ReadOwedSame DEF PauseWritesUnlessDraining, StatusAsked
    <3>3. CASE NotifyStatus \/ NotifyShort \/ NotifyWritten
      BY <3>3, ReadOwedSame DEF NotifyStatus, NotifyShort, NotifyWritten
    <3> QED
      BY <2>3, <3>1, <3>2, <3>3, ReadOwedSame
  <2>4. ~SessionEnds /\ ~\E seed \in Seeds : Reset(seed)
    BY DEF SessionEnds, Reset
  <2> QED
    BY <1>1, <2>1, <2>2, <2>3, <2>4 DEF BleTask, Dongle, Notify
<1>2. CASE PollLoop
  <2>0. ReadBlock \subseteq Block /\ WriteBlock \subseteq Block
    BY HostIoAssumption
  <2>1. CASE TakeRequest \/ Recall
    <3>1. outstanding' \in Pending /\ outstanding'.block = outstanding.block
          /\ outstanding # None
      BY <2>1 DEF TakeRequest, Recall, TypeOK, Pending
    <3> QED
      BY <3>1, NoneAssumption DEF ReadOwed
  <2>2. ASSUME NEW b \in Block, NEW d \in [Phase -> Payload], PublishBlock(b, d)
        PROVE  ReadOwed' = ReadOwed
    <3>1. d \in Content
      BY DEF Content
    <3>2. [block |-> b, result |-> "OK", data |-> d, next |-> 0,
           phases |-> Phases] \in Reply
      BY <3>1, HostIoAssumption DEF Reply, Fate, Phase
    <3>3. reply' \in Reply /\ reply'.block = b /\ outstanding' = None
          /\ outstanding # None /\ outstanding.block = b
      BY <2>2, <3>2 DEF PublishBlock
    <3> QED
      BY <3>3, NoneAssumption DEF ReadOwed
  <2>3. ASSUME NEW b \in Block, PublishFailure(b)
        PROVE  ReadOwed' = ReadOwed
    <3>1. reply' \in Reply /\ reply'.block = b /\ outstanding' = None
          /\ outstanding # None /\ outstanding.block = b
      BY <2>3, TerminalType DEF PublishFailure, Terminal, Fate
    <3> QED
      BY <3>1, NoneAssumption DEF ReadOwed
  <2>4. CASE \/ \E p \in BOOLEAN : SetVmuPresent(p)
             \/ \E b \in Block : PublishWriteFailed(b) \/ PublishUnidentified(b)
    BY <2>4, EndGenerationOwes DEF SetVmuPresent, PublishWriteFailed,
                                   PublishUnidentified
  <2>5. CASE \/ OpenWrites \/ \E i \in BOOLEAN : SetIdle(i)
             \/ TakeWrite \/ \E b \in Block : PublishWritten(b)
             \/ NoteCardVerified \/ NoteEnumerated
    <3>1. readVars' = readVars
      BY <2>5 DEF OpenWrites, SetIdle, TakeWrite, PublishWritten,
                  NoteCardVerified, NoteEnumerated
    <3> QED
      BY <3>1, ReadOwedSame
  <2>6. ~LinkDown
    BY DEF LinkDown
  <2> QED
    BY <1>2, <2>0, <2>1, <2>2, <2>3, <2>4, <2>5, <2>6 DEF PollLoop, Answer, Verdict
<1>3. CASE UNCHANGED vars
  BY <1>3, ReadOwedSame DEF vars
<1> QED
  BY <1>1, <1>2, <1>3 DEF Next

(* Within a session a READ stops being owed only when the last message of its
   answer has gone out, whatever ended its generation: accept_read,
   publish_block, end_generation, advance. *)
THEOREM ReadsAreAnswered == Spec => ReadNeverForgotten
<1>1. TypeOK /\ [Next]_vars =>
        [ReadOwed # None /\ session /\ session' =>
           \/ ReadOwed' = ReadOwed
           \/ reply # None /\ reply.next + 1 >= reply.phases /\ NotifyData]_vars
  BY ReadsKept DEF ReadStep
<1> QED
  BY <1>1, TypeCorrect, PTL DEF Spec, ReadNeverForgotten
-----------------------------------------------------------------------------
(* The WRITTENs of an outbox, as messages come and go. *)

Due(q) == Writtens(q)[Len(q)]

LEMMA WrittensAgree ==
  ASSUME NEW p \in Seq(Short), NEW q \in Seq(Short), Len(p) <= Len(q),
         \A k \in 1..Len(p) : p[k] = q[k]
  PROVE  \A n \in 0..Len(p) : Writtens(p)[n] = Writtens(q)[n]
<1> DEFINE V == Writtens(p)
           W == Writtens(q)
           Bad == {n \in 0..Len(p) : V[n] # W[n]}
<1>0. Len(p) \in Nat /\ Len(q) \in Nat
  BY LenProperties
<1>1. /\ V[0] = W[0]
      /\ \A n \in 1..Len(p) :
           /\ V[n] = IF p[n].op = "WRITTEN" THEN Append(V[n - 1], p[n]) ELSE V[n - 1]
           /\ W[n] = IF q[n].op = "WRITTEN" THEN Append(W[n - 1], q[n]) ELSE W[n - 1]
  BY <1>0, WrittensProperties
<1> HIDE DEF V, W
<1>2. Bad = {}
  <2> SUFFICES ASSUME Bad # {} PROVE FALSE
    OBVIOUS
  <2>1. PICK m \in Bad : \A k \in Bad : m <= k
    <3>1. Bad \subseteq Nat
      OBVIOUS
    <3> HIDE DEF Bad
    <3> QED
      BY <3>1, LowestExists
  <2>2. m \in 1..Len(p) /\ V[m] # W[m]
    BY <1>1
  <2>3. m - 1 \in 0..Len(p) /\ m - 1 \notin Bad
    BY <2>1, <2>2
  <2>4. V[m - 1] = W[m - 1]
    BY <2>3
  <2> QED
    BY <1>1, <2>2, <2>4
<1> QED
  BY <1>2 DEF V, W

LEMMA DueType ==
  ASSUME NEW q \in Seq(Short)
  PROVE  Due(q) \in Seq(Short)
<1>1. Len(q) \in 0..Len(q)
  BY LenProperties
<1> QED
  BY <1>1, WrittensProperties DEF Due

LEMMA DueOfAppend ==
  ASSUME NEW q \in Seq(Short), NEW m \in Short
  PROVE  Due(Append(q, m)) = IF m.op = "WRITTEN" THEN Append(Due(q), m) ELSE Due(q)
<1> DEFINE r == Append(q, m)
           n == Len(q)
<1>1. /\ r \in Seq(Short) /\ n \in Nat /\ Len(r) = n + 1 /\ r[n + 1] = m
      /\ \A k \in 1..n : q[k] = r[k]
  BY LenProperties, AppendProperties
<1> HIDE DEF r
<1>2. Writtens(q)[n] = Writtens(r)[n]
  BY <1>1, WrittensAgree
<1>3. Writtens(r)[n + 1] = IF r[n + 1].op = "WRITTEN"
                           THEN Append(Writtens(r)[n + 1 - 1], r[n + 1])
                           ELSE Writtens(r)[n + 1 - 1]
  <2>1. n + 1 \in 1..Len(r)
    BY <1>1
  <2> HIDE DEF n
  <2> QED
    BY <1>1, <2>1, WrittensProperties
<1>4. n + 1 - 1 = n
  BY <1>1
<1> QED
  BY <1>1, <1>2, <1>3, <1>4 DEF Due, r

(* With the first message goes the first WRITTEN, if it is one. *)
LEMMA DueOfTail ==
  ASSUME NEW q \in Seq(Short), q # <<>>
  PROVE  /\ q[1].op = "WRITTEN" => Due(q) # <<>> /\ Due(Tail(q)) = Tail(Due(q))
         /\ q[1].op # "WRITTEN" => Due(Tail(q)) = Due(q)
<1> DEFINE t == Tail(q)
           W == Writtens(q)
           V == Writtens(t)
           Good(n) == /\ q[1].op = "WRITTEN" => W[n + 1] # <<>> /\ V[n] = Tail(W[n + 1])
                      /\ q[1].op # "WRITTEN" => V[n] = W[n + 1]
           Bad == {n \in 0..Len(t) : ~ Good(n)}
<1>0. /\ t \in Seq(Short) /\ Len(q) \in Nat /\ Len(t) \in Nat /\ Len(q) = Len(t) + 1
      /\ \A k \in 1..Len(t) : t[k] = q[k + 1]
  BY HeadTailProperties, LenProperties
<1>1. /\ W[0] = <<>> /\ V[0] = <<>>
      /\ \A n \in 1..Len(q) :
           W[n] = IF q[n].op = "WRITTEN" THEN Append(W[n - 1], q[n]) ELSE W[n - 1]
      /\ \A n \in 1..Len(t) :
           V[n] = IF t[n].op = "WRITTEN" THEN Append(V[n - 1], t[n]) ELSE V[n - 1]
      /\ \A n \in 0..Len(q) : W[n] \in Seq(Short)
  <2> HIDE DEF t
  <2> QED
    BY <1>0, WrittensProperties
<1> HIDE DEF t, V, W
<1>2. Good(0)
  <2>1. W[1] = IF q[1].op = "WRITTEN" THEN Append(<<>>, q[1]) ELSE <<>>
    <3>1. 1 \in 1..Len(q) /\ 1 - 1 = 0
      BY <1>0
    <3>2. W[1] = IF q[1].op = "WRITTEN" THEN Append(W[1 - 1], q[1]) ELSE W[1 - 1]
      BY <1>1, <3>1
    <3> QED
      BY <1>1, <3>1, <3>2
  <2>2. q[1] \in Short
    BY <1>0, ElementOfSeq
  <2>3. Append(<<>>, q[1]) # <<>> /\ Tail(Append(<<>>, q[1])) = <<>>
    BY <2>2, EmptySeq, HeadTailAppend, AppendProperties
  <2> QED
    <3>1. 0 + 1 = 1
      OBVIOUS
    <3> QED
      BY <1>1, <2>1, <2>3, <3>1
<1>3. Bad = {}
  <2> SUFFICES ASSUME Bad # {} PROVE FALSE
    OBVIOUS
  <2>1. PICK m \in Bad : \A k \in Bad : m <= k
    <3>1. Bad \subseteq Nat
      OBVIOUS
    <3> HIDE DEF Bad
    <3> QED
      BY <3>1, LowestExists
  <2>2. m \in 0..Len(t) /\ ~ Good(m)
    OBVIOUS
  <2>3. m # 0
    BY <1>2, <2>2
  <2>4. /\ m \in 1..Len(t) /\ m + 1 \in 1..Len(q) /\ m \in 0..Len(q)
        /\ m - 1 \in 0..Len(t) /\ m - 1 + 1 = m /\ m + 1 - 1 = m
    BY <1>0, <2>2, <2>3
  <2> HIDE DEF Good
  <2>5. Good(m - 1)
    BY <2>1, <2>4
  <2>6. /\ W[m + 1] = IF t[m].op = "WRITTEN" THEN Append(W[m], t[m]) ELSE W[m]
        /\ V[m] = IF t[m].op = "WRITTEN" THEN Append(V[m - 1], t[m]) ELSE V[m - 1]
        /\ W[m] \in Seq(Short) /\ t[m] \in Short
    <3>1. t[m] = q[m + 1] /\ t[m] \in Short
      BY <1>0, <2>4, ElementOfSeq
    <3> QED
      BY <1>1, <2>4, <3>1
  <2>7. W[m] # <<>> => /\ Append(W[m], t[m]) # <<>>
                       /\ Tail(Append(W[m], t[m])) = Append(Tail(W[m]), t[m])
    <3>1. W[m] \in Seq(Short) /\ t[m] \in Short
      BY <2>6
    <3>2. Append(W[m], t[m]) # <<>>
      BY <3>1, AppendProperties
    <3>3. Tail(Append(W[m], t[m])) = IF W[m] = <<>> THEN <<>>
                                     ELSE Append(Tail(W[m]), t[m])
      BY <3>1, HeadTailAppend
    <3> QED
      BY <3>2, <3>3
  <2>8. /\ q[1].op = "WRITTEN" => W[m] # <<>> /\ V[m - 1] = Tail(W[m])
        /\ q[1].op # "WRITTEN" => V[m - 1] = W[m]
    BY <2>4, <2>5 DEF Good
  <2>9. q[1].op = "WRITTEN" => W[m + 1] # <<>> /\ V[m] = Tail(W[m + 1])
    <3>1. CASE t[m].op = "WRITTEN"
      BY <2>6, <2>7, <2>8, <3>1
    <3>2. CASE t[m].op # "WRITTEN"
      BY <2>6, <2>8, <3>2
    <3> QED
      BY <3>1, <3>2
  <2>10. q[1].op # "WRITTEN" => V[m] = W[m + 1]
    BY <2>6, <2>8
  <2> QED
    BY <2>2, <2>9, <2>10 DEF Good
<1>4. Good(Len(t))
  <2> HIDE DEF Good
  <2> QED
    BY <1>0, <1>3
<1> QED
  BY <1>0, <1>4 DEF Due, t, V, W

(* retain(WRITTEN) keeps every WRITTEN. *)
LEMMA DueOfDue ==
  ASSUME NEW q \in Seq(Short)
  PROVE  Due(Due(q)) = Due(q)
<1> DEFINE W == Writtens(q)
           Bad == {n \in 0..Len(q) : Due(W[n]) # W[n]}
<1>1. /\ Len(q) \in Nat
      /\ W[0] = <<>>
      /\ \A n \in 1..Len(q) :
           W[n] = IF q[n].op = "WRITTEN" THEN Append(W[n - 1], q[n]) ELSE W[n - 1]
      /\ \A n \in 0..Len(q) : W[n] \in Seq(Short)
  BY LenProperties, WrittensProperties
<1> HIDE DEF W
<1>2. Due(<<>>) = <<>>
  BY EmptySeq, WrittensProperties DEF Due
<1>3. Bad = {}
  <2> SUFFICES ASSUME Bad # {} PROVE FALSE
    OBVIOUS
  <2>1. PICK m \in Bad : \A k \in Bad : m <= k
    <3>1. Bad \subseteq Nat
      OBVIOUS
    <3> HIDE DEF Bad
    <3> QED
      BY <3>1, LowestExists
  <2>2. m \in 1..Len(q) /\ Due(W[m]) # W[m]
    BY <1>1, <1>2
  <2>3. m - 1 \in 0..Len(q) /\ m - 1 \notin Bad
    BY <2>1, <2>2
  <2>4. Due(W[m - 1]) = W[m - 1] /\ W[m - 1] \in Seq(Short) /\ q[m] \in Short
    BY <1>1, <2>2, <2>3, ElementOfSeq
  <2>5. W[m] = IF q[m].op = "WRITTEN" THEN Append(W[m - 1], q[m]) ELSE W[m - 1]
    BY <1>1, <2>2
  <2> QED
    <3>1. Due(Append(W[m - 1], q[m])) = IF q[m].op = "WRITTEN"
                                        THEN Append(Due(W[m - 1]), q[m])
                                        ELSE Due(W[m - 1])
      BY <2>4, DueOfAppend
    <3>2. CASE q[m].op = "WRITTEN"
      BY <2>2, <2>4, <2>5, <3>1, <3>2
    <3>3. CASE q[m].op # "WRITTEN"
      BY <2>2, <2>4, <2>5, <3>3
    <3> QED
      BY <3>2, <3>3
<1>4. Len(q) \in 0..Len(q)
  BY <1>1
<1>5. Due(W[Len(q)]) = W[Len(q)]
  BY <1>3, <1>4
<1> QED
  BY <1>5 DEF Due, W
-----------------------------------------------------------------------------
(* The ledger's view of a queue and of an outbox. *)

Save == [block : Block, seq : SeqNo, fate : {"Staged", "Writing"} \cup Fate]
Debt == [block : Block, seq : SeqNo]

SavesOf(q) ==
  [i \in DOMAIN q |-> [block |-> q[i].block, seq |-> q[i].seq, fate |-> q[i].slot]]
OwedBy(d) == [i \in DOMAIN d |-> [block |-> d[i].block, seq |-> d[i].seq]]

LEMMA SavesOfType ==
  ASSUME NEW q \in Seq(Entry)
  PROVE  /\ SavesOf(q) \in Seq(Save) /\ Len(SavesOf(q)) = Len(q)
         /\ DOMAIN SavesOf(q) = 1..Len(q)
         /\ \A i \in 1..Len(q) :
              SavesOf(q)[i] = [block |-> q[i].block, seq |-> q[i].seq,
                               fate |-> q[i].slot]
<1>1. Len(q) \in Nat /\ DOMAIN q = 1..Len(q) /\ \A i \in 1..Len(q) : q[i] \in Entry
  BY LenProperties, ElementOfSeq
<1>2. SavesOf(q) \in [1..Len(q) -> Save]
  BY <1>1 DEF SavesOf, Save, Entry
<1>3. SavesOf(q) \in Seq(Save)
  BY <1>1, <1>2, SeqDef
<1> QED
  BY <1>1, <1>2, <1>3, LenProperties DEF SavesOf

LEMMA OwedByType ==
  ASSUME NEW d \in Seq(Short)
  PROVE  /\ OwedBy(d) \in Seq(Debt) /\ Len(OwedBy(d)) = Len(d)
         /\ \A i \in 1..Len(d) :
              OwedBy(d)[i] = [block |-> d[i].block, seq |-> d[i].seq]
<1>1. Len(d) \in Nat /\ DOMAIN d = 1..Len(d) /\ \A i \in 1..Len(d) : d[i] \in Short
  BY LenProperties, ElementOfSeq
<1>2. OwedBy(d) \in [1..Len(d) -> Debt]
  BY <1>1 DEF OwedBy, Debt, Short
<1>3. OwedBy(d) \in Seq(Debt)
  BY <1>1, <1>2, SeqDef
<1> QED
  BY <1>1, <1>2, <1>3, LenProperties DEF OwedBy

LEMMA OwedByAppend ==
  ASSUME NEW d \in Seq(Short), NEW m \in Short
  PROVE  OwedBy(Append(d, m)) =
           Append(OwedBy(d), [block |-> m.block, seq |-> m.seq])
<1> DEFINE e == [block |-> m.block, seq |-> m.seq]
           a == Append(d, m)
           n == Len(d)
<1>1. e \in Debt /\ n \in Nat
  BY LenProperties DEF Debt, Short
<1>2. /\ a \in Seq(Short) /\ Len(a) = n + 1 /\ a[n + 1] = m
      /\ \A i \in 1..n : a[i] = d[i]
  BY AppendProperties
<1> HIDE DEF a
<1>3. /\ OwedBy(a) \in Seq(Debt) /\ Len(OwedBy(a)) = n + 1
      /\ \A i \in 1..(n + 1) :
           OwedBy(a)[i] = [block |-> a[i].block, seq |-> a[i].seq]
  BY <1>2, OwedByType
<1>4. /\ OwedBy(d) \in Seq(Debt) /\ Len(OwedBy(d)) = n
      /\ \A i \in 1..n : OwedBy(d)[i] = [block |-> d[i].block, seq |-> d[i].seq]
  BY OwedByType
<1> HIDE DEF e, n
<1>5. /\ Append(OwedBy(d), e) \in Seq(Debt) /\ Len(Append(OwedBy(d), e)) = n + 1
      /\ Append(OwedBy(d), e)[n + 1] = e
      /\ \A i \in 1..n : Append(OwedBy(d), e)[i] = OwedBy(d)[i]
  BY <1>1, <1>4, AppendProperties
<1>6. \A i \in 1..(n + 1) : i \in 1..n \/ i = n + 1
  BY <1>1
<1>7. n + 1 \in 1..(n + 1)
  BY <1>1
<1>8. \A i \in 1..(n + 1) : OwedBy(a)[i] = Append(OwedBy(d), e)[i]
  <2> SUFFICES ASSUME NEW i \in 1..(n + 1)
               PROVE  OwedBy(a)[i] = Append(OwedBy(d), e)[i]
    OBVIOUS
  <2>1. OwedBy(a)[i] = [block |-> a[i].block, seq |-> a[i].seq]
    BY <1>3
  <2>2. CASE i \in 1..n
    <3>1. a[i] = d[i] /\ Append(OwedBy(d), e)[i] = OwedBy(d)[i]
          /\ OwedBy(d)[i] = [block |-> d[i].block, seq |-> d[i].seq]
      BY <1>2, <1>4, <1>5, <2>2
    <3> QED
      BY <2>1, <3>1
  <2>3. CASE i = n + 1
    BY <1>2, <1>5, <2>1, <2>3 DEF e
  <2> QED
    BY <1>6, <2>2, <2>3
<1>9. OwedBy(a) = Append(OwedBy(d), e)
  BY <1>3, <1>5, <1>8, SeqEqual
<1> QED
  BY <1>9 DEF a, e

LEMMA OwedByTail ==
  ASSUME NEW d \in Seq(Short), d # <<>>
  PROVE  OwedBy(d) # <<>> /\ OwedBy(Tail(d)) = Tail(OwedBy(d))
<1> DEFINE t == Tail(d)
<1>1. /\ t \in Seq(Short) /\ Len(d) \in Nat \ {0} /\ Len(t) = Len(d) - 1
      /\ \A i \in 1..Len(t) : t[i] = d[i + 1]
  BY HeadTailProperties, EmptySeq
<1> HIDE DEF t
<1>2. /\ OwedBy(d) \in Seq(Debt) /\ Len(OwedBy(d)) = Len(d)
      /\ \A i \in 1..Len(d) : OwedBy(d)[i] = [block |-> d[i].block, seq |-> d[i].seq]
  BY OwedByType
<1>3. /\ OwedBy(t) \in Seq(Debt) /\ Len(OwedBy(t)) = Len(t)
      /\ \A i \in 1..Len(t) : OwedBy(t)[i] = [block |-> t[i].block, seq |-> t[i].seq]
  BY <1>1, OwedByType
<1>4. OwedBy(d) # <<>>
  BY <1>1, <1>2, EmptySeq
<1>5. /\ Tail(OwedBy(d)) \in Seq(Debt) /\ Len(Tail(OwedBy(d))) = Len(d) - 1
      /\ \A i \in 1..(Len(d) - 1) : Tail(OwedBy(d))[i] = OwedBy(d)[i + 1]
  BY <1>2, <1>4, HeadTailProperties
<1>6. \A i \in 1..(Len(d) - 1) : i + 1 \in 1..Len(d)
  BY <1>1
<1>7. \A i \in 1..Len(t) : OwedBy(t)[i] = Tail(OwedBy(d))[i]
  BY <1>1, <1>2, <1>3, <1>5, <1>6
<1> QED
  BY <1>1, <1>3, <1>4, <1>5, <1>7, SeqEqual DEF t

(* What a message does to the SUPERSEDEDs that are owed. *)
LEMMA SupersededMoves ==
  ASSUME outbox \in Seq(Short)
  PROVE  /\ \A m \in Short : m.op = "ACK" /\ outbox' = Append(outbox, m)
              => Superseded' = Superseded
         /\ \A m \in Short : m.op = "WRITTEN" /\ outbox' = Append(outbox, m)
              => Superseded' = Append(Superseded, [block |-> m.block, seq |-> m.seq])
         /\ outbox' = outbox \/ outbox' = WithoutAcks => Superseded' = Superseded
         /\ outbox # <<>> /\ outbox' = Tail(outbox) =>
              \/ /\ Head(outbox).op = "WRITTEN"
                 /\ Superseded # <<>> /\ Superseded' = Tail(Superseded)
              \/ Head(outbox).op # "WRITTEN" /\ Superseded' = Superseded
<1>1. Superseded = OwedBy(Due(outbox)) /\ Superseded' = OwedBy(Due(outbox'))
  BY DEF Superseded, OwedBy, Due
<1>2. Due(outbox) \in Seq(Short)
  BY DueType
<1>3. ASSUME NEW m \in Short, m.op = "ACK", outbox' = Append(outbox, m)
      PROVE  Superseded' = Superseded
  BY <1>1, <1>3, DueOfAppend
<1>4. ASSUME NEW m \in Short, m.op = "WRITTEN", outbox' = Append(outbox, m)
      PROVE  Superseded' = Append(Superseded, [block |-> m.block, seq |-> m.seq])
  BY <1>1, <1>2, <1>4, DueOfAppend, OwedByAppend
<1>5. WithoutAcks = Due(outbox)
  BY DEF WithoutAcks, Due
<1>6. ASSUME outbox' = outbox \/ outbox' = WithoutAcks
      PROVE  Superseded' = Superseded
  <2>1. Due(outbox') = Due(outbox)
    BY <1>5, <1>6, DueOfDue
  <2> QED
    BY <1>1, <2>1
<1>7. ASSUME outbox # <<>>, outbox' = Tail(outbox)
      PROVE  \/ /\ Head(outbox).op = "WRITTEN"
                /\ Superseded # <<>> /\ Superseded' = Tail(Superseded)
             \/ Head(outbox).op # "WRITTEN" /\ Superseded' = Superseded
  <2>1. Head(outbox) = outbox[1]
    BY <1>7
  <2>2. CASE outbox[1].op = "WRITTEN"
    BY <1>1, <1>2, <1>7, <2>1, <2>2, DueOfTail, OwedByTail
  <2>3. CASE outbox[1].op # "WRITTEN"
    BY <1>1, <1>7, <2>1, <2>3, DueOfTail
  <2> QED
    BY <1>7, <2>1, <2>2, <2>3
<1> QED
  BY <1>3, <1>4, <1>6, <1>7
-----------------------------------------------------------------------------
(* What moving the queue does to the ledger's saves. *)

(* A slot moves on, and the ledger's view of it. *)
Moved(q, i, r) == [q EXCEPT ![i].slot = r]
Fated(v, i, r) == [v EXCEPT ![i].fate = r]

LEMMA SaveMoves ==
  ASSUME NEW q \in Seq(Entry), NEW i \in DOMAIN q, NEW r
  PROVE  SavesOf(Moved(q, i, r)) = Fated(SavesOf(q), i, r)
<1> DEFINE p == Moved(q, i, r)
<1>1. Len(q) \in Nat /\ DOMAIN q = 1..Len(q) /\ \A j \in 1..Len(q) : q[j] \in Entry
  BY LenProperties, ElementOfSeq
<1>2. /\ DOMAIN p = DOMAIN q
      /\ \A j \in DOMAIN q : /\ p[j].block = q[j].block /\ p[j].seq = q[j].seq
                             /\ p[j].slot = IF j = i THEN r ELSE q[j].slot
  BY <1>1 DEF Entry, Moved
<1> HIDE DEF p
<1>3. /\ SavesOf(p) = [j \in DOMAIN q |-> [block |-> q[j].block, seq |-> q[j].seq,
                                  fate |-> IF j = i THEN r ELSE q[j].slot]]
  BY <1>2 DEF SavesOf
<1>4. [SavesOf(q) EXCEPT ![i].fate = r] =
        [j \in DOMAIN q |-> [block |-> q[j].block, seq |-> q[j].seq,
                             fate |-> IF j = i THEN r ELSE q[j].slot]]
  <2> DEFINE v == SavesOf(q)
  <2>1. \A j \in DOMAIN q : v[j] = [block |-> q[j].block, seq |-> q[j].seq,
                                  fate |-> q[j].slot]
    BY DEF SavesOf
  <2>2. DOMAIN v = DOMAIN q /\ v = [j \in DOMAIN q |-> v[j]]
    BY DEF SavesOf
  <2> HIDE DEF v
  <2>3. [v[i] EXCEPT !.fate = r] = [block |-> q[i].block, seq |-> q[i].seq,
                                    fate |-> r]
    <3>1. v[i] = [block |-> q[i].block, seq |-> q[i].seq, fate |-> q[i].slot]
      BY <2>1
    <3> QED
      BY <3>1
  <2>4. [v EXCEPT ![i].fate = r] =
          [j \in DOMAIN q |-> IF j = i THEN [v[i] EXCEPT !.fate = r] ELSE v[j]]
    BY <2>2
  <2>5. \A j \in DOMAIN q :
          (IF j = i THEN [v[i] EXCEPT !.fate = r] ELSE v[j]) =
          [block |-> q[j].block, seq |-> q[j].seq,
           fate |-> IF j = i THEN r ELSE q[j].slot]
    BY <2>1, <2>3
  <2> QED
    BY <2>4, <2>5 DEF v
<1> QED
  BY <1>3, <1>4 DEF p, Fated

LEMMA SaveReplaced ==
  ASSUME NEW q \in Seq(Entry), NEW i \in DOMAIN q, NEW s, NEW d
  PROVE  SavesOf([q EXCEPT ![i].seq = s, ![i].data = d]) =
           [SavesOf(q) EXCEPT ![i].seq = s]
<1> DEFINE p == [q EXCEPT ![i].seq = s, ![i].data = d]
<1>1. Len(q) \in Nat /\ DOMAIN q = 1..Len(q) /\ \A j \in 1..Len(q) : q[j] \in Entry
  BY LenProperties, ElementOfSeq
<1>2. /\ DOMAIN p = DOMAIN q
      /\ \A j \in DOMAIN q : /\ p[j].block = q[j].block /\ p[j].slot = q[j].slot
                             /\ p[j].seq = IF j = i THEN s ELSE q[j].seq
  BY <1>1 DEF Entry
<1> HIDE DEF p
<1>3. /\ SavesOf(p) = [j \in DOMAIN q |-> [block |-> q[j].block,
                                  seq |-> IF j = i THEN s ELSE q[j].seq,
                                  fate |-> q[j].slot]]
  BY <1>2 DEF SavesOf
<1>4. [SavesOf(q) EXCEPT ![i].seq = s] =
        [j \in DOMAIN q |-> [block |-> q[j].block,
                             seq |-> IF j = i THEN s ELSE q[j].seq,
                             fate |-> q[j].slot]]
  <2> DEFINE v == SavesOf(q)
  <2>1. \A j \in DOMAIN q : v[j] = [block |-> q[j].block, seq |-> q[j].seq,
                                  fate |-> q[j].slot]
    BY DEF SavesOf
  <2>2. DOMAIN v = DOMAIN q /\ v = [j \in DOMAIN q |-> v[j]]
    BY DEF SavesOf
  <2> HIDE DEF v
  <2>3. [v[i] EXCEPT !.seq = s] = [block |-> q[i].block, seq |-> s,
                                   fate |-> q[i].slot]
    <3>1. v[i] = [block |-> q[i].block, seq |-> q[i].seq, fate |-> q[i].slot]
      BY <2>1
    <3> QED
      BY <3>1
  <2>4. [v EXCEPT ![i].seq = s] =
          [j \in DOMAIN q |-> IF j = i THEN [v[i] EXCEPT !.seq = s] ELSE v[j]]
    BY <2>2
  <2>5. \A j \in DOMAIN q :
          (IF j = i THEN [v[i] EXCEPT !.seq = s] ELSE v[j]) =
          [block |-> q[j].block, seq |-> IF j = i THEN s ELSE q[j].seq,
           fate |-> q[j].slot]
    BY <2>1, <2>3
  <2> QED
    BY <2>4, <2>5 DEF v
<1> QED
  BY <1>3, <1>4 DEF p

LEMMA SavesGivenUp ==
  ASSUME NEW q \in Seq(Entry)
  PROVE  SavesOf(DiscardLive(q)) = Ledger!GivenUp(SavesOf(q))
<1>1. Len(q) \in Nat /\ DOMAIN q = 1..Len(q) /\ \A j \in 1..Len(q) : q[j] \in Entry
  BY LenProperties, ElementOfSeq
<1>2. /\ DOMAIN DiscardLive(q) = DOMAIN q
      /\ \A j \in DOMAIN q :
           /\ DiscardLive(q)[j].block = q[j].block
           /\ DiscardLive(q)[j].seq = q[j].seq
           /\ DiscardLive(q)[j].slot = IF q[j].slot \in Fate THEN q[j].slot
                                       ELSE "DISCARDED"
  BY <1>1 DEF DiscardLive, Live, Entry, Fate
<1>3. SavesOf(DiscardLive(q)) =
        [j \in DOMAIN q |-> [block |-> q[j].block, seq |-> q[j].seq,
                             fate |-> IF q[j].slot \in Fate THEN q[j].slot
                                      ELSE "DISCARDED"]]
  BY <1>2 DEF SavesOf
<1>4. Ledger!GivenUp(SavesOf(q)) =
        [j \in DOMAIN q |-> [block |-> q[j].block, seq |-> q[j].seq,
                             fate |-> IF q[j].slot \in Fate THEN q[j].slot
                                      ELSE "DISCARDED"]]
  BY DEF SavesOf, Ledger!GivenUp, Ledger!Fate, Fate
<1> QED
  BY <1>3, <1>4

LEMMA SaveAdmitted ==
  ASSUME NEW q \in Seq(Entry), NEW e \in Entry
  PROVE  SavesOf(Append(q, e)) =
           Append(SavesOf(q), [block |-> e.block, seq |-> e.seq, fate |-> e.slot])
<1> DEFINE s == [block |-> e.block, seq |-> e.seq, fate |-> e.slot]
           a == Append(q, e)
           n == Len(q)
<1>1. s \in Save /\ n \in Nat
  BY LenProperties DEF Save, Entry
<1>2. /\ a \in Seq(Entry) /\ Len(a) = n + 1 /\ a[n + 1] = e
      /\ \A i \in 1..n : a[i] = q[i]
  BY AppendProperties
<1> HIDE DEF a
<1>3. /\ SavesOf(a) \in Seq(Save) /\ Len(SavesOf(a)) = n + 1
      /\ \A i \in 1..(n + 1) :
           SavesOf(a)[i] = [block |-> a[i].block, seq |-> a[i].seq, fate |-> a[i].slot]
  BY <1>2, SavesOfType
<1>4. /\ SavesOf(q) \in Seq(Save) /\ Len(SavesOf(q)) = n
      /\ \A i \in 1..n :
           SavesOf(q)[i] = [block |-> q[i].block, seq |-> q[i].seq, fate |-> q[i].slot]
  BY SavesOfType
<1> HIDE DEF s, n
<1>5. /\ Append(SavesOf(q), s) \in Seq(Save) /\ Len(Append(SavesOf(q), s)) = n + 1
      /\ Append(SavesOf(q), s)[n + 1] = s
      /\ \A i \in 1..n : Append(SavesOf(q), s)[i] = SavesOf(q)[i]
  BY <1>1, <1>4, AppendProperties
<1>6. ASSUME NEW i \in 1..(n + 1)
      PROVE  SavesOf(a)[i] = Append(SavesOf(q), s)[i]
  <2>1. SavesOf(a)[i] = [block |-> a[i].block, seq |-> a[i].seq, fate |-> a[i].slot]
    BY <1>3
  <2>2. CASE i \in 1..n
    <3>1. /\ a[i] = q[i] /\ Append(SavesOf(q), s)[i] = SavesOf(q)[i]
          /\ SavesOf(q)[i] = [block |-> q[i].block, seq |-> q[i].seq,
                              fate |-> q[i].slot]
      BY <1>2, <1>4, <1>5, <2>2
    <3> QED
      BY <2>1, <3>1
  <2>3. CASE i = n + 1
    BY <1>2, <1>5, <2>1, <2>3 DEF s
  <2>4. i \in 1..n \/ i = n + 1
    BY <1>1
  <2> QED
    BY <2>2, <2>3, <2>4
<1>7. SavesOf(a) = Append(SavesOf(q), s)
  BY <1>3, <1>5, <1>6, SeqEqual
<1> QED
  BY <1>7 DEF a, s

LEMMA SaveDelivered ==
  ASSUME NEW q \in Seq(Entry), NEW i \in DOMAIN q
  PROVE  SavesOf(RemoveAt(q, i)) =
           SubSeq(SavesOf(q), 1, i - 1) \o SubSeq(SavesOf(q), i + 1, Len(SavesOf(q)))
<1> DEFINE r == RemoveAt(q, i)
           n == Len(q)
           v == SavesOf(q)
<1>1. n \in Nat /\ i \in 1..n
  BY LenProperties
<1>2. /\ r \in Seq(Entry) /\ Len(r) = n - 1
      /\ \A k \in 1..(n - 1) : r[k] = IF k < i THEN q[k] ELSE q[k + 1]
  BY <1>1, RemoveAtProperties
<1> HIDE DEF r
<1>3. /\ v \in Seq(Save) /\ Len(v) = n
      /\ \A k \in 1..n : v[k] = [block |-> q[k].block, seq |-> q[k].seq,
                                 fate |-> q[k].slot]
  BY SavesOfType
<1>4. /\ SavesOf(r) \in Seq(Save) /\ Len(SavesOf(r)) = n - 1
      /\ \A k \in 1..(n - 1) : SavesOf(r)[k] = [block |-> r[k].block, seq |-> r[k].seq,
                                                fate |-> r[k].slot]
  BY <1>2, SavesOfType
<1> HIDE DEF v, n
<1>5. /\ RemoveAt(v, i) \in Seq(Save) /\ Len(RemoveAt(v, i)) = n - 1
      /\ \A k \in 1..(n - 1) : RemoveAt(v, i)[k] = IF k < i THEN v[k] ELSE v[k + 1]
  BY <1>1, <1>3, RemoveAtProperties
<1>6. ASSUME NEW k \in 1..(n - 1)
      PROVE  SavesOf(r)[k] = RemoveAt(v, i)[k]
  <2>1. k \in 1..n /\ k + 1 \in 1..n
    BY <1>1
  <2>2. SavesOf(r)[k] = [block |-> r[k].block, seq |-> r[k].seq, fate |-> r[k].slot]
    BY <1>4
  <2>3. CASE k < i
    <3>1. r[k] = q[k] /\ RemoveAt(v, i)[k] = v[k]
      BY <1>2, <1>5, <2>3
    <3>2. v[k] = [block |-> q[k].block, seq |-> q[k].seq, fate |-> q[k].slot]
      BY <1>3, <2>1
    <3> QED
      BY <2>2, <3>1, <3>2
  <2>4. CASE ~ (k < i)
    <3>1. r[k] = q[k + 1] /\ RemoveAt(v, i)[k] = v[k + 1]
      BY <1>2, <1>5, <2>4
    <3>2. v[k + 1] = [block |-> q[k + 1].block, seq |-> q[k + 1].seq,
                      fate |-> q[k + 1].slot]
      BY <1>3, <2>1
    <3> QED
      BY <2>2, <3>1, <3>2
  <2> QED
    BY <2>3, <2>4
<1>7. SavesOf(r) = RemoveAt(v, i)
  BY <1>4, <1>5, <1>6, SeqEqual
<1>8. RemoveAt(v, i) = SubSeq(v, 1, i - 1) \o SubSeq(v, i + 1, Len(v))
  BY DEF RemoveAt
<1> QED
  BY <1>7, <1>8 DEF r, v
-----------------------------------------------------------------------------
(* Every step of HostIo is a step of the ledger, or leaves it alone. *)

LedgerStep == Ledger!Next \/ UNCHANGED <<Saves, Superseded, paid>>

LEMMA ViewsNow ==
  /\ Saves = SavesOf(queue) /\ Saves' = SavesOf(queue')
  /\ Superseded = OwedBy(Due(outbox)) /\ Superseded' = OwedBy(Due(outbox'))
BY DEF Saves, SavesOf, Superseded, OwedBy, Due

LEMMA SavesAre ==
  ASSUME TypeOK
  PROVE  /\ DOMAIN Saves = DOMAIN queue /\ Len(Saves) \in Nat
         /\ \A i \in DOMAIN queue : /\ Saves[i].block = queue[i].block
                                    /\ Saves[i].seq = queue[i].seq
                                    /\ Saves[i].fate = queue[i].slot
                                    /\ i \in Nat /\ 1..(i - 1) \subseteq DOMAIN queue
<1>1. Len(queue) \in Nat /\ DOMAIN queue = 1..Len(queue)
  BY QueueType
<1>2. \A i \in DOMAIN queue : i \in Nat /\ 1..(i - 1) \subseteq DOMAIN queue
  BY <1>1
<1>3. DOMAIN Saves = DOMAIN queue /\ Len(Saves) \in Nat
  BY <1>1, SavesOfType, ViewsNow DEF TypeOK
<1>4. \A i \in DOMAIN queue : /\ Saves[i].block = queue[i].block
                              /\ Saves[i].seq = queue[i].seq
                              /\ Saves[i].fate = queue[i].slot
  BY DEF Saves
<1> QED
  BY <1>2, <1>3, <1>4

LEMMA CommitLedger ==
  ASSUME TypeOK, GenerationInv, NEW x \in Inbox, Commit(x), paid' = paid
  PROVE  LedgerStep
<1>1. /\ x.block \in Block /\ x.seq \in SeqNo /\ x.data \in Content
      /\ epoch \in Epoch /\ queue \in Seq(Entry) /\ outbox \in Seq(Short)
  BY DEF TypeOK, Inbox
<1>2. \A op \in {"ACK", "WRITTEN"}, s \in SeqNo, r \in Result :
        ShortMsg(op, x.block, s, r) \in Short
  BY <1>1, ShortType
<1>3. ASSUME NEW r \in Result, outbox' = Sent(ShortMsg("ACK", x.block, x.seq, r))
      PROVE  Superseded' = Superseded
  <2>1. /\ ShortMsg("ACK", x.block, x.seq, r) \in Short
        /\ ShortMsg("ACK", x.block, x.seq, r).op = "ACK"
    BY <1>1, <1>2 DEF ShortMsg
  <2> QED
    BY <1>1, <1>3, <2>1, SupersededMoves DEF Sent
<1>4. ASSUME queue' = queue, Superseded' = Superseded
      PROVE  LedgerStep
  BY <1>4, ViewsNow DEF LedgerStep
<1>5. CASE CommitRefused(x)
  BY <1>3, <1>4, <1>5 DEF CommitRefused, Refuse, Result, Fate
<1>6. CASE CommitAgain(x)
  BY <1>3, <1>4, <1>6 DEF CommitAgain, Result, Fate
<1>7. CASE UNCHANGED <<queue, outbox>>
  BY <1>1, <1>4, <1>7, SupersededMoves
<1>8. ASSUME NEW i \in DOMAIN queue, Duplicates(x.block, x.seq) = {},
             i \in Replaceable(x.block),
             queue' = [queue EXCEPT ![i].seq = x.seq, ![i].data = x.data],
             outbox' = outbox \o CoalescedAnswers(x.block, queue[i].seq, x.seq)
      PROVE  LedgerStep
  <2> DEFINE w == ShortMsg("WRITTEN", x.block, queue[i].seq, "SUPERSEDED")
             a == ShortMsg("ACK", x.block, x.seq, "OK")
             b == Append(outbox, w)
  <2>1. /\ queue[i].slot = "Staged" /\ queue[i].block = x.block
        /\ queue[i].epoch = epoch /\ queue[i].seq # x.seq
    BY <1>8 DEF Replaceable, Duplicates, InSlot, GenerationInv, LiveOfThisCard, Live
  <2>2. /\ w \in Short /\ w.op = "WRITTEN" /\ w.block = x.block
        /\ w.seq = queue[i].seq
        /\ a \in Short /\ a.op = "ACK"
    BY <1>1, <1>2, QueueType DEF ShortMsg, Entry, Result, Fate
  <2>3. b \in Seq(Short) /\ outbox' = Append(b, a)
    <3> HIDE DEF w, a
    <3>1. b \in Seq(Short) /\ b = outbox \o <<w>>
      BY <1>1, <2>2, AppendProperties, AppendIsConcat
    <3>2. Append(b, a) = b \o <<a>>
      BY <2>2, <3>1, AppendIsConcat
    <3>3. outbox' = outbox \o <<w, a>>
      BY <1>8 DEF CoalescedAnswers, w, a
    <3>4. <<w>> \in Seq(Short) /\ <<a>> \in Seq(Short) /\ <<w>> \o <<a>> = <<w, a>>
      <4>1. <<w>> \in Seq(Short) /\ <<a>> \in Seq(Short)
        BY <2>2
      <4>2. Append(<<w>>, a) = <<w>> \o <<a>>
        BY <2>2, <4>1, AppendIsConcat
      <4>3. Append(<<w>>, a) = <<w, a>>
        <5>1. Len(<<w>>) = 1 /\ <<w, a>> \in Seq(Short) /\ Len(<<w, a>>) = 2
          BY <2>2
        <5>2. /\ Append(<<w>>, a) \in Seq(Short) /\ Len(Append(<<w>>, a)) = 2
              /\ Append(<<w>>, a)[1] = w /\ Append(<<w>>, a)[2] = a
          BY <2>2, <4>1, <5>1, AppendProperties
        <5>3. \A k \in 1..2 : Append(<<w>>, a)[k] = <<w, a>>[k]
          BY <5>2
        <5> QED
          BY <5>1, <5>2, <5>3, SeqEqual
      <4> QED
        BY <4>1, <4>2, <4>3
    <3> QED
      BY <1>1, <3>1, <3>2, <3>3, <3>4, ConcatAssociative
  <2> HIDE DEF w, a, b
  <2>4. Due(outbox') = Due(b) /\ Due(b) = Append(Due(outbox), w)
    BY <1>1, <2>2, <2>3, DueOfAppend DEF b
  <2>5. Superseded' = Append(Superseded, [block |-> w.block, seq |-> w.seq])
    BY <1>1, <2>2, <2>4, DueType, OwedByAppend, ViewsNow
  <2>6. Saves' = [Saves EXCEPT ![i].seq = x.seq]
    <3>1. SavesOf([queue EXCEPT ![i].seq = x.seq, ![i].data = x.data]) =
            [SavesOf(queue) EXCEPT ![i].seq = x.seq]
      BY <1>1, <1>8, SaveReplaced
    <3>2. Saves = SavesOf(queue) /\ Saves' = SavesOf(queue')
      BY ViewsNow
    <3> QED
      BY <1>8, <3>1, <3>2
  <2>7. /\ i \in DOMAIN Saves /\ Saves[i].fate = "Staged" /\ Saves[i].seq # x.seq
        /\ Saves[i].block = w.block /\ Saves[i].seq = w.seq
    BY <2>1, <2>2, SavesAre
  <2>8. Ledger!Supersede(i, x.seq)
    BY <2>5, <2>6, <2>7 DEF Ledger!Supersede
  <2> QED
    BY <1>1, <2>7, <2>8 DEF LedgerStep, Ledger!Next
<1>9. ASSUME queue' = Append(queue, [slot |-> "Staged", block |-> x.block,
                                     seq |-> x.seq, epoch |-> epoch,
                                     data |-> x.data]),
             outbox' = Append(outbox, ShortMsg("ACK", x.block, x.seq, "OK"))
      PROVE  LedgerStep
  <2> DEFINE e == [slot |-> "Staged", block |-> x.block, seq |-> x.seq,
                   epoch |-> epoch, data |-> x.data]
             a == ShortMsg("ACK", x.block, x.seq, "OK")
  <2>1. /\ e \in Entry /\ e.block = x.block /\ e.seq = x.seq /\ e.slot = "Staged"
        /\ a \in Short /\ a.op = "ACK"
    BY <1>1, <1>2 DEF Entry, Result, Fate, ShortMsg
  <2>2. queue' = Append(queue, e) /\ outbox' = Append(outbox, a)
    BY <1>9
  <2> HIDE DEF e, a
  <2>3. Superseded' = Superseded
    BY <1>1, <2>1, <2>2, SupersededMoves
  <2>4. Saves' = Append(Saves, [block |-> x.block, seq |-> x.seq, fate |-> "Staged"])
    BY <1>1, <2>1, <2>2, SaveAdmitted, ViewsNow
  <2>5. Ledger!Admit(x.block, x.seq)
    BY <2>3, <2>4 DEF Ledger!Admit
  <2> QED
    BY <1>1, <2>5 DEF LedgerStep, Ledger!Next
<1>10. CASE CommitCoalesced(x)
  BY <1>7, <1>8, <1>10 DEF CommitCoalesced, IsFirst
<1>11. CASE CommitStaged(x)
  BY <1>7, <1>9, <1>11 DEF CommitStaged
<1> QED
  BY <1>5, <1>6, <1>10, <1>11 DEF Commit

LEMMA PhaseLedger ==
  ASSUME TypeOK, GenerationInv, NEW b \in WriteBlock, NEW ph \in 0..Phases,
         NEW s \in SeqNo, NEW p \in Payload, AcceptPhase(b, ph, s, p)
  PROVE  LedgerStep
<1> DEFINE x == [Opened(b, ph, s) EXCEPT !.data[ph] = p]
<1>1. paid' = paid /\ outbox \in Seq(Short)
  BY DEF AcceptPhase, TypeOK
<1>2. CASE queue' = queue /\ outbox' = outbox
  BY <1>1, <1>2, SupersededMoves, ViewsNow DEF LedgerStep
<1>3. CASE ~InOrder(b, ph, s)
  <2>1. queue' = queue /\ outbox' = Sent(ShortMsg("ACK", b, s, "BAD"))
    BY <1>3 DEF AcceptPhase, Refuse
  <2>2. /\ ShortMsg("ACK", b, s, "BAD") \in Short
        /\ ShortMsg("ACK", b, s, "BAD").op = "ACK"
    BY ShortType, HostIoAssumption DEF ShortMsg, Result
  <2>3. Superseded' = Superseded
    BY <1>1, <2>1, <2>2, SupersededMoves DEF Sent
  <2> QED
    BY <1>1, <2>1, <2>3, ViewsNow DEF LedgerStep
<1>4. CASE InOrder(b, ph, s)
  <2>1. CASE Commit(x)
    <3>1. x \in Inbox
      BY <1>4, AssembledType
    <3> HIDE DEF x
    <3> QED
      BY <1>1, <2>1, <3>1, CommitLedger
  <2> HIDE DEF x
  <2> QED
    BY <1>2, <1>4, <2>1 DEF AcceptPhase, x
<1> QED
  BY <1>3, <1>4

LEMMA NotifyLedger ==
  ASSUME TypeOK, Notify
  PROVE  LedgerStep
<1>1. outbox \in Seq(Short) /\ queue \in Seq(Entry)
  BY DEF TypeOK
<1>2. CASE NotifyStatus \/ NotifyData
  <2>1. queue' = queue /\ outbox' = outbox /\ paid' = paid
    BY <1>2 DEF NotifyStatus, NotifyData
  <2> QED
    BY <1>1, <2>1, SupersededMoves, ViewsNow DEF LedgerStep
<1>3. CASE NotifyShort
  <2>1. /\ outbox # <<>> /\ outbox' = Tail(outbox) /\ queue' = queue
        /\ paid' = IF Head(outbox).op = "WRITTEN" THEN ~paid ELSE paid
    BY <1>3 DEF NotifyShort
  <2>2. Saves' = Saves
    BY <2>1, ViewsNow
  <2>3. CASE Head(outbox).op = "WRITTEN"
    <3>1. Superseded # <<>> /\ Superseded' = Tail(Superseded) /\ paid' = ~paid
      BY <1>1, <2>1, <2>3, SupersededMoves
    <3>2. Ledger!DeliverSuperseded
      BY <2>2, <3>1 DEF Ledger!DeliverSuperseded
    <3> QED
      BY <3>2 DEF LedgerStep, Ledger!Next
  <2>4. CASE Head(outbox).op # "WRITTEN"
    <3>1. Superseded' = Superseded /\ paid' = paid
      BY <1>1, <2>1, <2>4, SupersededMoves
    <3> QED
      BY <2>2, <3>1 DEF LedgerStep
  <2> QED
    BY <2>3, <2>4
<1>4. CASE NotifyWritten
  <2>1. PICK i \in DOMAIN queue : /\ IsFirst(i, InSlot(Fate))
                                  /\ queue' = RemoveAt(queue, i)
    BY <1>4 DEF NotifyWritten
  <2>2. paid' = ~paid /\ Superseded' = Superseded
    BY <1>1, <1>4, SupersededMoves DEF NotifyWritten
  <2>3. Saves' = SubSeq(Saves, 1, i - 1) \o SubSeq(Saves, i + 1, Len(Saves))
    BY <1>1, <2>1, SaveDelivered, ViewsNow
  <2>4. Ledger!First(i, Ledger!Fate)
    <3>1. queue[i].slot \in Fate
      BY <2>1 DEF IsFirst, InSlot
    <3>2. ASSUME NEW j \in 1..(i - 1)
          PROVE  queue[j].slot \notin Fate /\ j \in DOMAIN queue
      <4>1. j \in DOMAIN queue /\ i \in Nat
        BY SavesAre
      <4>2. ~ (i <= j)
        BY <4>1
      <4> QED
        BY <2>1, <4>1, <4>2 DEF IsFirst, InSlot
    <3> QED
      BY <3>1, <3>2, SavesAre DEF Ledger!First, Ledger!Fate, Fate
  <2>5. Ledger!Deliver(i)
    BY <2>2, <2>3, <2>4 DEF Ledger!Deliver
  <2>6. i \in DOMAIN Saves
    BY SavesAre
  <2> QED
    BY <2>5, <2>6 DEF LedgerStep, Ledger!Next
<1> QED
  BY <1>2, <1>3, <1>4 DEF Notify

LEMMA SlotLedger ==
  ASSUME TypeOK, NEW i \in DOMAIN queue, NEW r,
         queue' = [queue EXCEPT ![i].slot = r]
  PROVE  Saves' = [Saves EXCEPT ![i].fate = r]
<1>1. queue \in Seq(Entry)
  BY DEF TypeOK
<1>2. SavesOf(Moved(queue, i, r)) = Fated(SavesOf(queue), i, r)
  BY <1>1, SaveMoves
<1>3. Saves = SavesOf(queue) /\ Saves' = SavesOf(queue')
  BY ViewsNow
<1>4. queue' = Moved(queue, i, r)
  BY DEF Moved
<1>5. Saves' = Fated(Saves, i, r)
  BY <1>2, <1>3, <1>4
<1> QED
  BY <1>5 DEF Fated

LEMMA VerdictLedger ==
  ASSUME TypeOK, GenerationInv, NEW b \in Block,
         PublishWritten(b) \/ PublishWriteFailed(b) \/ PublishUnidentified(b)
  PROVE  LedgerStep
<1>1. queue \in Seq(Entry) /\ outbox \in Seq(Short)
  BY DEF TypeOK
<1>2. outbox' = outbox /\ paid' = paid
  BY DEF PublishWritten, PublishWriteFailed, PublishUnidentified, EndGeneration
<1>3. Superseded' = Superseded
  BY <1>1, <1>2, SupersededMoves
<1>4. CASE PublishWritten(b)
  <2>1. PICK i \in DOMAIN queue : /\ queue[i].slot = "Writing"
                                  /\ queue' = [queue EXCEPT ![i].slot = "OK"]
    BY <1>4 DEF PublishWritten, IsFirst, Writing, InSlot
  <2>2. Saves' = [Saves EXCEPT ![i].fate = "OK"]
    BY <2>1, SlotLedger
  <2>3. i \in DOMAIN Saves /\ Saves[i].fate = "Writing"
    BY <2>1, SavesAre
  <2>4. Ledger!Land(i)
    BY <1>2, <1>3, <2>2, <2>3 DEF Ledger!Land
  <2> QED
    BY <2>3, <2>4 DEF LedgerStep, Ledger!Next
<1>5. CASE PublishWriteFailed(b)
  <2>1. PICK i \in DOMAIN queue :
          /\ queue[i].slot = "Writing"
          /\ queue' = DiscardLive([queue EXCEPT ![i].slot = "FAILED"])
    BY <1>5 DEF PublishWriteFailed, EndGeneration, IsFirst, Writing, InSlot
  <2>2. Saves' = Ledger!GivenUp([Saves EXCEPT ![i].fate = "FAILED"])
    <3> DEFINE q == Moved(queue, i, "FAILED")
    <3>1. queue' = DiscardLive(q)
      BY <2>1 DEF Moved
    <3>2. q \in Seq(Entry)
      BY <1>1, EntrySlot DEF Fate, Moved
    <3>3. SavesOf(q) = Fated(SavesOf(queue), i, "FAILED")
      BY <1>1, SaveMoves
    <3> HIDE DEF q
    <3>4. SavesOf(DiscardLive(q)) = Ledger!GivenUp(SavesOf(q))
      BY <3>2, SavesGivenUp
    <3>5. Saves = SavesOf(queue) /\ Saves' = SavesOf(queue')
      BY ViewsNow
    <3> QED
      BY <3>1, <3>3, <3>4, <3>5 DEF Fated
  <2>3. i \in DOMAIN Saves /\ Saves[i].fate = "Writing"
    BY <2>1, SavesAre
  <2>4. Ledger!Fail(i)
    BY <1>2, <1>3, <2>2, <2>3 DEF Ledger!Fail
  <2> QED
    BY <2>3, <2>4 DEF LedgerStep, Ledger!Next
<1>6. CASE PublishUnidentified(b)
  <2>1. queue' = DiscardLive(queue)
    BY <1>6 DEF PublishUnidentified, EndGeneration
  <2>2. Saves' = Ledger!GivenUp(Saves)
    BY <1>1, <2>1, SavesGivenUp, ViewsNow
  <2>3. Ledger!EndGeneration
    BY <1>2, <1>3, <2>2 DEF Ledger!EndGeneration
  <2> QED
    BY <2>3 DEF LedgerStep, Ledger!Next
<1> QED
  BY <1>4, <1>5, <1>6

LEMMA TakeWriteLedger ==
  ASSUME TypeOK, GenerationInv, TakeWrite
  PROVE  LedgerStep
<1>1. queue \in Seq(Entry) /\ outbox \in Seq(Short)
  BY DEF TypeOK
<1>2. PICK i \in DOMAIN queue :
        /\ IsFirst(i, {j \in InSlot({"Staged"}) : queue[j].epoch = epoch})
        /\ queue' = [queue EXCEPT ![i].slot = "Writing"]
  BY DEF TakeWrite
<1>3. Superseded' = Superseded /\ paid' = paid
  BY <1>1, SupersededMoves DEF TakeWrite
<1>4. Saves' = [Saves EXCEPT ![i].fate = "Writing"]
  BY <1>2, SlotLedger
<1>5. \A j \in DOMAIN queue : queue[j].slot # "Writing"
  BY DEF TakeWrite, MayWrite, InSlot
<1>6. \A j \in DOMAIN queue : queue[j].slot = "Staged" => i <= j
  BY <1>2 DEF IsFirst, InSlot, GenerationInv, LiveOfThisCard, Live
<1>7. queue[i].slot = "Staged"
  BY <1>2 DEF IsFirst, InSlot
<1>8. Ledger!First(i, {"Staged"})
  <2>1. ASSUME NEW j \in 1..(i - 1)
        PROVE  j \in DOMAIN queue /\ queue[j].slot # "Staged"
    <3>1. j \in DOMAIN queue /\ i \in Nat
      BY SavesAre
    <3>2. ~ (i <= j)
      BY <3>1
    <3> QED
      BY <1>6, <3>1, <3>2
  <2> QED
    BY <1>7, <2>1, SavesAre DEF Ledger!First
<1>9. i \in DOMAIN Saves /\ \A j \in DOMAIN Saves : Saves[j].fate # "Writing"
  BY <1>5, SavesAre
<1>10. Ledger!Start(i)
  BY <1>3, <1>4, <1>8, <1>9 DEF Ledger!Start
<1> QED
  BY <1>9, <1>10 DEF LedgerStep, Ledger!Next

LEMMA LedgerNext ==
  ASSUME TypeOK, GenerationInv, [Next]_vars
  PROVE  LedgerStep
<1>0. ReadBlock \subseteq Block /\ WriteBlock \subseteq Block
  BY HostIoAssumption
<1>1. queue \in Seq(Entry) /\ outbox \in Seq(Short)
  BY DEF TypeOK
<1>2. ASSUME queue' = queue, paid' = paid,
             outbox' = outbox \/ outbox' = WithoutAcks
      PROVE  LedgerStep
  BY <1>1, <1>2, SupersededMoves, ViewsNow DEF LedgerStep
<1>3. CASE BleTask
  <2>1. ASSUME NEW b \in WriteBlock, NEW ph \in 0..Phases, NEW s \in SeqNo,
               NEW p \in Payload, AcceptPhase(b, ph, s, p)
        PROVE  LedgerStep
    BY <2>1, PhaseLedger
  <2>2. CASE Notify
    BY <2>2, NotifyLedger
  <2>3. CASE \/ \E seed \in Seeds : Reset(seed)
             \/ SessionEnds \/ PauseWritesUnlessDraining
             \/ \E b \in ReadBlock : AcceptRead(b)
             \/ StatusAsked
    <3>1. /\ queue' = queue /\ paid' = paid
          /\ outbox' = outbox \/ outbox' = WithoutAcks
      BY <2>3 DEF Reset, DropHost, SessionEnds, PauseWritesUnlessDraining,
                  AcceptRead, StatusAsked
    <3> QED
      BY <1>2, <3>1
  <2> QED
    BY <1>3, <2>1, <2>2, <2>3 DEF BleTask, Dongle
<1>4. CASE PollLoop
  <2>1. ASSUME NEW p \in BOOLEAN, SetVmuPresent(p)
        PROVE  LedgerStep
    <3>1. queue' = DiscardLive(queue) /\ outbox' = outbox /\ paid' = paid
      BY <2>1 DEF SetVmuPresent, EndGeneration
    <3>2. Saves' = Ledger!GivenUp(Saves)
      BY <1>1, <3>1, SavesGivenUp, ViewsNow
    <3>3. Superseded' = Superseded
      BY <1>1, <3>1, SupersededMoves
    <3>4. Ledger!EndGeneration
      BY <3>1, <3>2, <3>3 DEF Ledger!EndGeneration
    <3> QED
      BY <3>4 DEF LedgerStep, Ledger!Next
  <2>2. CASE TakeWrite
    BY <2>2, TakeWriteLedger
  <2>3. ASSUME NEW b \in Block,
               PublishWritten(b) \/ PublishWriteFailed(b) \/ PublishUnidentified(b)
        PROVE  LedgerStep
    BY <2>3, VerdictLedger
  <2>4. CASE \/ OpenWrites \/ LinkDown \/ \E i \in BOOLEAN : SetIdle(i)
             \/ TakeRequest \/ Recall \/ Answer
             \/ NoteCardVerified \/ NoteEnumerated
    <3>1. /\ queue' = queue /\ paid' = paid
          /\ outbox' = outbox \/ outbox' = WithoutAcks
      BY <2>4 DEF OpenWrites, LinkDown, DropHost, SetIdle, TakeRequest, Recall,
         Answer, PublishBlock, PublishFailure, NoteCardVerified, NoteEnumerated
    <3> QED
      BY <1>2, <3>1
  <2> QED
    BY <1>0, <1>4, <2>1, <2>2, <2>3, <2>4 DEF PollLoop, Verdict
<1>5. CASE UNCHANGED vars
  BY <1>2, <1>5 DEF vars
<1> QED
  BY <1>3, <1>4, <1>5 DEF Next

LEMMA LedgerInit == Init => Ledger!Init
<1> SUFFICES ASSUME Init PROVE Ledger!Init
  OBVIOUS
<1>1. queue = <<>> /\ outbox = <<>> /\ paid = FALSE
  BY DEF Init
<1>2. Saves = <<>>
  BY <1>1 DEF Saves
<1>3. Due(outbox) = <<>>
  BY <1>1, EmptySeq, WrittensProperties DEF Due
<1>4. Superseded = <<>>
  BY <1>3, ViewsNow DEF OwedBy
<1> QED
  BY <1>1, <1>2, <1>4 DEF Ledger!Init

(* Short of 2^32 generations in one power cycle, the storage service implements
   the ledger: whatever drops, resets, undocks or overflows, every acknowledged
   save gets exactly one WRITTEN, with the fate it met, and in its turn: commit,
   take_write, the publish_ calls, end_generation, link_down, advance. *)
THEOREM ServiceKeepsLedger ==
  ASSUME MaxEpoch < EpochMod
  PROVE  Spec => KeepsLedger
<1>1. TypeOK /\ GenerationInv /\ [Next]_vars =>
        [Ledger!Next]_<<Saves, Superseded, paid>>
  BY LedgerNext DEF LedgerStep
<1> QED
  BY <1>1, LedgerInit, TypeCorrect, GenerationHolds, PTL
     DEF Spec, KeepsLedger, Ledger!Spec
=============================================================================
