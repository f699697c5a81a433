--------------------------- MODULE ReadPathProofs ---------------------------
(***************************************************************************)
(* Where a block that is owed is, and what a block handed out holds, for   *)
(* any set of blocks, any number of tries, any schedule and any queue that *)
(* has room for the two owners.                                            *)
(***************************************************************************)
EXTENDS ReadPath, SequenceTheorems, WellFoundedInduction, TLAPS

MaybeBlock == Block \cup {None}

(* What an owner is owed of the queue, the latch, the decode and the slot. *)
QueueHas(q, o, b) ==
  IF b = None THEN \A i \in 1..Len(q) : q[i].owner # o
  ELSE \E i \in 1..Len(q) :
         /\ q[i].owner = o /\ q[i].block = b
         /\ \A j \in 1..Len(q) : q[j].owner = o => j = i

LatchedFor(r, o) ==
  IF r.latched # None /\ r.latched.req.owner = o
  THEN r.latched.req.block ELSE None

DecodingFor(r, o) ==
  IF r.decoding # None /\ r.decoding.owner = o
  THEN r.decoding.block ELSE None

ReadyFor(r, o) ==
  IF r.ready # None /\ r.ready.owner = o THEN r.ready.block ELSE None

Slots == {"latched", "decoding", "ready", "failed"}

Places == Slots \cup {"queue"}

Slot(r, o, w) ==
  CASE w = "latched" -> LatchedFor(r, o)
    [] w = "decoding" -> DecodingFor(r, o)
    [] w = "ready" -> ReadyFor(r, o)
    [] w = "failed" -> r.failed[o]

(* One place of the pipeline has block `b` for the owner, no other has any. *)
HeldAt(r, o, b, p) ==
  /\ QueueHas(r.queue, o, IF p = "queue" THEN b ELSE None)
  /\ \A w \in Slots : Slot(r, o, w) = IF w = p THEN b ELSE None

(* From `r` to `s` the owner's slot `p` has become `b`, and no other moved. *)
Moved(r, s, a, p, b) ==
  \A o \in Owner, w \in Slots :
    Slot(s, o, w) = IF w = p /\ o = a THEN b ELSE Slot(r, o, w)

Owes(r, o, b) == \E p \in Places : HeldAt(r, o, b, p)

(* A capture on its way is of the block its request names and of the card
   docked now; a decode and an unread block do not share the frame. *)
Fresh(b) == [block |-> b, fresh |-> TRUE]

Captures(r) ==
  /\ r.decoding = None \/ r.ready = None
  /\ r.latched # None /\ r.latched.outcome = "Streams" =>
       r.streams = Fresh(r.latched.req.block)
  /\ r.decoding # None => r.frame = Fresh(r.decoding.block)
  /\ r.ready # None => r.data = Fresh(r.ready.block)

(* The reader owes each owner what `bs` says. *)
Sound(r, bs) ==
  /\ r \in Reader /\ Captures(r)
  /\ \A o \in Owner : Owes(r, o, bs[o])

(* Once the card is gone nobody is owed anything, whatever he waits for. *)
Owing ==
  [o \in Owner |-> IF present /\ published THEN WaitsFor(o) ELSE None]

(* The loop is between a probe that moved presence and the head of the pass
   that publishes it: nothing but the pad's turn has passed. *)
Between == turn \in {"Rest", "Head"}

Modes ==
  /\ present # published => Between
  /\ ~published => outstanding = None /\ ~writing
  /\ writer # None /\ ~writing => Between /\ ~published

ReadInv == TypeOK /\ Sound(reader, Owing) /\ Modes

-----------------------------------------------------------------------------
(* The queue. *)

LEMMA Owners == "Host" \in Owner /\ "Writer" \in Owner /\ "Host" # "Writer"
                /\ \A o \in Owner : o = "Host" \/ o = "Writer"
  BY DEF Owner

LEMMA ReqFields ==
  ASSUME NEW x \in Req
  PROVE  /\ x.block \in Block /\ x.block # None /\ x.owner \in Owner
         /\ x.tries \in 0..(ReadTries - 1) /\ x # None
  BY ReadPipelineAssumption, NoneAssumption DEF Req

LEMMA PushedHas ==
  ASSUME NEW q \in Seq(Req), NEW x \in Req, NEW o \in Owner, NEW b \in MaybeBlock,
         QueueHas(q, o, b), o = x.owner => b = None
  PROVE  /\ <<x>> \o q \in Seq(Req)
         /\ Len(<<x>> \o q) = Len(q) + 1
         /\ QueueHas(<<x>> \o q, o, IF o = x.owner THEN x.block ELSE b)
<1> DEFINE s == <<x>> \o q
<1>1. /\ s \in Seq(Req) /\ Len(s) = Len(q) + 1 /\ s[1] = x
      /\ \A i \in 1..Len(q) : s[i + 1] = q[i]
      /\ \A i \in 1..Len(s) : i # 1 => i - 1 \in 1..Len(q) /\ s[i] = q[i - 1]
  OBVIOUS
<1> HIDE DEF s
<1>2. QueueHas(s, o, IF o = x.owner THEN x.block ELSE b)
  <2>1. CASE o = x.owner
    <3>1. \A i \in 1..Len(q) : q[i].owner # o
      BY <2>1 DEF QueueHas
    <3>2. 1 \in 1..Len(s)
      BY <1>1
    <3>3. \A j \in 1..Len(s) : s[j].owner = o => j = 1
      BY <1>1, <3>1
    <3> QED
      BY <1>1, <2>1, <3>2, <3>3, ReqFields DEF QueueHas
  <2>2. CASE o # x.owner /\ b = None
    BY <1>1, <2>2 DEF QueueHas
  <2>3. CASE o # x.owner /\ b # None
    <3>1. PICK i \in 1..Len(q) :
            /\ q[i].owner = o /\ q[i].block = b
            /\ \A j \in 1..Len(q) : q[j].owner = o => j = i
      BY <2>3 DEF QueueHas
    <3>2. i + 1 \in 1..Len(s) /\ s[i + 1] = q[i]
      BY <1>1
    <3>3. ASSUME NEW j \in 1..Len(s), s[j].owner = o PROVE j = i + 1
      <4>1. j - 1 \in 1..Len(q) /\ s[j] = q[j - 1]
        BY <1>1, <2>3, <3>3
      <4>2. j - 1 = i
        BY <3>1, <3>3, <4>1
      <4> QED
        BY <4>2
    <3> QED
      BY <2>3, <3>1, <3>2, <3>3 DEF QueueHas
  <2> QED
    BY <2>1, <2>2, <2>3
<1> QED
  BY <1>1, <1>2 DEF s

LEMMA AppendedHas ==
  ASSUME NEW q \in Seq(Req), NEW x \in Req, NEW o \in Owner, NEW b \in MaybeBlock,
         QueueHas(q, o, b), o = x.owner => b = None
  PROVE  /\ Append(q, x) \in Seq(Req)
         /\ Len(Append(q, x)) = Len(q) + 1
         /\ QueueHas(Append(q, x), o, IF o = x.owner THEN x.block ELSE b)
<1> DEFINE s == Append(q, x)
           n == Len(q) + 1
<1>1. /\ s \in Seq(Req) /\ Len(s) = n /\ s[n] = x /\ n \in 1..Len(s)
      /\ \A i \in 1..Len(q) : s[i] = q[i] /\ i \in 1..Len(s) /\ i # n
      /\ \A i \in 1..Len(s) : i # n => i \in 1..Len(q)
  OBVIOUS
<1> HIDE DEF s, n
<1>2. QueueHas(s, o, IF o = x.owner THEN x.block ELSE b)
  <2>1. CASE o = x.owner
    <3>1. \A i \in 1..Len(q) : q[i].owner # o
      BY <2>1 DEF QueueHas
    <3>2. \A j \in 1..Len(s) : s[j].owner = o => j = n
      BY <1>1, <3>1
    <3> QED
      BY <1>1, <2>1, <3>2, ReqFields DEF QueueHas
  <2>2. CASE o # x.owner /\ b = None
    BY <1>1, <2>2 DEF QueueHas
  <2>3. CASE o # x.owner /\ b # None
    <3>1. PICK i \in 1..Len(q) :
            /\ q[i].owner = o /\ q[i].block = b
            /\ \A j \in 1..Len(q) : q[j].owner = o => j = i
      BY <2>3 DEF QueueHas
    <3>2. \A j \in 1..Len(s) : s[j].owner = o => j = i
      BY <1>1, <2>3, <3>1
    <3> QED
      BY <1>1, <2>3, <3>1, <3>2 DEF QueueHas
  <2> QED
    BY <2>1, <2>2, <2>3
<1> QED
  BY <1>1, <1>2 DEF s, n

LEMMA PoppedHas ==
  ASSUME NEW q \in Seq(Req), q # <<>>, NEW o \in Owner, NEW b \in MaybeBlock,
         QueueHas(q, o, b)
  PROVE  /\ Head(q) \in Req /\ Tail(q) \in Seq(Req)
         /\ Len(Tail(q)) = Len(q) - 1
         /\ o = Head(q).owner => b = Head(q).block
         /\ QueueHas(Tail(q), o, IF o = Head(q).owner THEN None ELSE b)
<1> DEFINE s == Tail(q)
<1>1. /\ s \in Seq(Req) /\ Len(s) = Len(q) - 1 /\ Head(q) = q[1]
      /\ q[1] \in Req /\ 1 \in 1..Len(q)
      /\ \A i \in 1..Len(s) : s[i] = q[i + 1] /\ i + 1 \in 1..Len(q)
      /\ \A i \in 1..Len(q) : i # 1 => i - 1 \in 1..Len(s) /\ s[i - 1] = q[i]
  OBVIOUS
<1> HIDE DEF s
<1>2. CASE b = None
  BY <1>1, <1>2 DEF QueueHas, s
<1>3. CASE b # None
  <2>1. PICK i \in 1..Len(q) :
          /\ q[i].owner = o /\ q[i].block = b
          /\ \A j \in 1..Len(q) : q[j].owner = o => j = i
    BY <1>3 DEF QueueHas
  <2>2. CASE i = 1
    <3>1. \A j \in 1..Len(s) : s[j].owner # o
      BY <1>1, <2>1, <2>2
    <3> QED
      BY <1>1, <2>1, <2>2, <3>1 DEF QueueHas, s
  <2>3. CASE i # 1
    <3>1. q[1].owner # o
      BY <1>1, <2>1, <2>3
    <3>2. i - 1 \in 1..Len(s) /\ s[i - 1] = q[i]
      BY <1>1, <2>3
    <3>3. \A j \in 1..Len(s) : s[j].owner = o => j = i - 1
      BY <1>1, <2>1
    <3> QED
      BY <1>1, <1>3, <2>1, <3>1, <3>2, <3>3 DEF QueueHas, s
  <2> QED
    BY <2>2, <2>3
<1> QED
  BY <1>2, <1>3

(* Two owners with one request each leave the queue no longer than two. *)
LEMMA QueueShort ==
  ASSUME NEW q \in Seq(Req), NEW bs \in [Owner -> MaybeBlock],
         \A o \in Owner : QueueHas(q, o, bs[o])
  PROVE  /\ Len(q) <= 2
         /\ \A o \in Owner : bs[o] = None => Len(q) <= 1
<1>1. \A i, j \in 1..Len(q) : q[i].owner = q[j].owner => i = j
  <2> SUFFICES ASSUME NEW i \in 1..Len(q), NEW j \in 1..Len(q),
                      q[i].owner = q[j].owner
               PROVE  i = j
    OBVIOUS
  <2>1. q[i].owner \in Owner
    BY ReqFields
  <2>2. QueueHas(q, q[i].owner, bs[q[i].owner])
    BY <2>1
  <2> QED
    BY <2>2 DEF QueueHas
<1>2. \A i \in 1..Len(q) : bs[q[i].owner] # None /\ q[i].owner \in Owner
  BY ReqFields DEF QueueHas
<1>3. Len(q) <= 2
  <2> SUFFICES ASSUME Len(q) > 2 PROVE FALSE
    OBVIOUS
  <2>1. 1 \in 1..Len(q) /\ 2 \in 1..Len(q) /\ 3 \in 1..Len(q)
    OBVIOUS
  <2> QED
    BY <1>1, <1>2, <2>1 DEF Owner
<1>4. ASSUME NEW o \in Owner, bs[o] = None, Len(q) > 1 PROVE FALSE
  <2>1. 1 \in 1..Len(q) /\ 2 \in 1..Len(q)
    BY <1>4
  <2> QED
    BY <1>1, <1>2, <1>4, <2>1 DEF Owner
<1> QED
  BY <1>3, <1>4

-----------------------------------------------------------------------------
(* What is kept of it. *)

LEMMA LowestExists ==
  ASSUME NEW S, S \subseteq Nat, S # {}
  PROVE  \E i \in S : \A j \in S : i <= j
<1>1. PICK i \in S : \A j \in S : ~ (<<j, i>> \in OpToRel(<, Nat))
  BY NatLessThanWellFounded, WFMin
<1>2. \A j \in S : ~ (j < i)
  BY <1>1 DEF OpToRel
<1> QED
  BY <1>2

(* The recursion defines a function: the shortest part of the queue for which
   there is none would have one. *)
LEMMA KeptUnfolds ==
  ASSUME NEW q \in Seq(Req)
  PROVE  Kept(q) = [n \in 0..Len(q) |->
                      IF n = 0 THEN <<>>
                      ELSE IF q[n].owner = "Writer"
                           THEN Append(Kept(q)[n - 1], q[n])
                           ELSE Kept(q)[n - 1]]
<1> DEFINE Step(f, n) == IF n = 0 THEN <<>>
                         ELSE IF q[n].owner = "Writer"
                              THEN Append(f[n - 1], q[n])
                              ELSE f[n - 1]
           Bad == {m \in Nat : /\ m <= Len(q)
                               /\ ~ \E f : f = [n \in 0..m |-> Step(f, n)]}
<1>1. Bad = {}
  <2> SUFFICES ASSUME Bad # {} PROVE FALSE
    OBVIOUS
  <2>1. PICK m \in Bad : \A k \in Bad : m <= k
    <3>1. Bad \subseteq Nat
      OBVIOUS
    <3> HIDE DEF Bad
    <3> QED
      BY <3>1, LowestExists
  <2>2. m \in Nat /\ m <= Len(q)
    OBVIOUS
  <2>3. m # 0
    <3>1. [n \in 0..0 |-> <<>>] = [n \in 0..0 |-> Step([i \in 0..0 |-> <<>>], n)]
      OBVIOUS
    <3>2. 0 \notin Bad
      BY <3>1
    <3> QED
      BY <3>2
  <2>4. PICK f : f = [n \in 0..(m - 1) |-> Step(f, n)]
    <3>1. m - 1 \in Nat /\ m - 1 <= Len(q) /\ ~ (m <= m - 1)
      BY <2>2, <2>3
    <3>2. m - 1 \notin Bad
      BY <2>1, <3>1
    <3> HIDE DEF Step
    <3> QED
      BY <3>1, <3>2
  <2> DEFINE g == [n \in 0..m |-> IF n < m THEN f[n] ELSE Step(f, m)]
  <2>5. \A n \in 0..m : g[n] = Step(g, n)
    <3> SUFFICES ASSUME NEW n \in 0..m PROVE g[n] = Step(g, n)
      OBVIOUS
    <3>1. CASE n = 0
      BY <2>3, <2>4, <3>1
    <3>2. CASE n # 0
      <4>1. n - 1 \in 0..(m - 1) /\ g[n - 1] = f[n - 1]
        BY <3>2, <2>2
      <4> HIDE DEF g
      <4>2. Step(g, n) = Step(f, n)
        BY <4>1, <3>2
      <4> HIDE DEF Step
      <4>3. CASE n = m
        BY <4>2, <4>3 DEF g
      <4>4. CASE n < m
        <5>1. g[n] = f[n]
          BY <4>4 DEF g
        <5>2. n \in 0..(m - 1)
          BY <4>4, <2>2
        <5>3. f[n] = Step(f, n)
          BY <5>2, <2>4
        <5> QED
          BY <4>2, <5>1, <5>3
      <4> QED
        BY <4>3, <4>4, <2>2
    <3> QED
      BY <3>1, <3>2
  <2>6. g = [n \in 0..m |-> Step(g, n)]
    <3> HIDE DEF Step
    <3> QED
      BY <2>5
  <2> HIDE DEF g, Step
  <2> QED
    BY <2>6
<1>2. \E f : f = [n \in 0..Len(q) |-> Step(f, n)]
  <2> HIDE DEF Step
  <2> QED
    BY <1>1
<1> QED
  BY <1>2 DEF Kept

(* The writer's one request is kept, the host's is not. *)
LEMMA KeptIsWriters ==
  ASSUME NEW q \in Seq(Req), NEW b \in MaybeBlock, QueueHas(q, "Writer", b)
  PROVE  /\ Kept(q)[Len(q)] \in Seq(Req)
         /\ QueueHas(Kept(q)[Len(q)], "Writer", b)
         /\ QueueHas(Kept(q)[Len(q)], "Host", None)
<1> DEFINE Writers(n) == {i \in 1..n : q[i].owner = "Writer"}
           Good(n) == \/ Writers(n) = {} /\ Kept(q)[n] = <<>>
                      \/ \E i \in Writers(n) : Kept(q)[n] = <<q[i]>>
           Bad == {n \in 0..Len(q) : ~ Good(n)}
<1>1. \A i, j \in 1..Len(q) :
        q[i].owner = "Writer" /\ q[j].owner = "Writer" => i = j
  BY DEF QueueHas
<1>2. Bad = {}
  <2> SUFFICES ASSUME Bad # {} PROVE FALSE
    OBVIOUS
  <2>1. PICK m \in Bad : \A k \in Bad : m <= k
    <3>1. Bad \subseteq Nat
      OBVIOUS
    <3> HIDE DEF Bad
    <3> QED
      BY <3>1, LowestExists
  <2>2. m \in 0..Len(q) /\ ~ Good(m)
    OBVIOUS
  <2> HIDE DEF Good
  <2>3. m # 0
    <3>1. Kept(q)[0] = <<>>
      BY KeptUnfolds
    <3>2. Good(0)
      BY <3>1 DEF Good
    <3> QED
      BY <2>2, <3>2
  <2>4. m - 1 \in 0..Len(q) /\ m \in 1..Len(q) /\ Good(m - 1)
    BY <2>1, <2>2, <2>3
  <2>5. Kept(q)[m] = IF q[m].owner = "Writer"
                     THEN Append(Kept(q)[m - 1], q[m]) ELSE Kept(q)[m - 1]
    BY <2>2, <2>3, KeptUnfolds
  <2>6. CASE q[m].owner = "Writer"
    <3>1. Writers(m - 1) = {}
      BY <1>1, <2>4, <2>6
    <3>2. Kept(q)[m - 1] = <<>>
      BY <2>4, <3>1 DEF Good
    <3>3. Kept(q)[m] = <<q[m]>>
      BY <2>5, <2>6, <3>2
    <3>4. m \in Writers(m)
      BY <2>4, <2>6
    <3> QED
      BY <2>2, <3>3, <3>4 DEF Good
  <2>7. CASE q[m].owner # "Writer"
    <3>1. Writers(m) = Writers(m - 1)
      BY <2>4, <2>7
    <3>2. Kept(q)[m] = Kept(q)[m - 1]
      BY <2>5, <2>7
    <3> HIDE DEF Writers
    <3> QED
      BY <2>2, <2>4, <3>1, <3>2 DEF Good
  <2> QED
    BY <2>6, <2>7
<1>3. Good(Len(q))
  <2> HIDE DEF Good
  <2> QED
    BY <1>2
<1> DEFINE K == Kept(q)[Len(q)]
<1> HIDE DEF K
<1>4. CASE Writers(Len(q)) = {} /\ K = <<>>
  <2>1. b = None
    BY <1>4 DEF QueueHas
  <2> QED
    BY <1>4, <2>1 DEF QueueHas, K
<1>5. CASE \E i \in Writers(Len(q)) : K = <<q[i]>>
  <2>1. PICK i \in 1..Len(q) : q[i].owner = "Writer" /\ K = <<q[i]>>
    BY <1>5
  <2>2. b # None /\ q[i].block = b
    BY <2>1 DEF QueueHas
  <2>3. /\ K \in Seq(Req) /\ 1 \in 1..Len(K)
        /\ \A j \in 1..Len(K) : j = 1 /\ K[j] = q[i]
    BY <2>1
  <2>4. QueueHas(K, "Writer", b)
    BY <2>1, <2>2, <2>3 DEF QueueHas
  <2>5. QueueHas(K, "Host", None)
    BY <2>1, <2>3 DEF QueueHas
  <2> QED
    BY <2>3, <2>4, <2>5 DEF K
<1> QED
  BY <1>3, <1>4, <1>5 DEF K

-----------------------------------------------------------------------------
(* The reader's operations, each from what it owed before to what it owes    *)
(* after.                                                                    *)

Nothing == [o \in Owner |-> None]

LEMMA ReaderFields ==
  ASSUME NEW r \in Reader
  PROVE  /\ r.queue \in Seq(Req)
         /\ r.latched # None => /\ r.latched \in Latch /\ r.latched.req \in Req
                                /\ r.latched.outcome \in Outcome
         /\ r.decoding # None => r.decoding \in Req
         /\ r.ready # None => /\ r.ready.block \in Block
                              /\ r.ready.owner \in Owner
         /\ r.failed \in [Owner -> MaybeBlock]
         /\ r.streams \in Bytes \cup {None} /\ r.frame \in Bytes \cup {None}
         /\ r.data \in Bytes \cup {None}
  BY DEF Reader, Latch, Ready, MaybeBlock

LEMMA FailKeeps ==
  ASSUME NEW r, NEW bs \in [Owner -> MaybeBlock], Sound(r, bs), NEW req \in Req,
         bs[req.owner] = None
  PROVE  /\ Sound(Fail(r, req), [bs EXCEPT ![req.owner] = req.block])
         /\ Fail(r, req).latched = r.latched
<1> DEFINE cs == [bs EXCEPT ![req.owner] = req.block]
<1>1. /\ r \in Reader /\ req.owner \in Owner /\ req.block \in Block
      /\ req.block # None /\ req # None
  BY ReqFields DEF Sound
<1>2. PICK p \in Places : HeldAt(r, req.owner, None, p)
  BY <1>1 DEF Sound, Owes
<1>3. r.decoding # req /\ r.failed[req.owner] = None
  BY <1>1, <1>2 DEF HeldAt, Slots, Slot, DecodingFor
<1>4. CASE MayRetry(req.tries + 1) /\ HasRoom(r)
  <2> DEFINE x == [req EXCEPT !.tries = @ + 1]
             s == [r EXCEPT !.queue = <<x>> \o @]
  <2>1. Fail(r, req) = s
    BY <1>3, <1>4 DEF Fail
  <2>2. x \in Req /\ x.owner = req.owner /\ x.block = req.block
    BY <1>4, ReadPipelineAssumption DEF Req, MayRetry
  <2> HIDE DEF x
  <2>3. r.queue \in Seq(Req)
    BY <1>1, ReaderFields
  <2>4. /\ s \in Reader /\ s.queue = <<x>> \o r.queue
        /\ s.latched = r.latched /\ s.decoding = r.decoding
        /\ s.ready = r.ready /\ s.failed = r.failed /\ s.streams = r.streams
        /\ s.frame = r.frame /\ s.data = r.data
    <3>1. QueueHas(r.queue, req.owner, None)
      BY <1>2 DEF HeldAt
    <3>2. <<x>> \o r.queue \in Seq(Req)
      BY <1>1, <2>2, <2>3, <3>1, PushedHas DEF MaybeBlock
    <3> QED
      BY <1>1, <3>2 DEF Reader
  <2> HIDE DEF s
  <2>5. Captures(s)
    BY <2>4 DEF Sound, Captures
  <2>6. ASSUME NEW o \in Owner PROVE Owes(s, o, cs[o])
    <3>1. CASE o = req.owner
      <4>1. QueueHas(s.queue, o, req.block)
        BY <1>1, <1>2, <2>2, <2>3, <2>4, <3>1, PushedHas DEF HeldAt, MaybeBlock
      <4>2. HeldAt(s, o, req.block, "queue")
        BY <1>2, <2>4, <3>1, <4>1
           DEF HeldAt, Slots, Slot, LatchedFor, DecodingFor, ReadyFor
      <4> QED
        BY <1>1, <3>1, <4>2 DEF Owes, Slots, Places
    <3>2. CASE o # req.owner
      <4>1. PICK w \in Places : HeldAt(r, o, bs[o], w)
        BY DEF Sound, Owes
      <4>2. ASSUME NEW b \in MaybeBlock, QueueHas(r.queue, o, b)
            PROVE  QueueHas(s.queue, o, b)
        BY <2>2, <2>3, <2>4, <3>2, <4>2, PushedHas
      <4>3. HeldAt(s, o, bs[o], w)
        BY <2>4, <4>1, <4>2 DEF HeldAt, Slots, Slot, LatchedFor, DecodingFor, ReadyFor, MaybeBlock
      <4> QED
        BY <3>2, <4>3 DEF Owes
    <3> QED
      BY <3>1, <3>2
  <2> QED
    BY <2>1, <2>4, <2>5, <2>6 DEF Sound
<1>5. CASE ~ (MayRetry(req.tries + 1) /\ HasRoom(r))
  <2> DEFINE s == [r EXCEPT !.failed = [@ EXCEPT ![req.owner] = req.block]]
  <2>1. Fail(r, req) = s
    BY <1>3, <1>5 DEF Fail, Report
  <2>2. /\ s \in Reader /\ s.queue = r.queue
        /\ s.latched = r.latched /\ s.decoding = r.decoding
        /\ s.ready = r.ready /\ s.streams = r.streams
        /\ s.frame = r.frame /\ s.data = r.data
        /\ s.failed = [r.failed EXCEPT ![req.owner] = req.block]
        /\ r.failed \in [Owner -> MaybeBlock]
    BY <1>1, ReaderFields DEF Reader, MaybeBlock
  <2> HIDE DEF s
  <2>3. Captures(s)
    BY <2>2 DEF Sound, Captures
  <2>4. ASSUME NEW o \in Owner PROVE Owes(s, o, cs[o])
    <3>1. CASE o = req.owner
      <4>1. HeldAt(s, o, req.block, "failed")
        BY <1>2, <2>2, <3>1 DEF HeldAt, Slots, Slot, LatchedFor, DecodingFor, ReadyFor
      <4> QED
        BY <1>1, <3>1, <4>1 DEF Owes, Slots, Places
    <3>2. CASE o # req.owner
      <4>1. PICK w \in Places : HeldAt(r, o, bs[o], w)
        BY DEF Sound, Owes
      <4>2. HeldAt(s, o, bs[o], w)
        BY <2>2, <3>2, <4>1 DEF HeldAt, Slots, Slot, LatchedFor, DecodingFor, ReadyFor
      <4> QED
        BY <3>2, <4>2 DEF Owes
    <3> QED
      BY <3>1, <3>2
  <2> QED
    BY <2>1, <2>2, <2>3, <2>4 DEF Sound
<1> QED
  BY <1>4, <1>5

(* A slot that is emptied is owed no longer. *)
LEMMA TakenOut ==
  ASSUME NEW r, NEW bs \in [Owner -> MaybeBlock], Sound(r, bs), NEW s \in Reader,
         Captures(s), s.queue = r.queue, NEW a \in Owner, NEW p \in Slots,
         Slot(r, a, p) # None, Moved(r, s, a, p, None)
  PROVE  Sound(s, [bs EXCEPT ![a] = None])
<1>1. ASSUME NEW o \in Owner PROVE Owes(s, o, [bs EXCEPT ![a] = None][o])
  <2>1. PICK w \in Places : HeldAt(r, o, bs[o], w)
    BY DEF Sound, Owes
  <2>2. CASE o = a
    <3>1. w = p
      BY <2>1, <2>2 DEF HeldAt
    <3>2. HeldAt(s, o, None, p)
      BY <2>1, <2>2, <3>1 DEF HeldAt, Slots, Moved
    <3> QED
      BY <2>2, <3>2 DEF Owes, Places
  <2>3. CASE o # a
    <3>1. HeldAt(s, o, bs[o], w)
      BY <2>1, <2>3 DEF HeldAt, Moved
    <3> QED
      BY <2>3, <3>1 DEF Owes
  <2> QED
    BY <2>2, <2>3
<1> QED
  BY <1>1 DEF Sound

(* The block in an owner's slot is the one he is owed. *)
LEMMA HeldIsOwed ==
  ASSUME NEW r, NEW bs \in [Owner -> MaybeBlock], Sound(r, bs),
         NEW o \in Owner, NEW w \in Slots, Slot(r, o, w) # None
  PROVE  bs[o] = Slot(r, o, w)
  BY DEF Sound, Owes, HeldAt

(* A slot that is filled is owed from then on. *)
LEMMA PutIn ==
  ASSUME NEW r, NEW bs \in [Owner -> MaybeBlock], Sound(r, bs), NEW s \in Reader,
         Captures(s), s.queue = r.queue, NEW a \in Owner, NEW p \in Slots,
         bs[a] = None, NEW b \in Block, Moved(r, s, a, p, b)
  PROVE  Sound(s, [bs EXCEPT ![a] = b])
<1>1. ASSUME NEW o \in Owner PROVE Owes(s, o, [bs EXCEPT ![a] = b][o])
  <2>1. PICK w \in Places : HeldAt(r, o, bs[o], w)
    BY DEF Sound, Owes
  <2>2. CASE o = a
    <3>1. HeldAt(s, o, b, p)
      BY <2>1, <2>2 DEF HeldAt, Slots, Moved
    <3> QED
      BY <2>2, <3>1 DEF Owes, Places
  <2>3. CASE o # a
    <3>1. HeldAt(s, o, bs[o], w)
      BY <2>1, <2>3 DEF HeldAt, Moved
    <3> QED
      BY <2>3, <3>1 DEF Owes
  <2> QED
    BY <2>2, <2>3
<1> QED
  BY <1>1 DEF Sound

LEMMA ServiceKeeps ==
  ASSUME NEW r, NEW bs \in [Owner -> MaybeBlock], Sound(r, bs), NEW s \in Service(r)
  PROVE  Sound(s, bs) /\ (r.latched = None => s = r)
<1>1. CASE ~ MayApply(r)
  BY <1>1 DEF Service
<1>2. CASE MayApply(r)
  <2> DEFINE req == r.latched.req
             bare == [r EXCEPT !.latched = None, !.streams = None]
             framed == [bare EXCEPT !.frame = r.streams]
             begun == [bare EXCEPT !.frame = r.streams, !.decoding = req]
             owed == [bs EXCEPT ![req.owner] = None]
             back == [owed EXCEPT ![req.owner] = req.block]
  <2>1. /\ r \in Reader /\ r.latched # None /\ r.decoding = None
        /\ r.ready = None /\ req \in Req /\ req.owner \in Owner
        /\ req.block \in Block /\ req.block # None /\ req # None
    BY <1>2, ReaderFields, ReqFields DEF MayApply, Sound
  <2>2. Slot(r, req.owner, "latched") = req.block
    BY <2>1 DEF Slot, LatchedFor
  <2>3. bs[req.owner] = req.block
    BY <2>1, <2>2, HeldIsOwed DEF Slots
  <2>4. /\ owed \in [Owner -> MaybeBlock] /\ owed[req.owner] = None /\ back = bs
    BY <2>1, <2>3 DEF MaybeBlock
  <2>5. /\ r.streams \in Bytes \cup {None}
        /\ bare \in Reader /\ framed \in Reader /\ begun \in Reader
    BY <2>1 DEF Reader
  <2>6. \A x \in {bare, framed} :
          /\ x.queue = r.queue /\ x.failed = r.failed /\ x.latched = None
          /\ x.decoding = None /\ x.ready = None
    BY <2>1 DEF Reader
  <2>7. /\ begun.queue = r.queue /\ begun.failed = r.failed
        /\ begun.latched = None /\ begun.decoding = req /\ begun.ready = None
        /\ begun.frame = r.streams
    BY <2>1 DEF Reader
  <2> HIDE DEF bare, framed, begun, owed, back
  <2>8. Sound(bare, owed) /\ Sound(framed, owed)
    <3> SUFFICES ASSUME NEW x \in {bare, framed} PROVE Sound(x, owed)
      OBVIOUS
    <3>1. Captures(x)
      BY <2>6 DEF Captures
    <3>2. Moved(r, x, req.owner, "latched", None)
      BY <2>1, <2>6 DEF Moved, Slots, Slot, LatchedFor, DecodingFor, ReadyFor
    <3>3. Sound(x, [bs EXCEPT ![req.owner] = None])
      <4> HIDE DEF req
      <4>1. "latched" \in Slots
        BY DEF Slots
      <4>2. x.queue = r.queue /\ x \in Reader
        BY <2>5, <2>6
      <4> QED
        BY <2>1, <2>2, <2>3, <3>1, <3>2, <4>1, <4>2, TakenOut
    <3> QED
      BY <3>3 DEF owed
  <2>9. Sound(Fail(bare, req), bs) /\ Sound(Fail(framed, req), bs)
    <3> HIDE DEF req
    <3>1. Sound(Fail(bare, req), back) /\ Sound(Fail(framed, req), back)
      BY <2>1, <2>4, <2>8, FailKeeps DEF back
    <3> QED
      BY <2>4, <3>1
  <2>10. ASSUME r.latched.outcome = "Streams" PROVE Sound(begun, bs)
    <3>1. Captures(begun)
      BY <2>1, <2>7, <2>10 DEF Captures, Sound
    <3>2. Moved(bare, begun, req.owner, "decoding", req.block)
      BY <2>1, <2>6, <2>7
         DEF Moved, Slots, Slot, LatchedFor, DecodingFor, ReadyFor
    <3>3. Sound(begun, back)
      <4> HIDE DEF req
      <4>1. "decoding" \in Slots
        BY DEF Slots
      <4>2. begun.queue = bare.queue
        BY <2>6, <2>7
      <4> QED
        BY <2>1, <2>4, <2>5, <2>8, <3>1, <3>2, <4>1, <4>2, PutIn DEF back
    <3> QED
      BY <2>4, <3>3
  <2>11. \/ s = begun /\ r.latched.outcome = "Streams"
         \/ s = Fail(bare, req) \/ s = Fail(framed, req)
    BY <1>2 DEF Service, begun, framed, bare
  <2> QED
    BY <2>1, <2>9, <2>10, <2>11
<1> QED
  BY <1>1, <1>2 DEF MayApply, Service

LEMMA FinishedKeeps ==
  ASSUME NEW r, NEW bs \in [Owner -> MaybeBlock], Sound(r, bs), r.decoding # None,
         NEW s \in Finished(r)
  PROVE  Sound(s, bs) /\ (r.latched = None => s.latched = None)
<1> DEFINE req == r.decoding
           bare == [r EXCEPT !.decoding = None]
           good == [r EXCEPT !.decoding = None, !.data = r.frame,
                             !.ready = [block |-> req.block,
                                        owner |-> req.owner]]
           owed == [bs EXCEPT ![req.owner] = None]
           back == [owed EXCEPT ![req.owner] = req.block]
<1>1. /\ r \in Reader /\ r.ready = None /\ req \in Req /\ req.owner \in Owner
      /\ req.block \in Block /\ req.block # None /\ req # None
      /\ r.frame = Fresh(req.block)
  BY ReaderFields, ReqFields DEF Sound, Captures
<1>2. Slot(r, req.owner, "decoding") = req.block
  BY <1>1 DEF Slot, DecodingFor
<1>3. bs[req.owner] = req.block
  BY <1>1, <1>2, HeldIsOwed DEF Slots
<1>4. owed \in [Owner -> MaybeBlock] /\ owed[req.owner] = None /\ back = bs
  BY <1>1, <1>3 DEF MaybeBlock
<1>5. [block |-> req.block, owner |-> req.owner] \in Ready
  BY <1>1 DEF Ready
<1>6. bare \in Reader /\ good \in Reader
  BY <1>1, <1>5 DEF Reader
<1>7. /\ bare.queue = r.queue /\ bare.failed = r.failed
      /\ bare.latched = r.latched /\ bare.decoding = None /\ bare.ready = None
      /\ bare.streams = r.streams
      /\ good.queue = r.queue /\ good.failed = r.failed
      /\ good.latched = r.latched /\ good.decoding = None
      /\ good.ready = [block |-> req.block, owner |-> req.owner]
      /\ good.data = r.frame /\ good.streams = r.streams
  BY <1>1 DEF Reader
<1>8. Fail(r, req) = Fail(bare, req)
  BY <1>1 DEF Fail, HasRoom
<1> HIDE DEF bare, good, owed, back
<1>9. Sound(bare, owed)
  <2>1. Captures(bare)
    BY <1>7 DEF Captures, Sound
  <2>2. Moved(r, bare, req.owner, "decoding", None)
    BY <1>1, <1>7 DEF Moved, Slots, Slot, LatchedFor, DecodingFor, ReadyFor
  <2> HIDE DEF req
  <2>3. "decoding" \in Slots
    BY DEF Slots
  <2> QED
    BY <1>1, <1>2, <1>3, <1>6, <1>7, <2>1, <2>2, <2>3, TakenOut DEF owed
<1>10. Sound(Fail(r, req), bs) /\ Fail(r, req).latched = r.latched
  <2> HIDE DEF req
  <2>1. Sound(Fail(bare, req), back) /\ Fail(bare, req).latched = bare.latched
    BY <1>1, <1>4, <1>9, FailKeeps DEF back
  <2> QED
    BY <1>4, <1>7, <1>8, <2>1
<1>11. Sound(good, bs)
  <2>1. Captures(good)
    BY <1>1, <1>7 DEF Captures, Sound
  <2>2. Moved(bare, good, req.owner, "ready", req.block)
    <3>1. good.ready # None
      BY <1>5, <1>7, NoneAssumption
    <3> QED
      BY <1>7, <3>1 DEF Moved, Slots, Slot, LatchedFor, DecodingFor, ReadyFor
  <2>3. "ready" \in Slots
    BY DEF Slots
  <2> HIDE DEF req
  <2>4. Sound(good, back)
    BY <1>1, <1>4, <1>6, <1>7, <1>9, <2>1, <2>2, <2>3, PutIn DEF back
  <2> QED
    BY <1>4, <2>4
<1>12. \E t \in {Fail(r, req), good} : s \in Service(t)
  BY DEF Finished, good
<1> QED
  <2>1. PICK t \in {Fail(r, req), good} : s \in Service(t)
    BY <1>12
  <2>2. Sound(t, bs) /\ t.latched = r.latched
    BY <1>7, <1>10, <1>11
  <2> QED
    BY <2>1, <2>2, ServiceKeeps

LEMMA CapturedKeeps ==
  ASSUME NEW r, NEW bs \in [Owner -> MaybeBlock], Sound(r, bs), r.latched = None,
         r.queue # <<>>, NEW s \in Captured(r)
  PROVE  Sound(s, bs)
<1> DEFINE req == Head(r.queue)
           on == [r EXCEPT !.queue = Tail(@)]
           bytes(outcome) == IF outcome = "Streams" THEN Fresh(req.block)
                             ELSE None
           owed == [bs EXCEPT ![req.owner] = None]
           back == [owed EXCEPT ![req.owner] = req.block]
<1>1. r \in Reader /\ r.queue \in Seq(Req)
  BY ReaderFields DEF Sound
<1>2. /\ req \in Req /\ req.owner \in Owner /\ req.block \in Block
      /\ req.block # None /\ Tail(r.queue) \in Seq(Req)
  BY <1>1, ReqFields
<1>3. ASSUME NEW o \in Owner
      PROVE  /\ o = req.owner => bs[o] = req.block
             /\ Owes(on, o, owed[o])
  <2>1. PICK w \in Places : HeldAt(r, o, bs[o], w)
    BY DEF Sound, Owes
  <2>2. /\ on.queue = Tail(r.queue) /\ on.failed = r.failed
        /\ on.latched = r.latched /\ on.decoding = r.decoding
        /\ on.ready = r.ready
    BY <1>1 DEF Reader
  <2> HIDE DEF on
  <2>3. \A v \in Slots : Slot(on, o, v) = Slot(r, o, v)
    BY <2>2 DEF Slots, Slot, LatchedFor, DecodingFor, ReadyFor
  <2>4. CASE o = req.owner
    <3>1. w = "queue" /\ bs[o] = req.block /\ QueueHas(Tail(r.queue), o, None)
      <4> DEFINE b == IF w = "queue" THEN bs[o] ELSE None
      <4>1. b \in MaybeBlock /\ QueueHas(r.queue, o, b)
        BY <2>1 DEF HeldAt, MaybeBlock
      <4> HIDE DEF b
      <4>2. b = req.block /\ QueueHas(Tail(r.queue), o, None)
        BY <1>1, <2>4, <4>1, PoppedHas
      <4> QED
        BY <1>2, <4>2 DEF b
    <3>2. HeldAt(on, o, None, w)
      BY <2>1, <2>2, <2>3, <3>1 DEF HeldAt, Slots
    <3> QED
      BY <2>4, <3>1, <3>2 DEF Owes
  <2>5. CASE o # req.owner
    <3>1. ASSUME NEW b \in MaybeBlock, QueueHas(r.queue, o, b)
          PROVE  QueueHas(Tail(r.queue), o, b)
      BY <1>1, <2>5, <3>1, PoppedHas
    <3>2. HeldAt(on, o, bs[o], w)
      BY <2>1, <2>2, <2>3, <3>1 DEF HeldAt, MaybeBlock
    <3> QED
      BY <2>5, <3>2 DEF Owes
  <2> QED
    BY <2>4, <2>5
<1>4. /\ owed \in [Owner -> MaybeBlock] /\ owed[req.owner] = None /\ back = bs
  <2>1. bs[req.owner] = req.block
    BY <1>2, <1>3
  <2> HIDE DEF req
  <2> QED
    BY <1>2, <2>1 DEF MaybeBlock
<1>5. Sound(on, owed) /\ on.latched = None
  <2>1. /\ on \in Reader /\ on.latched = None /\ on.decoding = r.decoding
        /\ on.ready = r.ready /\ on.frame = r.frame /\ on.data = r.data
    BY <1>1, <1>2 DEF Reader
  <2>2. Captures(on)
    BY <2>1 DEF Captures, Sound
  <2> HIDE DEF on, owed
  <2> QED
    BY <1>3, <2>1, <2>2 DEF Sound
<1> HIDE DEF on, owed, back
<1>6. ASSUME NEW t, Sound(t, owed), t.latched = None, NEW outcome \in Outcome
      PROVE  Sound(Latched(t, req, outcome), bs)
  <2> DEFINE u == Latched(t, req, outcome)
  <2>1. t \in Reader /\ bytes(outcome) \in Bytes \cup {None}
    BY <1>2, <1>6 DEF Sound, Bytes, Fresh
  <2>2. /\ [req |-> req, outcome |-> outcome] \in Latch
        /\ [req |-> req, outcome |-> outcome] # None
    BY <1>2, NoneAssumption DEF Latch
  <2>3. /\ u \in Reader /\ u.queue = t.queue /\ u.failed = t.failed
        /\ u.latched = [req |-> req, outcome |-> outcome]
        /\ u.decoding = t.decoding /\ u.ready = t.ready
        /\ u.frame = t.frame /\ u.data = t.data
        /\ u.streams = bytes(outcome)
    <3>1. u = [t EXCEPT !.latched = [req |-> req, outcome |-> outcome],
                        !.streams = bytes(outcome)]
      BY DEF Latched, Fresh
    <3> HIDE DEF req, bytes, u
    <3> QED
      BY <2>1, <2>2, <3>1 DEF Reader
  <2> HIDE DEF u
  <2>4. Captures(u)
    BY <1>6, <2>3 DEF Captures, Sound
  <2>5. Moved(t, u, req.owner, "latched", req.block)
    BY <1>6, <2>2, <2>3
       DEF Moved, Slots, Slot, LatchedFor, DecodingFor, ReadyFor
  <2>6. Sound(u, back)
    <3> HIDE DEF req
    <3>1. "latched" \in Slots
      BY DEF Slots
    <3> QED
      BY <1>2, <1>4, <1>6, <2>3, <2>4, <2>5, <3>1, PutIn DEF back
  <2> QED
    BY <1>4, <2>6 DEF u
<1>7. ASSUME NEW t \in Sliced(on) PROVE Sound(t, owed) /\ t.latched = None
  BY <1>4, <1>5, <1>7, FinishedKeeps DEF Sliced
<1>8. \E t \in Sliced(on), outcome \in Outcome :
        s \in Service(Latched(t, req, outcome))
  <2> DEFINE ended == {Latched(on, req, "NoReply")}
                      \cup {Latched(t, req, outcome) :
                              t \in Sliced(on),
                              outcome \in {"Incomplete", "Streams"}}
  <2>1. Captured(r) = UNION {Service(u) : u \in ended}
    BY DEF Captured, on
  <2>2. \A u \in ended : \E t \in Sliced(on), outcome \in Outcome :
                         u = Latched(t, req, outcome)
    <3>1. on \in Sliced(on)
      BY DEF Sliced
    <3> QED
      BY <3>1 DEF Outcome
  <2> HIDE DEF ended
  <2> QED
    BY <2>1, <2>2
<1> QED
  <2>1. PICK t \in Sliced(on), outcome \in Outcome :
               s \in Service(Latched(t, req, outcome))
    BY <1>8
  <2>2. Sound(Latched(t, req, outcome), bs)
    BY <1>6, <1>7
  <2> QED
    BY <2>1, <2>2, ServiceKeeps

LEMMA TakeReadyKeeps ==
  ASSUME NEW r, NEW bs \in [Owner -> MaybeBlock], Sound(r, bs), r.ready # None,
         NEW s \in TakeReady(r)
  PROVE  /\ r.ready.owner \in Owner /\ bs[r.ready.owner] = r.ready.block
         /\ r.ready.block # None
         /\ Sound(s, [bs EXCEPT ![r.ready.owner] = None])
<1> DEFINE t == [r EXCEPT !.ready = None]
           a == r.ready.owner
           owed == [bs EXCEPT ![a] = None]
<1>1. /\ r \in Reader /\ a \in Owner /\ r.ready.block # None
      /\ owed \in [Owner -> MaybeBlock]
  BY ReaderFields, ReadPipelineAssumption DEF Sound, MaybeBlock
<1>2. Slot(r, a, "ready") = r.ready.block /\ "ready" \in Slots
  BY <1>1 DEF Slots, Slot, ReadyFor
<1>3. bs[a] = r.ready.block
  BY <1>1, <1>2, HeldIsOwed
<1>4. /\ t \in Reader /\ t.queue = r.queue /\ t.failed = r.failed
      /\ t.latched = r.latched /\ t.decoding = r.decoding /\ t.ready = None
      /\ t.frame = r.frame /\ t.streams = r.streams
  BY <1>1 DEF Reader
<1> HIDE DEF t
<1>5. Captures(t)
  BY <1>4 DEF Captures, Sound
<1>6. Moved(r, t, a, "ready", None)
  BY <1>4 DEF Moved, Slots, Slot, LatchedFor, DecodingFor, ReadyFor
<1>7. Sound(t, owed)
  <2> HIDE DEF a
  <2> QED
    BY <1>1, <1>2, <1>4, <1>5, <1>6, TakenOut
<1>8. s \in Service(t)
  BY DEF TakeReady, t
<1> HIDE DEF owed
<1> QED
  BY <1>1, <1>3, <1>7, <1>8, ServiceKeeps DEF owed

LEMMA FailedKeeps ==
  ASSUME NEW r, NEW bs \in [Owner -> MaybeBlock], Sound(r, bs), NEW a \in Owner,
         r.failed[a] # None
  PROVE  /\ bs[a] = r.failed[a]
         /\ Sound([r EXCEPT !.failed[a] = None], [bs EXCEPT ![a] = None])
<1> DEFINE t == [r EXCEPT !.failed[a] = None]
<1>1. r \in Reader /\ r.failed \in [Owner -> MaybeBlock]
  BY ReaderFields DEF Sound
<1>2. Slot(r, a, "failed") = r.failed[a] /\ "failed" \in Slots
  BY DEF Slots, Slot
<1>3. /\ t \in Reader /\ t.queue = r.queue /\ t.latched = r.latched
      /\ t.decoding = r.decoding /\ t.ready = r.ready
      /\ t.failed = [r.failed EXCEPT ![a] = None]
      /\ t.streams = r.streams /\ t.frame = r.frame /\ t.data = r.data
  BY <1>1 DEF Reader, MaybeBlock
<1> HIDE DEF t
<1>4. Captures(t)
  BY <1>3 DEF Captures, Sound
<1>5. Moved(r, t, a, "failed", None)
  BY <1>1, <1>3 DEF Moved, Slots, Slot, LatchedFor, DecodingFor, ReadyFor
<1>6. Sound(t, [bs EXCEPT ![a] = None])
  BY <1>2, <1>3, <1>4, <1>5, TakenOut
<1> QED
  BY <1>2, <1>6, HeldIsOwed DEF t

LEMMA ClearHostKeeps ==
  ASSUME NEW r, NEW bs \in [Owner -> MaybeBlock], Sound(r, bs)
  PROVE  Sound(ClearHost(r), [bs EXCEPT !["Host"] = None])
<1> DEFINE latched == IF r.latched # None /\ r.latched.req.owner = "Host"
                      THEN None ELSE r.latched
           decoding == IF r.decoding # None /\ r.decoding.owner = "Host"
                       THEN None ELSE r.decoding
           ready == IF r.ready # None /\ r.ready.owner = "Host"
                    THEN None ELSE r.ready
           queue == Kept(r.queue)[Len(r.queue)]
           t == [r EXCEPT !.queue = queue, !.latched = latched,
                          !.decoding = decoding, !.ready = ready,
                          !.failed["Host"] = None]
           s == StreamsKept(t)
           cs == [bs EXCEPT !["Host"] = None]
<1>1. /\ r \in Reader /\ r.queue \in Seq(Req)
      /\ r.failed \in [Owner -> MaybeBlock]
  BY ReaderFields DEF Sound
<1>2. PICK p \in Places : HeldAt(r, "Writer", bs["Writer"], p)
  BY Owners DEF Sound, Owes
<1>3. /\ queue \in Seq(Req) /\ QueueHas(queue, "Host", None)
      /\ QueueHas(queue, "Writer", IF p = "queue" THEN bs["Writer"] ELSE None)
  <2> DEFINE b == IF p = "queue" THEN bs["Writer"] ELSE None
  <2>1. b \in MaybeBlock /\ QueueHas(r.queue, "Writer", b)
    BY <1>2, Owners DEF HeldAt, MaybeBlock
  <2> HIDE DEF b
  <2>2. QueueHas(queue, "Writer", b)
    BY <1>1, <2>1, KeptIsWriters
  <2> QED
    BY <1>1, <2>1, <2>2, KeptIsWriters DEF b
<1>4. /\ latched \in Latch \cup {None} /\ decoding \in Req \cup {None}
      /\ ready \in Ready \cup {None}
  BY <1>1 DEF Reader
<1>5. ClearHost(r) = s
  BY DEF ClearHost
<1> HIDE DEF queue
<1>6. /\ t \in Reader /\ t.queue = queue /\ t.latched = latched
      /\ t.decoding = decoding /\ t.ready = ready
      /\ t.failed = [r.failed EXCEPT !["Host"] = None]
      /\ t.streams = r.streams /\ t.frame = r.frame /\ t.data = r.data
  <2> HIDE DEF latched, decoding, ready
  <2>1. [r.failed EXCEPT !["Host"] = None] \in [Owner -> Block \cup {None}]
    BY <1>1 DEF MaybeBlock
  <2> QED
    BY <1>1, <1>3, <1>4, <2>1 DEF Reader
<1> HIDE DEF t
<1>7. /\ s \in Reader /\ s.queue = queue /\ s.latched = latched
      /\ s.decoding = decoding /\ s.ready = ready /\ s.failed = t.failed
      /\ latched # None => s.streams = r.streams
      /\ s.frame = r.frame /\ s.data = r.data
  <2> HIDE DEF latched, decoding, ready
  <2> QED
    BY <1>6 DEF StreamsKept, PipelineBusy, Reader
<1> HIDE DEF s
<1>8. Captures(s)
  BY <1>7 DEF Captures, Sound
<1>9. Owes(s, "Host", None)
  <2>1. \A w \in Slots : Slot(s, "Host", w) = None
    BY <1>1, <1>6, <1>7, Owners
       DEF Slots, Slot, LatchedFor, DecodingFor, ReadyFor
  <2>2. HeldAt(s, "Host", None, "queue")
    BY <1>3, <1>7, <2>1 DEF HeldAt
  <2> QED
    BY <2>2 DEF Owes, Places
<1>10. Owes(s, "Writer", bs["Writer"])
  <2>1. \A w \in Slots : Slot(s, "Writer", w) = Slot(r, "Writer", w)
    BY <1>1, <1>6, <1>7, Owners
       DEF Slots, Slot, LatchedFor, DecodingFor, ReadyFor
  <2>2. HeldAt(s, "Writer", bs["Writer"], p)
    BY <1>2, <1>3, <1>7, <2>1 DEF HeldAt
  <2> QED
    BY <2>2 DEF Owes
<1>11. ASSUME NEW o \in Owner PROVE Owes(s, o, cs[o])
  BY <1>9, <1>10, Owners
<1> HIDE DEF cs
<1> QED
  BY <1>5, <1>7, <1>8, <1>11 DEF Sound, cs

(* A reader with nothing in it owes nothing. *)
LEMMA EmptyOwesNothing ==
  ASSUME NEW r \in Reader, r.queue = <<>>, r.latched = None,
         r.decoding = None, r.ready = None,
         \A o \in Owner : r.failed[o] = None
  PROVE  Sound(r, Nothing)
<1>1. ASSUME NEW o \in Owner PROVE HeldAt(r, o, None, "queue")
  BY DEF HeldAt, QueueHas, Slots, Slot, LatchedFor, DecodingFor, ReadyFor
<1> QED
  BY <1>1 DEF Sound, Owes, Captures, Nothing, Places

LEMMA NewKeeps ==
  /\ Sound(NewReader, Nothing)
  /\ \A r \in Reader : Sound(Cleared(r), Nothing)
<1>1. NewReader \in Reader
  BY DEF NewReader, Reader
<1>2. ASSUME NEW r \in Reader PROVE Cleared(r) \in Reader
  <2>1. r.frame \in Bytes \cup {None} /\ r.data \in Bytes \cup {None}
    BY DEF Reader
  <2>2. Cleared(r) = [NewReader EXCEPT !.frame = r.frame, !.data = r.data]
    BY DEF Cleared
  <2> QED
    BY <1>1, <2>1, <2>2 DEF Reader
<1>3. Sound(NewReader, Nothing)
  BY <1>1, EmptyOwesNothing DEF NewReader
<1>4. ASSUME NEW r \in Reader PROVE Sound(Cleared(r), Nothing)
  <2> DEFINE s == Cleared(r)
  <2>1. /\ s \in Reader /\ s.queue = <<>> /\ s.latched = None
        /\ s.decoding = None /\ s.ready = None
        /\ \A o \in Owner : s.failed[o] = None
    BY <1>2 DEF Cleared, NewReader
  <2> HIDE DEF s
  <2>2. Sound(s, Nothing)
    BY <2>1, EmptyOwesNothing
  <2> QED
    BY <2>2 DEF s
<1> QED
  BY <1>3, <1>4

(* When nothing is owed, nothing is in the pipeline that could grow old. *)
LEMMA AgedKeeps ==
  ASSUME NEW r, Sound(r, Nothing)
  PROVE  Sound(Aged(r), Nothing)
<1> DEFINE old(bytes) == IF bytes = None THEN None
                         ELSE [bytes EXCEPT !.fresh = FALSE]
           s == Aged(r)
<1>1. r \in Reader
  BY DEF Sound
<1>2. \A bytes \in Bytes \cup {None} : old(bytes) \in Bytes \cup {None}
  BY DEF Bytes
<1>3. s = [r EXCEPT !.streams = old(@), !.frame = old(@), !.data = old(@)]
  BY DEF Aged
<1> HIDE DEF old, s
<1>4. /\ s \in Reader /\ s.queue = r.queue /\ s.latched = r.latched
      /\ s.decoding = r.decoding /\ s.ready = r.ready /\ s.failed = r.failed
  BY <1>1, <1>2, <1>3 DEF Reader
<1>5. ASSUME NEW o \in Owner
      PROVE  /\ \A w \in Slots : Slot(r, o, w) = None
             /\ QueueHas(r.queue, o, None)
  BY DEF Sound, Owes, HeldAt, Nothing
<1>6. /\ r.latched = None /\ r.decoding = None /\ r.ready = None
      /\ \A o \in Owner : r.failed[o] = None
  <2>1. ASSUME NEW o \in Owner
        PROVE  /\ LatchedFor(r, o) = None /\ DecodingFor(r, o) = None
               /\ ReadyFor(r, o) = None /\ r.failed[o] = None
    BY <1>5 DEF Slots, Slot
  <2>2. r.latched = None
    BY <1>1, <2>1, ReaderFields, ReqFields DEF LatchedFor
  <2>3. r.decoding = None
    BY <1>1, <2>1, ReaderFields, ReqFields DEF DecodingFor
  <2>4. r.ready = None
    BY <1>1, <2>1, ReaderFields, ReadPipelineAssumption DEF ReadyFor
  <2> QED
    BY <2>1, <2>2, <2>3, <2>4
<1>7. ASSUME NEW o \in Owner PROVE HeldAt(s, o, None, "queue")
  BY <1>4, <1>5, <1>6
     DEF HeldAt, Slots, Slot, LatchedFor, DecodingFor, ReadyFor
<1>8. Captures(s)
  BY <1>4, <1>6 DEF Captures
<1>9. Sound(s, Nothing)
  BY <1>4, <1>7, <1>8 DEF Sound, Owes, Nothing, Places
<1> QED
  BY <1>9 DEF s

(* A request that joins the queue, at either end. *)
LEMMA QueuedKeeps ==
  ASSUME NEW r, NEW bs \in [Owner -> MaybeBlock], Sound(r, bs), NEW x \in Req,
         bs[x.owner] = None, NEW q \in {<<x>> \o r.queue, Append(r.queue, x)}
  PROVE  Sound([r EXCEPT !.queue = q], [bs EXCEPT ![x.owner] = x.block])
<1> DEFINE s == [r EXCEPT !.queue = q]
           cs == [bs EXCEPT ![x.owner] = x.block]
<1>1. /\ r \in Reader /\ r.queue \in Seq(Req) /\ x.owner \in Owner
      /\ x.block \in Block /\ x.block # None
  BY ReaderFields, ReqFields DEF Sound
<1>2. ASSUME NEW o \in Owner, NEW b \in MaybeBlock, QueueHas(r.queue, o, b),
             o = x.owner => b = None
      PROVE  /\ q \in Seq(Req)
             /\ QueueHas(q, o, IF o = x.owner THEN x.block ELSE b)
  BY <1>1, <1>2, PushedHas, AppendedHas
<1>3. PICK p \in Places : HeldAt(r, x.owner, None, p)
  BY <1>1 DEF Sound, Owes
<1>4. q \in Seq(Req) /\ QueueHas(q, x.owner, x.block)
  BY <1>1, <1>2, <1>3 DEF HeldAt, MaybeBlock
<1>5. /\ s \in Reader /\ s.queue = q /\ s.latched = r.latched
      /\ s.decoding = r.decoding /\ s.ready = r.ready /\ s.failed = r.failed
      /\ s.streams = r.streams /\ s.frame = r.frame /\ s.data = r.data
  BY <1>1, <1>4 DEF Reader
<1> HIDE DEF s
<1>6. Captures(s)
  BY <1>5 DEF Captures, Sound
<1>7. \A o \in Owner, w \in Slots : Slot(s, o, w) = Slot(r, o, w)
  BY <1>5 DEF Slots, Slot, LatchedFor, DecodingFor, ReadyFor
<1>8. ASSUME NEW o \in Owner PROVE Owes(s, o, cs[o])
  <2>1. CASE o = x.owner
    <3>1. HeldAt(s, o, x.block, "queue")
      BY <1>3, <1>4, <1>5, <1>7, <2>1 DEF HeldAt, Slots
    <3> QED
      BY <1>1, <2>1, <3>1 DEF Owes, Places
  <2>2. CASE o # x.owner
    <3>1. PICK w \in Places : HeldAt(r, o, bs[o], w)
      BY DEF Sound, Owes
    <3>2. HeldAt(s, o, bs[o], w)
      BY <1>2, <1>5, <1>7, <2>2, <3>1 DEF HeldAt, MaybeBlock
    <3> QED
      BY <2>2, <3>2 DEF Owes
  <2> QED
    BY <2>1, <2>2
<1> HIDE DEF cs
<1>9. Sound(s, cs)
  BY <1>5, <1>6, <1>8 DEF Sound
<1> QED
  BY <1>9 DEF s, cs

LEMMA RequestKeeps ==
  ASSUME NEW r, NEW bs \in [Owner -> MaybeBlock], Sound(r, bs), NEW b \in Block
  PROVE  /\ bs["Host"] = None =>
              Sound(Request(r, b), [bs EXCEPT !["Host"] = b])
         /\ bs["Writer"] = None =>
              Sound(RequestVerify(r, b), [bs EXCEPT !["Writer"] = b])
<1>1. \A o \in Owner : /\ Asked(b, o) \in Req /\ Asked(b, o).owner = o
                       /\ Asked(b, o).block = b
  BY ReadPipelineAssumption DEF Asked, Req
<1>2. ASSUME bs["Host"] = None
      PROVE  Sound(Request(r, b), [bs EXCEPT !["Host"] = b])
  <2> DEFINE x == Asked(b, "Host")
  <2>1. Request(r, b) = [r EXCEPT !.queue = Append(r.queue, x)]
    BY DEF Request
  <2>2. x \in Req /\ x.owner = "Host" /\ x.block = b
    BY <1>1, Owners
  <2> HIDE DEF x
  <2>3. Sound([r EXCEPT !.queue = Append(r.queue, x)],
              [bs EXCEPT ![x.owner] = x.block])
    <3> DEFINE q == Append(r.queue, x)
    <3>1. q \in {<<x>> \o r.queue, Append(r.queue, x)} /\ bs[x.owner] = None
      BY <1>2, <2>2
    <3> HIDE DEF q
    <3>2. Sound([r EXCEPT !.queue = q], [bs EXCEPT ![x.owner] = x.block])
      BY <2>2, <3>1, QueuedKeeps
    <3> QED
      BY <3>2 DEF q
  <2> QED
    BY <2>1, <2>2, <2>3
<1>3. ASSUME bs["Writer"] = None
      PROVE  Sound(RequestVerify(r, b), [bs EXCEPT !["Writer"] = b])
  <2> DEFINE x == Asked(b, "Writer")
  <2>1. RequestVerify(r, b) = [r EXCEPT !.queue = <<x>> \o r.queue]
    BY DEF RequestVerify
  <2>2. x \in Req /\ x.owner = "Writer" /\ x.block = b
    BY <1>1, Owners
  <2> HIDE DEF x
  <2>3. Sound([r EXCEPT !.queue = <<x>> \o r.queue],
              [bs EXCEPT ![x.owner] = x.block])
    <3> DEFINE q == <<x>> \o r.queue
    <3>1. q \in {<<x>> \o r.queue, Append(r.queue, x)} /\ bs[x.owner] = None
      BY <1>3, <2>2
    <3> HIDE DEF q
    <3>2. Sound([r EXCEPT !.queue = q], [bs EXCEPT ![x.owner] = x.block])
      BY <2>2, <3>1, QueuedKeeps
    <3> QED
      BY <3>2 DEF q
  <2> QED
    BY <2>1, <2>2, <2>3
<1> QED
  BY <1>2, <1>3

(* Room is never what a request waits for. *)
LEMMA RoomForAll ==
  ASSUME NEW r, NEW bs \in [Owner -> MaybeBlock], Sound(r, bs)
  PROVE  /\ Len(r.queue) <= QueueLen
         /\ \A o \in Owner : bs[o] = None => HasRoom(r)
<1>1. r.queue \in Seq(Req)
  BY ReaderFields DEF Sound
<1>2. ASSUME NEW o \in Owner
      PROVE  \E b \in {bs[o], None} : QueueHas(r.queue, o, b)
  BY DEF Sound, Owes, HeldAt
<1> DEFINE inQueue == [o \in Owner |-> IF QueueHas(r.queue, o, None) THEN None
                                       ELSE bs[o]]
<1>3. /\ inQueue \in [Owner -> MaybeBlock]
      /\ \A o \in Owner : /\ QueueHas(r.queue, o, inQueue[o])
                          /\ bs[o] = None => inQueue[o] = None
  BY <1>2 DEF MaybeBlock
<1> HIDE DEF inQueue
<1>4. Len(r.queue) <= 2 /\ \A o \in Owner : bs[o] = None => Len(r.queue) <= 1
  BY <1>1, <1>3, QueueShort
<1> QED
  BY <1>1, <1>4, RoomAssumption, ReadPipelineAssumption DEF HasRoom

-----------------------------------------------------------------------------
(* The types of all but the reader. *)

LoopType ==
  /\ sched \in Sched
  /\ outstanding \in Pending \cup {None}
  /\ published \in BOOLEAN /\ idle \in BOOLEAN /\ writing \in BOOLEAN
  /\ writer \in Write \cup {None}
  /\ present \in BOOLEAN /\ dirty \in BOOLEAN /\ gap \in 0..GapHeads
  /\ turn \in Turn

LEMMA WriterFields ==
  ASSUME LoopType
  PROVE  /\ outstanding # None => /\ outstanding.block \in Block
                                  /\ outstanding.block # None
                                  /\ outstanding.issued \in BOOLEAN
         /\ writer # None => /\ writer.block \in Block /\ writer.block # None
                             /\ writer.asked \in BOOLEAN
  BY ReadPipelineAssumption DEF LoopType, Pending, Write

LEMMA TypeLoop ==
  ASSUME LoopType, [Next]_vars
  PROVE  LoopType'
<1> USE ReadSchedAssumption DEF LoopType
<1>1. CASE UNCHANGED vars
  BY <1>1 DEF vars, serviceVars, displayVars
<1>2. ASSUME NEW lost \in BOOLEAN, Begin(lost) PROVE LoopType'
  BY <1>2 DEF Begin, EndGeneration, Cancel, Sched, Turn, displayVars
<1>3. CASE DeliverReady
  BY <1>3 DEF DeliverReady, Deliver, Turn, displayVars
<1>4. CASE DeliverFailed
  BY <1>4 DEF DeliverFailed, Deliver, Turn, displayVars
<1>5. CASE NoneFailed \/ Pace \/ PollMissed \/ Decoded
  BY <1>5 DEF NoneFailed, Pace, PollMissed, Decoded, Turn, serviceVars,
              displayVars
<1>6. CASE ServeWriter
  BY <1>6 DEF ServeWriter, EndGeneration, Write, Turn, displayVars
<1>7. CASE ServeHost
  BY <1>7 DEF ServeHost, Pending, Turn, displayVars
<1>8. CASE ReadWindow
  BY <1>8 DEF ReadWindow, NoteIssued, Sched, Turn, serviceVars
<1>9. CASE PollWindow
  <2>1. Counted(sched) \in Sched
    BY DEF Counted, Sched
  <2>2. \A s \in Sched, d \in BOOLEAN : [s EXCEPT !.defer = d] \in Sched
    BY DEF Sched
  <2>3. Windowed(sched, present, Remaining, gap) \in Sched
    BY <2>1, <2>2 DEF Windowed, Cancel
  <2> QED
    BY <1>9, <2>3 DEF PollWindow, Turn, serviceVars
<1>10. CASE Polled
  <2>1. dirty' \in BOOLEAN
    BY <1>10 DEF Polled
  <2>2. gap' \in 0..GapHeads
    BY <1>10 DEF Polled
  <2> QED
    BY <1>10, <2>1, <2>2 DEF Polled, Turn, serviceVars
<1>11. CASE ControllerLost
  BY <1>11 DEF ControllerLost, EndGeneration, Turn
<1>12. CASE Leave
  <2>1. NewSched \in Sched /\ GapHeads \in 0..GapHeads
    BY DEF NewSched, Sched
  <2> QED
    BY <1>12, <2>1 DEF Leave, Turn
<1>13. ASSUME NEW b \in Block, HostAsks(b) PROVE LoopType'
  BY <1>13 DEF HostAsks, Pending, displayVars
<1>14. ASSUME NEW b \in Block, BeginWrite(b) PROVE LoopType'
  BY <1>14 DEF BeginWrite, Write, displayVars
<1> QED
  BY <1>1, <1>2, <1>3, <1>4, <1>5, <1>6, <1>7, <1>8, <1>9, <1>10, <1>11,
     <1>12, <1>13, <1>14 DEF Next, Loop

-----------------------------------------------------------------------------
(* What the loop's steps do to what is owed. *)

LEMMA OwingType == LoopType => Owing \in [Owner -> MaybeBlock]
  BY WriterFields, Owners DEF Owing, WaitsFor, MaybeBlock

(* What a block is handed to its owner for is owed no longer. *)
LEMMA DeliverTakes ==
  ASSUME LoopType, NEW a \in Owner, Owing[a] # None, Deliver(a, Owing[a]),
         UNCHANGED <<published, present>>
  PROVE  /\ Owing' = [Owing EXCEPT ![a] = None]
         /\ writer' # None => writer # None
         /\ outstanding = None => outstanding' = None
<1>1. CASE a = "Host"
  <2>1. /\ present /\ published /\ outstanding # None
        /\ Owing[a] = outstanding.block
    BY <1>1 DEF Owing, WaitsFor
  <2>2. outstanding' = None /\ writer' = writer
    BY <1>1, <2>1, Owners DEF Deliver
  <2> QED
    BY <1>1, <2>2, Owners DEF Owing, WaitsFor
<1>2. CASE a = "Writer"
  <2>1. /\ present /\ published /\ writer # None /\ writer.step = "Read"
        /\ Owing[a] = writer.block
    BY <1>2, Owners DEF Owing, WaitsFor
  <2>2. writer' \in Write /\ ~ writer'.asked /\ outstanding' = outstanding
    BY <1>2, <2>1, Owners DEF Deliver
  <2> QED
    BY <1>2, <2>1, <2>2, Owners DEF Owing, WaitsFor
<1> QED
  BY <1>1, <1>2, Owners

-----------------------------------------------------------------------------
(* Every step keeps the reader to what is owed. *)

OwedInv == LoopType /\ Sound(reader, Owing) /\ Modes

LEMMA OwedBegin ==
  ASSUME OwedInv, NEW lost \in BOOLEAN, Begin(lost)
  PROVE  Sound(reader', Owing') /\ Modes'
<1> DEFINE from == IF lost THEN ClearHost(reader) ELSE reader
           bs == IF lost THEN [Owing EXCEPT !["Host"] = None] ELSE Owing
<1>1. Owing \in [Owner -> MaybeBlock] /\ bs \in [Owner -> MaybeBlock]
  BY OwingType DEF OwedInv, MaybeBlock
<1>2. Sound(from, bs)
  BY <1>1, ClearHostKeeps DEF OwedInv
<1>3. PICK r \in Service(from) :
        IF present # published THEN EndGeneration(r)
        ELSE /\ reader' = r
             /\ outstanding' = IF lost THEN None ELSE outstanding
             /\ UNCHANGED writing
  BY DEF Begin, AskedEveryWindow
<1>4. Sound(r, bs)
  <2> HIDE DEF from, bs
  <2> QED
    BY <1>1, <1>2, ServiceKeeps
<1>5. /\ published' = present /\ present' = present /\ turn' = "Ready"
      /\ writer' = IF writing' THEN writer ELSE None
  BY DEF Begin, displayVars
<1>6. CASE present # published
  <2>1. bs = Nothing
    BY <1>6 DEF Owing, Nothing, OwedInv, LoopType
  <2>2. outstanding' = None /\ writing' = FALSE /\ reader' = Aged(r)
    BY <1>3, <1>6 DEF EndGeneration
  <2>3. Owing' = Nothing /\ writer' = None
    BY <1>5, <2>2 DEF Owing, WaitsFor, Nothing
  <2>4. Sound(reader', Nothing)
    BY <1>4, <2>1, <2>2, AgedKeeps
  <2> QED
    BY <1>5, <2>2, <2>3, <2>4 DEF Modes
<1>7. CASE present = published
  <2>1. /\ reader' = r /\ writing' = writing
        /\ outstanding' = IF lost THEN None ELSE outstanding
    BY <1>3, <1>7
  <2>2. ASSUME NEW o \in Owner PROVE Owing'[o] = bs[o]
    <3>1. CASE o = "Host"
      BY <1>5, <1>7, <2>1, <3>1 DEF Owing, WaitsFor
    <3>2. CASE o = "Writer"
      <4>1. writing \/ writer = None \/ ~ published
        BY DEF OwedInv, Modes
      <4> QED
        BY <1>5, <1>7, <2>1, <3>2, <4>1, Owners DEF Owing, WaitsFor
    <3> QED
      BY <3>1, <3>2, Owners
  <2>3. Owing' = bs
    BY <2>2 DEF Owing
  <2>4. Sound(reader', Owing')
    BY <1>4, <2>1, <2>3
  <2>5. Modes'
    BY <1>5, <1>7, <2>1 DEF OwedInv, Modes, LoopType
  <2> QED
    BY <2>4, <2>5
<1> QED
  BY <1>6, <1>7

LEMMA OwedReady ==
  ASSUME OwedInv, DeliverReady
  PROVE  Sound(reader', Owing') /\ Modes'
<1>1. /\ UNCHANGED <<published, writing, present>>
      /\ turn = "Ready" /\ turn' = "Failed"
  BY DEF DeliverReady, displayVars
<1>2. CASE reader.ready = None
  <2>1. UNCHANGED <<reader, outstanding, writer>>
    BY <1>2 DEF DeliverReady
  <2>2. Owing' = Owing
    BY <1>1, <2>1 DEF Owing, WaitsFor
  <2> QED
    BY <1>1, <2>1, <2>2 DEF OwedInv, Modes, Between
<1>3. CASE reader.ready # None
  <2> DEFINE a == reader.ready.owner
  <2>1. Deliver(a, reader.ready.block) /\ reader' \in TakeReady(reader)
    BY <1>3 DEF DeliverReady
  <2>2. /\ a \in Owner /\ Owing[a] = reader.ready.block /\ Owing[a] # None
        /\ Sound(reader', [Owing EXCEPT ![a] = None])
    BY <1>3, <2>1, OwingType, TakeReadyKeeps DEF OwedInv
  <2>3. /\ Owing' = [Owing EXCEPT ![a] = None]
        /\ writer' # None => writer # None
        /\ outstanding = None => outstanding' = None
    <3> HIDE DEF a
    <3> QED
      BY <1>1, <2>1, <2>2, DeliverTakes DEF OwedInv
  <2> QED
    BY <1>1, <2>2, <2>3 DEF OwedInv, Modes, Between
<1> QED
  BY <1>2, <1>3

LEMMA OwedFailed ==
  ASSUME OwedInv, DeliverFailed
  PROVE  Sound(reader', Owing') /\ Modes'
<1>1. /\ UNCHANGED <<published, writing, present>>
      /\ turn = "Failed" /\ turn' = "Failed"
  BY DEF DeliverFailed, displayVars
<1>2. PICK a \in Owner : /\ reader.failed[a] # None
                         /\ Deliver(a, reader.failed[a])
                         /\ reader' = [reader EXCEPT !.failed[a] = None]
  BY DEF DeliverFailed, Failing
<1>3. Owing[a] = reader.failed[a] /\ Sound(reader', [Owing EXCEPT ![a] = None])
  BY <1>2, OwingType, FailedKeeps DEF OwedInv
<1>4. /\ Owing' = [Owing EXCEPT ![a] = None]
      /\ writer' # None => writer # None
      /\ outstanding = None => outstanding' = None
  BY <1>1, <1>2, <1>3, DeliverTakes DEF OwedInv
<1> QED
  BY <1>1, <1>3, <1>4 DEF OwedInv, Modes, Between

LEMMA OwedWriter ==
  ASSUME OwedInv, ServeWriter
  PROVE  Sound(reader', Owing') /\ Modes'
<1>1. /\ UNCHANGED <<published, present>>
      /\ turn = "Owners" /\ turn' = "Ask"
      /\ present = published /\ (writer # None => writing /\ published)
      /\ Owing \in [Owner -> MaybeBlock]
  BY OwingType DEF ServeWriter, displayVars, OwedInv, Modes, Between
<1>2. CASE UNCHANGED <<reader, outstanding, writing, writer>>
  <2>1. Owing' = Owing
    BY <1>1, <1>2 DEF Owing, WaitsFor
  <2> QED
    BY <1>1, <1>2, <2>1 DEF OwedInv, Modes, Between
<1>3. CASE /\ writer # None /\ writer.step = "Read"
           /\ ~ writer.asked /\ HasRoom(reader)
           /\ reader' = RequestVerify(reader, writer.block)
           /\ writer' = [writer EXCEPT !.asked = TRUE]
           /\ UNCHANGED <<outstanding, writing>>
  <2>1. /\ writer \in Write /\ writer' \in Write /\ writer'.asked
        /\ writer'.block = writer.block /\ writer'.step = "Read"
        /\ writer.block \in Block /\ writer' # None
    BY <1>3, WriterFields, NothingAssumption DEF OwedInv, LoopType, Write
  <2>2. Owing["Writer"] = None
    BY <1>3, Owners DEF Owing, WaitsFor
  <2>3. Owing' = [Owing EXCEPT !["Writer"] = writer.block]
    BY <1>1, <1>3, <2>1, Owners DEF Owing, WaitsFor
  <2>4. Sound(reader', Owing')
    BY <1>1, <1>3, <2>1, <2>2, <2>3, RequestKeeps DEF OwedInv
  <2> QED
    BY <1>1, <1>3, <2>4 DEF OwedInv, Modes, Between
<1>4. CASE /\ writer # None /\ writer.step = "Written"
           /\ writer' = None /\ writing' = FALSE
           /\ UNCHANGED <<reader, outstanding>>
  <2>1. Owing' = Owing
    BY <1>1, <1>4 DEF Owing, WaitsFor
  <2> QED
    BY <1>1, <1>4, <2>1 DEF OwedInv, Modes, Between
<1>5. CASE /\ writer # None /\ writer.step = "Refused"
           /\ writer' = None
           /\ EndGeneration(ClearHost(reader))
  <2>1. outstanding' = None /\ writing' = FALSE /\ reader' = Aged(ClearHost(reader))
    BY <1>5 DEF EndGeneration
  <2>2. [Owing EXCEPT !["Host"] = None] = Nothing
    BY <1>5, Owners DEF Owing, WaitsFor, Nothing
  <2>3. Sound(ClearHost(reader), Nothing)
    BY <1>1, <2>2, ClearHostKeeps DEF OwedInv
  <2>4. Owing' = Nothing
    BY <1>5, <2>1 DEF Owing, WaitsFor, Nothing
  <2> QED
    BY <1>1, <1>5, <2>1, <2>3, <2>4, AgedKeeps DEF Modes, Between
<1> QED
  BY <1>2, <1>3, <1>4, <1>5 DEF ServeWriter, HostCleared

LEMMA OwedHost ==
  ASSUME OwedInv, ServeHost
  PROVE  Sound(reader', Owing') /\ Modes'
<1>1. /\ UNCHANGED <<published, present, writing, writer>>
      /\ turn = "Ask" /\ turn' = "Window"
      /\ present = published
      /\ Owing \in [Owner -> MaybeBlock]
  BY OwingType DEF ServeHost, displayVars, OwedInv, Modes, Between
<1>2. CASE UNCHANGED <<reader, outstanding>>
  <2>1. Owing' = Owing
    BY <1>1, <1>2 DEF Owing, WaitsFor
  <2> QED
    BY <1>1, <1>2, <2>1 DEF OwedInv, Modes, Between
<1>3. CASE /\ outstanding # None /\ outstanding.issued
           /\ outstanding' = [outstanding EXCEPT !.issued = FALSE]
           /\ reader' = ClearHost(reader)
  <2>1. outstanding \in Pending /\ ~ outstanding'.issued
    BY <1>3 DEF OwedInv, LoopType, Pending
  <2>2. Owing' = [Owing EXCEPT !["Host"] = None]
    BY <1>1, <2>1, Owners DEF Owing, WaitsFor
  <2>3. Sound(reader', Owing')
    BY <1>1, <1>3, <2>2, ClearHostKeeps DEF OwedInv
  <2> QED
    BY <1>1, <1>3, <2>3 DEF OwedInv, Modes, Between
<1>4. CASE /\ outstanding # None /\ ~ outstanding.issued /\ published
           /\ outstanding' = [outstanding EXCEPT !.issued = TRUE]
           /\ reader' = IF HasRoom(reader)
                        THEN Request(reader, outstanding.block) ELSE reader
  <2>1. /\ outstanding \in Pending /\ outstanding'.issued
        /\ outstanding' \in Pending /\ outstanding' # None
        /\ outstanding'.block = outstanding.block /\ outstanding.block \in Block
    BY <1>4, NothingAssumption DEF OwedInv, LoopType, Pending
  <2>2. Owing["Host"] = None
    BY <1>4, Owners DEF Owing, WaitsFor
  <2>3. HasRoom(reader)
    BY <1>1, <2>2, Owners, RoomForAll DEF OwedInv
  <2>4. Owing' = [Owing EXCEPT !["Host"] = outstanding.block]
    BY <1>1, <1>4, <2>1, Owners DEF Owing, WaitsFor
  <2>5. Sound(reader', Owing')
    BY <1>1, <1>4, <2>1, <2>2, <2>3, <2>4, RequestKeeps DEF OwedInv
  <2> QED
    BY <1>1, <1>4, <2>5 DEF OwedInv, Modes, Between
<1> QED
  BY <1>2, <1>3, <1>4 DEF ServeHost

LEMMA OwedWindow ==
  ASSUME OwedInv, ReadWindow
  PROVE  Sound(reader', Owing') /\ Modes'
<1>1. /\ UNCHANGED <<published, present, writing, outstanding>>
      /\ turn = "Window" /\ turn' = "Rest"
      /\ present = published /\ (writer # None => writing)
      /\ Owing \in [Owner -> MaybeBlock]
  BY OwingType DEF ReadWindow, serviceVars, OwedInv, Modes, Between
<1>2. CASE WantsWindow
  <2>1. /\ reader' = reader /\ writer' \in Write /\ ~ writer'.asked
        /\ writer # None /\ writer.step = "Send"
    BY <1>2 DEF ReadWindow, WantsWindow
  <2>2. Owing' = Owing
    BY <1>1, <2>1 DEF Owing, WaitsFor
  <2> QED
    BY <1>1, <2>1, <2>2 DEF OwedInv, Modes, Between
<1>3. CASE ~ WantsWindow
  <2>1. reader' \in Captured(reader) /\ writer' = writer
    BY <1>3 DEF ReadWindow
  <2>2. reader.queue # <<>> /\ reader.latched = None
    BY <1>3 DEF ReadWindow, Granted, IsRead, Remaining, PipelineBusy
  <2>3. Owing' = Owing
    BY <1>1, <2>1 DEF Owing, WaitsFor
  <2>4. Sound(reader', Owing)
    BY <1>1, <2>1, <2>2, CapturedKeeps DEF OwedInv
  <2> QED
    BY <1>1, <2>1, <2>3, <2>4 DEF OwedInv, Modes, Between
<1> QED
  BY <1>2, <1>3

LEMMA OwedPolled ==
  ASSUME OwedInv, Polled
  PROVE  Sound(reader', Owing') /\ Modes'
<1>1. /\ UNCHANGED <<published, writing, outstanding, writer>>
      /\ turn = "Poll" /\ turn' = "Rest"
      /\ present' \in BOOLEAN /\ present = published
      /\ reader' = IF present' # present THEN Cleared(reader) ELSE reader
  BY DEF Polled, serviceVars, OwedInv, Modes, Between
<1>2. CASE present' = present
  <2>1. Owing' = Owing
    BY <1>1, <1>2 DEF Owing, WaitsFor
  <2> QED
    BY <1>1, <1>2, <2>1 DEF OwedInv, Modes, Between
<1>3. CASE present' # present
  <2>1. Owing' = Nothing
    BY <1>1, <1>3 DEF Owing, Nothing, OwedInv, LoopType
  <2>2. reader \in Reader
    BY DEF OwedInv, Sound
  <2> QED
    BY <1>1, <1>3, <2>1, <2>2, NewKeeps DEF OwedInv, Modes, Between
<1> QED
  BY <1>2, <1>3

LEMMA OwedLost ==
  ASSUME OwedInv, ControllerLost
  PROVE  Sound(reader', Owing') /\ Modes'
<1>1. /\ turn' = "Rest" /\ present' = FALSE /\ published' = FALSE
      /\ reader' \in {Cleared(reader), Aged(Cleared(reader))}
      /\ outstanding' = None /\ writing' = FALSE
  BY DEF ControllerLost, EndGeneration, OwedInv, Modes, LoopType
<1>2. Owing' = Nothing
  BY <1>1 DEF Owing, Nothing
<1>3. reader \in Reader
  BY DEF OwedInv, Sound
<1> QED
  BY <1>1, <1>2, <1>3, NewKeeps, AgedKeeps DEF Modes, Between

LEMMA OwedNext ==
  ASSUME OwedInv, [Next]_vars
  PROVE  Sound(reader', Owing') /\ Modes'
<1>1. CASE UNCHANGED vars
  <2>1. Owing' = Owing
    BY <1>1 DEF vars, serviceVars, displayVars, Owing, WaitsFor
  <2> QED
    BY <1>1, <2>1
       DEF OwedInv, Modes, Between, vars, serviceVars, displayVars
<1>2. CASE NoneFailed \/ PollWindow \/ PollMissed \/ Pace
  <2>1. UNCHANGED <<reader, serviceVars, writer, present>>
    BY <1>2 DEF NoneFailed, PollWindow, PollMissed, Pace, displayVars
  <2>2. Owing' = Owing
    BY <2>1 DEF serviceVars, Owing, WaitsFor
  <2>3. Between => Between'
    BY <1>2 DEF NoneFailed, PollWindow, PollMissed, Pace, Between
  <2> QED
    BY <2>1, <2>2, <2>3 DEF OwedInv, Modes, serviceVars
<1>3. CASE Decoded
  <2>1. /\ reader.decoding # None /\ reader' \in Finished(reader)
        /\ UNCHANGED <<serviceVars, writer, present, turn>>
    BY <1>3 DEF Decoded, displayVars
  <2>2. Owing' = Owing
    BY <2>1 DEF serviceVars, Owing, WaitsFor
  <2>3. Sound(reader', Owing)
    BY <2>1, OwingType, FinishedKeeps DEF OwedInv
  <2> QED
    BY <2>1, <2>2, <2>3 DEF OwedInv, Modes, Between, serviceVars
<1>4. CASE Leave
  <2>1. /\ reader' = NewReader /\ writer' = None /\ outstanding' = None
        /\ writing' = FALSE /\ present' = FALSE /\ published' = FALSE
    BY <1>4 DEF Leave
  <2>2. Owing' = Nothing
    BY <2>1 DEF Owing, Nothing
  <2> QED
    BY <2>1, <2>2, NewKeeps DEF Modes
<1>5. ASSUME NEW b \in Block, HostAsks(b) PROVE Sound(reader', Owing') /\ Modes'
  <2>1. /\ UNCHANGED <<reader, published, writing, writer, present, turn>>
        /\ published /\ outstanding = None /\ ~ outstanding'.issued
    BY <1>5 DEF HostAsks, displayVars
  <2>2. Owing' = Owing
    BY <2>1 DEF Owing, WaitsFor
  <2> QED
    BY <2>1, <2>2 DEF OwedInv, Modes, Between
<1>6. ASSUME NEW b \in Block, BeginWrite(b) PROVE Sound(reader', Owing') /\ Modes'
  <2>1. /\ UNCHANGED <<reader, outstanding, published, present, turn>>
        /\ published /\ writer = None /\ writing' = TRUE
        /\ writer'.step = "Send"
    BY <1>6 DEF BeginWrite, displayVars
  <2>2. Owing' = Owing
    BY <2>1 DEF Owing, WaitsFor
  <2> QED
    BY <2>1, <2>2 DEF OwedInv, Modes, Between
<1> QED
  BY <1>1, <1>2, <1>3, <1>4, <1>5, <1>6, OwedBegin, OwedReady, OwedFailed,
     OwedWriter, OwedHost, OwedWindow, OwedPolled, OwedLost DEF Next, Loop

-----------------------------------------------------------------------------
(* The theorems. *)

LEMMA HeldInOnePlace ==
  ASSUME NEW r \in Reader, NEW o \in Owner, NEW b \in MaybeBlock,
         NEW p \in Places, HeldAt(r, o, b, p)
  PROVE  /\ b = None => HeldFor(r, o) = {}
         /\ b # None => \E place \in HeldFor(r, o) : HeldFor(r, o) = {place}
<1> DEFINE line == {<<"queue", i>> : i \in {j \in DOMAIN r.queue :
                                              r.queue[j].owner = o}}
           of(w) == IF Slot(r, o, w) # None THEN {<<w, 0>>} ELSE {}
<1>1. r.queue \in Seq(Req) /\ DOMAIN r.queue = 1..Len(r.queue)
  BY ReaderFields
<1>2. /\ LatchedFor(r, o) # None <=> r.latched # None /\ r.latched.req.owner = o
      /\ DecodingFor(r, o) # None <=> r.decoding # None /\ r.decoding.owner = o
      /\ ReadyFor(r, o) # None <=> r.ready # None /\ r.ready.owner = o
  BY ReaderFields, ReqFields, ReadPipelineAssumption
     DEF LatchedFor, DecodingFor, ReadyFor
<1>3. HeldFor(r, o) = line \cup of("latched") \cup of("decoding")
                           \cup of("ready") \cup of("failed")
  <2> HIDE DEF line
  <2>1. HeldFor(r, o) =
          line
          \cup (IF LatchedFor(r, o) # None THEN {<<"latched", 0>>} ELSE {})
          \cup (IF DecodingFor(r, o) # None THEN {<<"decoding", 0>>} ELSE {})
          \cup (IF ReadyFor(r, o) # None THEN {<<"ready", 0>>} ELSE {})
          \cup (IF r.failed[o] # None THEN {<<"failed", 0>>} ELSE {})
    BY <1>2 DEF HeldFor, line
  <2> QED
    BY <2>1 DEF Slot
<1>4. \A w \in Slots : of(w) = IF w = p /\ b # None THEN {<<w, 0>>} ELSE {}
  BY DEF HeldAt
<1>5. CASE b = None
  <2>1. line = {}
    BY <1>1, <1>5 DEF HeldAt, QueueHas
  <2> HIDE DEF line, of
  <2> QED
    BY <1>3, <1>4, <1>5, <2>1 DEF Slots
<1>6. CASE b # None /\ p = "queue"
  <2>1. PICK i \in 1..Len(r.queue) :
          /\ r.queue[i].owner = o
          /\ \A j \in 1..Len(r.queue) : r.queue[j].owner = o => j = i
    BY <1>6 DEF HeldAt, QueueHas
  <2>2. line = {<<"queue", i>>}
    BY <1>1, <2>1
  <2> HIDE DEF line, of
  <2> QED
    BY <1>3, <1>4, <1>6, <2>2 DEF Slots
<1>7. CASE b # None /\ p # "queue"
  <2>1. line = {}
    BY <1>1, <1>7 DEF HeldAt, QueueHas
  <2> HIDE DEF line, of
  <2>2. HeldFor(r, o) = {<<p, 0>>}
    BY <1>3, <1>4, <1>7, <2>1 DEF Slots, Places
  <2> QED
    BY <1>7, <2>2
<1> QED
  BY <1>5, <1>6, <1>7

LEMMA OwedInit == Init => OwedInv
<1> SUFFICES ASSUME Init PROVE OwedInv
  OBVIOUS
<1>1. NewSched \in Sched /\ GapHeads \in 0..GapHeads
  BY ReadSchedAssumption DEF NewSched, Sched
<1>2. LoopType
  BY <1>1 DEF Init, LoopType, Turn
<1>3. Owing = Nothing
  BY DEF Init, Owing, Nothing
<1> QED
  BY <1>2, <1>3, NewKeeps DEF Init, OwedInv, Modes

LEMMA OwedHolds == Spec => []OwedInv
<1>1. OwedInv /\ [Next]_vars => OwedInv'
  BY TypeLoop, OwedNext DEF OwedInv
<1> QED
  BY <1>1, OwedInit, PTL DEF Spec

(* Every variable of the read path keeps its type and the queue its length:  *)
(* reader, schedule, service, writer and the loop's place in its pass.       *)
THEOREM ReadPathTypes == Spec => []TypeOK
<1>1. OwedInv => TypeOK
  <2> SUFFICES ASSUME OwedInv PROVE TypeOK
    OBVIOUS
  <2>1. reader \in Reader /\ Len(reader.queue) <= QueueLen
    BY OwingType, RoomForAll DEF OwedInv, Sound
  <2> QED
    BY <2>1 DEF OwedInv, LoopType, TypeOK
<1> QED
  BY <1>1, OwedHolds, PTL

(* What the storage service or the block writer waits for is in exactly one  *)
(* place of the reader (fail, take_failed, clear_host, service), and what    *)
(* nobody waits for is nowhere in it.                                        *)
THEOREM OwedReadsAreHeld == Spec => []OwedIsHeld
<1>1. OwedInv => OwedIsHeld
  <2> SUFFICES ASSUME OwedInv, NEW o \in Owner
               PROVE  \/ WaitsFor(o) = None /\ HeldFor(reader, o) = {}
                      \/ /\ WaitsFor(o) # None
                         /\ \E place \in HeldFor(reader, o) :
                              HeldFor(reader, o) = {place}
                      \/ /\ HeldFor(reader, o) = {}
                         /\ present # published \/ (o = "Writer" /\ ~ writing)
    BY DEF OwedIsHeld
  <2>1. PICK p \in Places : HeldAt(reader, o, Owing[o], p)
    BY DEF OwedInv, Sound, Owes
  <2>2. /\ Owing[o] = None => HeldFor(reader, o) = {}
        /\ Owing[o] # None => \E place \in HeldFor(reader, o) :
                                HeldFor(reader, o) = {place}
    BY <2>1, OwingType, HeldInOnePlace DEF OwedInv, Sound
  <2>3. CASE Owing[o] = None
    <3>1. CASE present /\ published
      BY <2>2, <2>3, <3>1 DEF Owing
    <3>2. CASE ~ (present /\ published) /\ present = published
      <4>1. outstanding = None /\ ~ writing
        BY <3>2 DEF OwedInv, Modes
      <4> QED
        BY <2>2, <2>3, <4>1, Owners DEF WaitsFor
    <3>3. CASE present # published
      BY <2>2, <2>3, <3>3
    <3> QED
      BY <3>1, <3>2, <3>3
  <2>4. CASE Owing[o] # None
    BY <2>2, <2>4 DEF Owing
  <2> QED
    BY <2>3, <2>4
<1> QED
  BY <1>1, OwedHolds, PTL

(* A block handed out is the one asked for and of the card docked now.       *)
THEOREM ReadyBlocksAreFresh == Spec => []ReadyIsFresh
<1>1. OwedInv => ReadyIsFresh
  BY DEF OwedInv, Sound, Captures, ReadyIsFresh, Fresh
<1> QED
  BY <1>1, OwedHolds, PTL

=============================================================================
