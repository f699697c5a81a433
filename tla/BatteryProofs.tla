---------------------------- MODULE BatteryProofs ----------------------------
(***************************************************************************)
(* For every board, every set of readings and all the policy's constants: a  *)
(* cutoff by an empty gauge is earned, a flat cell gets it in time, and no   *)
(* level is shown that has expired.  The evidence the policy keeps in three numbers stands for a set *)
(* of past readings that has the shape a cutoff needs (EmptyIsEarned); the   *)
(* facts it may show are the last ones read (FactsAreRead).                  *)
(***************************************************************************)
EXTENDS Battery, FiniteSetTheorems, TLAPS

(* What the policy's evidence says of the readings behind it. *)
EarnedBy(empty, S) ==
  /\ IsFiniteSet(S) /\ Cardinality(S) >= empty.counted
  /\ Spaced(S)
  /\ empty.first_counted \in S /\ empty.last_counted \in S
  /\ \A a \in S : /\ a <= empty.last_counted
                  /\ a = empty.last_counted \/ \E b \in S : a < b /\ b - a <= MaxGap
Backed(empty, past, time) ==
  /\ empty \in Evidence /\ empty.last_counted <= time
  /\ \E S \in SUBSET past : EarnedBy(empty, S)
Earned(empty, past, time) == empty # None => Backed(empty, past, time)

EmptyIsEarned == Earned(policy.empty, empties, now)

(* A unit that is off because of its gauge stays as the decision left it. *)
OffForCause == cause # None => phase = "Off"

(* The last attempt is no older than the slowest phase lets it get. *)
Cadence == /\ last_attempt \in Nat /\ last_attempt <= now
           /\ now - last_attempt <= NormalInterval
           /\ passed => now - last_attempt < NormalInterval

(* Of a unit still on, the evidence falls short; since the cell reads flat   *)
(* no attempt is far from one that counted, and the counted ones are near    *)
(* each other. *)
Ordered(empty, time) == /\ empty \in Evidence /\ empty.counted >= 1
                        /\ empty.first_counted <= empty.last_counted
                        /\ empty.last_counted <= time
Short(empty) == empty # None => \/ empty.counted < EmptyReads
                               \/ empty.last_counted - empty.first_counted < SpanNormal
Reached(empty, since, attempt) ==
  /\ Ordered(empty, attempt) /\ empty.first_counted <= since
  /\ attempt - empty.last_counted <= MinSpacing - 1
  /\ \/ empty.counted >= EmptyReads
     \/ empty.last_counted - since <= (empty.counted - 1) * CountedInterval

EvidenceIsOrdered == policy.empty # None => Ordered(policy.empty, now)
EvidenceIsShort == Running => Short(policy.empty)
FlatIsReached == flat # None => /\ CanSleep /\ flat \in Nat /\ flat <= now
                                /\ policy.empty # None
                                /\ Reached(policy.empty, flat, last_attempt)

(* The facts shown are the last ones read. *)
FactsAreRead ==
  /\ policy.percent # None =>
       /\ measured # None /\ policy.percent = measured
       /\ measured.at \in Nat /\ measured.at <= now
  /\ policy.charge_complete # None /\ policy.charge_complete.value = TRUE =>
       /\ full # None /\ policy.charge_complete.at = full
       /\ full \in Nat /\ full <= now

Clock == /\ now \in Nat /\ started \in Nat /\ started <= now
         /\ empties \subseteq Nat /\ board \in Boards

Inv == Clock /\ OffForCause /\ EmptyIsEarned /\ CutoffEarned
FlatInv == Clock /\ Cadence /\ EvidenceIsOrdered /\ EvidenceIsShort /\ FlatIsReached
ShownInv == Clock /\ FactsAreRead /\ ShownIsCurrent

---------------------------------------------------------------------------
(* The evidence *)

LEMMA Constants ==
  /\ {CutoffMillivolts, CutoffPercent, SpanSearching, SpanNormal, MaxGap, Expiry} \subseteq Nat
  /\ EmptyReads \in Nat \ {0} /\ MinSpacing \in Nat \ {0} /\ U8Max \in Nat \ {0}
  /\ Grace \in Nat /\ None \notin Nat /\ None \notin BOOLEAN /\ None \notin Evidence
BY PolicyAssumption, BatteryAssumption

LEMMA ReadingsObserve ==
  ASSUME board \in Boards, NEW obs \in Readings[board] \cup {NoReading}
  PROVE  obs \in Observation
<1>1. Readings[board] \subseteq Observation
  BY BatteryAssumption DEF Observations
<1>2. NoReading \in Observation
  BY DEF NoReading, Observation, Maybe
<1> QED
  BY <1>1, <1>2

(* The first reading that counts is evidence by itself. *)
LEMMA FirstIsEarned ==
  ASSUME NEW time \in Nat, NEW past, time \in past
  PROVE  Backed([first_counted |-> time, last_counted |-> time, counted |-> 1], past, time)
<1> DEFINE e == [first_counted |-> time, last_counted |-> time, counted |-> 1]
<1>1. e \in Evidence /\ e.last_counted <= time
  BY DEF Evidence
<1>2. IsFiniteSet({time}) /\ Cardinality({time}) = 1
  BY FS_Singleton
<1>3. EarnedBy(e, {time})
  BY <1>2 DEF EarnedBy, Spaced
<1> QED
  BY <1>1, <1>3 DEF Backed

(* A reading far enough from the last that counted, and near enough, extends
   the evidence. *)
LEMMA NextIsEarned ==
  ASSUME NEW e, NEW time \in Nat, NEW past \in SUBSET Nat, time \in past,
         Backed(e, past, time), GoesOn(e, time), Counts(e, time),
         NEW n \in Nat, n <= e.counted + 1
  PROVE  Backed([e EXCEPT !.last_counted = time, !.counted = n], past, time)
<1> DEFINE f == [e EXCEPT !.last_counted = time, !.counted = n]
<1>1. e \in Evidence /\ e.last_counted <= time
  BY DEF Backed
<1>2. PICK S \in SUBSET past : EarnedBy(e, S)
  BY DEF Backed
<1>3. time - e.last_counted >= MinSpacing /\ time - e.last_counted <= MaxGap
  BY <1>1 DEF GoesOn, Counts, Elapsed, Evidence
<1>4. f \in Evidence /\ f.first_counted = e.first_counted /\ f.last_counted = time /\ f.counted = n
  BY <1>1 DEF Evidence
<1> HIDE DEF f
<1>5. S \subseteq Nat /\ \A a \in S : a <= e.last_counted /\ e.last_counted - a >= 0
  BY <1>1, <1>2 DEF EarnedBy, Evidence
<1>6. e.last_counted < time
  BY <1>1, <1>3, Constants DEF Evidence
<1>7. time \notin S
  BY <1>1, <1>5, <1>6 DEF Evidence
<1> DEFINE U == S \cup {time}
<1>8. IsFiniteSet(U) /\ Cardinality(U) = Cardinality(S) + 1 /\ Cardinality(S) \in Nat
  BY <1>2, <1>7, FS_AddElement, FS_CardinalityType DEF EarnedBy
<1>9. Cardinality(U) >= n
  BY <1>1, <1>2, <1>8 DEF EarnedBy, Evidence
<1>10. Spaced(U)
  <2> SUFFICES ASSUME NEW a \in U, NEW b \in U, a < b
               PROVE  b - a >= MinSpacing
    BY DEF Spaced
  <2>1. CASE b \in S /\ a \in S
    BY <1>2, <2>1 DEF EarnedBy, Spaced
  <2>2. CASE b = time
    <3>1. a \in S
      BY <2>2, <1>5
    <3> QED
      BY <1>1, <1>3, <1>5, <2>2, <3>1, Constants DEF Evidence
  <2>3. CASE a = time
    BY <1>1, <1>5, <1>6, <2>3 DEF Evidence
  <2> QED
    BY <2>1, <2>2, <2>3
<1>11. \A a \in U : /\ a <= time
                    /\ a = time \/ \E b \in U : a < b /\ b - a <= MaxGap
  <2> SUFFICES ASSUME NEW a \in S
               PROVE  /\ a <= time
                      /\ \E b \in U : a < b /\ b - a <= MaxGap
    OBVIOUS
  <2>1. a <= time
    BY <1>1, <1>5, <1>6 DEF Evidence
  <2>2. CASE a = e.last_counted
    BY <1>1, <1>3, <1>6, <2>1, <2>2 DEF Evidence
  <2>3. CASE \E b \in S : a < b /\ b - a <= MaxGap
    BY <2>1, <2>3
  <2> QED
    BY <1>2, <2>1, <2>2, <2>3 DEF EarnedBy
<1>12. EarnedBy(f, U)
  BY <1>2, <1>4, <1>8, <1>9, <1>10, <1>11 DEF EarnedBy
<1>13. U \in SUBSET past
  OBVIOUS
<1> QED
  BY <1>4, <1>12, <1>13 DEF Backed, f

(* Evidence stays evidence as time goes on and readings are added. *)
LEMMA EarnedMonotone ==
  ASSUME NEW e, NEW past, NEW more, NEW time \in Nat, NEW later \in Nat,
         past \subseteq more, time <= later, Earned(e, past, time)
  PROVE  Earned(e, more, later)
BY DEF Earned, Backed, Evidence

(* What a flat reading gathers is evidence. *)
LEMMA GatheredIsEarned ==
  ASSUME NEW e, NEW time \in Nat, NEW past \in SUBSET Nat, time \in past, Earned(e, past, time)
  PROVE  Backed(Gathered(e, time), past, time)
<1>1. CASE ~GoesOn(e, time)
  BY <1>1, FirstIsEarned DEF Gathered
<1>2. CASE GoesOn(e, time) /\ ~Counts(e, time)
  BY <1>2 DEF Gathered, GoesOn, Earned
<1>3. CASE GoesOn(e, time) /\ Counts(e, time)
  <2> DEFINE n == IF e.counted < U8Max THEN e.counted + 1 ELSE U8Max
  <2>1. Backed(e, past, time) /\ e.counted \in Nat
    BY <1>3 DEF GoesOn, Earned, Backed, Evidence
  <2>2. n \in Nat /\ n <= e.counted + 1
    BY <2>1, Constants
  <2>3. Gathered(e, time) = [e EXCEPT !.last_counted = time, !.counted = n]
    BY <1>3 DEF Gathered
  <2> HIDE DEF n
  <2>4. Backed([e EXCEPT !.last_counted = time, !.counted = n], past, time)
    BY <1>3, <2>1, <2>2, NextIsEarned
  <2> QED
    BY <2>3, <2>4
<1> QED
  BY <1>1, <1>2, <1>3
---------------------------------------------------------------------------
(* A reading *)

(* A flat reading that confirms the evidence has just been counted. *)
LEMMA ConfirmedNow ==
  ASSUME NEW e, NEW obs, NEW time \in Nat, NEW context, NEW can_sleep,
         Confirmed(e, obs, time, context, can_sleep), e # None => e \in Evidence
  PROVE  LET g == Gathered(e, time)
         IN  /\ g.last_counted = time /\ g.counted >= EmptyReads
             /\ Elapsed(g.first_counted, time) >= Span(context)
<1>1. Counts(e, time)
  BY DEF Confirmed
<1>2. CASE ~GoesOn(e, time)
  BY <1>2 DEF Confirmed, Gathered
<1>3. CASE GoesOn(e, time)
  <2>1. e \in Evidence
    BY <1>3 DEF GoesOn
  <2> QED
    BY <1>1, <1>3, <2>1 DEF Confirmed, Gathered, Evidence
<1> QED
  BY <1>2, <1>3

LEMMA SampleKeeps ==
  ASSUME Inv, cause = None, UNCHANGED <<now, board>>,
         NEW obs \in Readings[board] \cup {NoReading}, NEW context,
         NEW next, next # "Off", Sample(obs, context, next)
  PROVE  OffForCause' /\ EmptyIsEarned' /\ CutoffEarned' /\ (empties \subseteq Nat)'
<1>0. now' = now /\ board' = board
  OBVIOUS
<1>1. obs \in Observation /\ now \in Nat /\ empties \subseteq Nat
  BY ReadingsObserve DEF Inv, Clock
<1>2. CASE board = "dk"
  BY <1>1, <1>2 DEF Sample, historyVars, OffForCause, EmptyIsEarned, CutoffEarned, Inv, Clock
<1>3. CASE board # "dk"
  <2> DEFINE e == policy.empty
             d == Decision(e, obs, now, context, CanSleep)
  <2>1. /\ policy'.empty = EmptyAfter(e, obs, now, CanSleep)
        /\ Remembered(obs)
    BY <1>3 DEF Sample, Observe
  <2>2. IF d = "Continue" THEN phase' = next /\ cause' = cause
        ELSE phase' = "Off" /\ cause' = [why |-> d, context |-> context]
    BY <1>3 DEF Sample
  <2>3. OffForCause'
    BY <2>2 DEF OffForCause
  <2>4. (empties \subseteq Nat)'
    BY <1>1, <2>1 DEF Remembered
  <2>5. d = "EmptyGauge" => Confirmed(e, obs, now, context, CanSleep)
    BY DEF Decision
  <2>6. CASE Clears(obs, CanSleep)
    <3>1. ~Confirmed(e, obs, now, context, CanSleep) /\ policy'.empty = None
      BY <2>1, <2>6 DEF Confirmed, EmptyAfter
    <3> QED
      BY <2>2, <2>3, <2>4, <2>5, <3>1 DEF EmptyIsEarned, Earned, CutoffEarned
  <2>7. CASE ~Clears(obs, CanSleep) /\ ReadsEmpty(obs) /\ obs.charging # None
    <3>1. Flat(obs)
      BY <1>1, <2>7 DEF Clears, Flat, Observation, Maybe
    <3>2. empties' = empties \cup {now}
      BY <2>1, <3>1 DEF Remembered
    <3>3. Earned(e, empties, now)
      BY DEF Inv, EmptyIsEarned
    <3>4. Earned(e, empties', now)
      BY <1>1, <3>2, <3>3, EarnedMonotone
    <3>5. Backed(Gathered(e, now), empties', now)
      BY <1>1, <2>4, <3>2, <3>4, GatheredIsEarned
    <3>6. policy'.empty = Gathered(e, now)
      BY <2>1, <2>7 DEF EmptyAfter
    <3>7. EmptyIsEarned'
      BY <1>0, <3>5, <3>6 DEF EmptyIsEarned, Earned
    <3>8. CutoffEarned'
      <4> SUFFICES ASSUME d = "EmptyGauge", cause' = [why |-> d, context |-> context]
                   PROVE  CutoffEarned'
        BY <2>2 DEF CutoffEarned
      <4> DEFINE g == Gathered(e, now)
      <4>1. Confirmed(e, obs, now, context, CanSleep) /\ (e # None => e \in Evidence)
        BY <2>5, <3>3 DEF Earned, Backed
      <4>2. /\ g.last_counted = now /\ g.counted >= EmptyReads
            /\ Elapsed(g.first_counted, now) >= Span(context)
        BY <1>1, <4>1, ConfirmedNow
      <4>3. PICK S \in SUBSET empties' : EarnedBy(g, S)
        BY <3>5 DEF Backed
      <4>4. g \in Evidence
        BY <3>5 DEF Backed
      <4> HIDE DEF g, d
      <4>5. now \in S /\ Cardinality(S) >= EmptyReads /\ Spaced(S)
        BY <4>2, <4>3, <4>4, FS_CardinalityType, Constants DEF EarnedBy, Evidence
      <4>6. Linked(S)'
        BY <1>0, <4>2, <4>3 DEF EarnedBy, Linked
      <4>7. Spans(S, Span(context))'
        BY <1>0, <1>1, <4>2, <4>3, <4>4 DEF EarnedBy, Spans, Elapsed, Evidence
      <4> QED
        BY <1>0, <4>5, <4>6, <4>7 DEF CutoffEarned
    <3> QED
      BY <2>3, <2>4, <3>7, <3>8
  <2>8. CASE ~Clears(obs, CanSleep) /\ ~(ReadsEmpty(obs) /\ obs.charging # None)
    <3>1. ~Flat(obs)
      BY <1>1, <2>8, Constants DEF Flat
    <3>2. ~Refutes(obs)
      BY <1>1, <2>8, Constants DEF Refutes, Clears, ReadsEmpty, Observation, Maybe
    <3>3. empties' = empties /\ policy'.empty = policy.empty
      BY <2>1, <2>8, <3>1, <3>2 DEF Remembered, EmptyAfter
    <3>4. ~Confirmed(e, obs, now, context, CanSleep)
      BY <2>8 DEF Confirmed
    <3> QED
      BY <2>2, <2>3, <2>4, <2>5, <3>3, <3>4 DEF EmptyIsEarned, CutoffEarned, Inv
  <2> QED
    BY <2>6, <2>7, <2>8
<1> QED
  BY <1>2, <1>3

LEMMA DueSampleKeeps ==
  ASSUME Inv, cause = None, UNCHANGED <<now, board>>, phase # "Off",
         NEW obs \in Readings[board] \cup {NoReading}, NEW context,
         SampleWhenDue(obs, context)
  PROVE  OffForCause' /\ EmptyIsEarned' /\ CutoffEarned' /\ (empties \subseteq Nat)'
<1>1. CASE Due(context)
  BY <1>1, SampleKeeps DEF SampleWhenDue
<1>2. CASE ~Due(context)
  BY <1>2 DEF SampleWhenDue, NoSample, historyVars, Inv, Clock, OffForCause, EmptyIsEarned,
              CutoffEarned
<1> QED
  BY <1>1, <1>2

(* A step that takes no reading and leaves the unit as it is, or sends it to
   sleep or to an update. *)
LEMMA QuietKeeps ==
  ASSUME Inv, now' \in Nat, now <= now',
         policy' = policy, empties' = empties, board' = board,
         cause = None, cause' = None \/ (cause'.why = "Asked" /\ phase' = "Off")
  PROVE  OffForCause' /\ EmptyIsEarned' /\ CutoffEarned' /\ (empties \subseteq Nat)'
<1>1. EmptyIsEarned'
  BY EarnedMonotone DEF Inv, Clock, EmptyIsEarned
<1>2. OffForCause'
  BY DEF Inv, OffForCause
<1>3. CutoffEarned'
  BY DEF Inv, CutoffEarned, Linked, Spans
<1> QED
  BY <1>1, <1>2, <1>3 DEF Inv, Clock

LEMMA InvInit == Init => Inv
BY DEF Init, Inv, Clock, OffForCause, EmptyIsEarned, Earned, CutoffEarned, NewPolicy

LEMMA ClockKept == Clock /\ [Next]_vars /\ (empties \subseteq Nat)' => Clock'
<1> SUFFICES ASSUME Clock, [Next]_vars, (empties \subseteq Nat)'
             PROVE  Clock'
  OBVIOUS
<1> USE DEF Clock, shownVars
<1>1. CASE Boot
  BY <1>1 DEF Boot
<1>2. CASE WaitPass
  BY <1>2 DEF WaitPass
<1>3. CASE HostConnects \/ ControllerLost
  BY <1>3 DEF HostConnects, ControllerLost, StartWatch
<1>4. CASE SearchPass
  BY <1>4 DEF SearchPass
<1>5. CASE ControllerFound
  BY <1>5 DEF ControllerFound
<1>6. CASE PollPass
  BY <1>6 DEF PollPass
<1>7. CASE HostDrops
  BY <1>7 DEF HostDrops
<1>8. CASE Sleep \/ Update \/ Plug
  BY <1>8 DEF Sleep, Update, Plug
<1>9. CASE Reset
  BY <1>9 DEF Reset
<1>10. CASE Tick
  BY <1>10 DEF Tick
<1>11. CASE UNCHANGED vars
  BY <1>11 DEF vars, historyVars
<1> QED
  BY <1>1, <1>2, <1>3, <1>4, <1>5, <1>6, <1>7, <1>8, <1>9, <1>10, <1>11 DEF Next

LEMMA InvNext == Inv /\ [Next]_vars => Inv'
<1> SUFFICES ASSUME Inv, [Next]_vars
             PROVE  OffForCause' /\ EmptyIsEarned' /\ CutoffEarned' /\ (empties \subseteq Nat)'
  BY ClockKept DEF Inv
<1> USE DEF shownVars, historyVars
<1>0. now \in Nat /\ (phase # "Off" => cause = None)
  BY DEF Inv, Clock, OffForCause
<1>1. CASE Boot
  BY <1>0, <1>1, SampleKeeps DEF Boot
<1>2. CASE WaitPass
  BY <1>0, <1>2, DueSampleKeeps DEF WaitPass
<1>3. CASE HostConnects
  BY <1>0, <1>3, SampleKeeps DEF HostConnects, StartWatch
<1>4. CASE ControllerLost
  BY <1>0, <1>4, SampleKeeps DEF ControllerLost, StartWatch
<1>5. CASE SearchPass
  BY <1>0, <1>5, DueSampleKeeps DEF SearchPass, Searching
<1>6. CASE PollPass
  BY <1>0, <1>6, DueSampleKeeps DEF PollPass
<1>7. CASE ControllerFound
  <2>1. /\ now' = now /\ policy' = policy /\ empties' = empties /\ board' = board
        /\ cause = None /\ now' \in Nat /\ now <= now'
    BY <1>0, <1>7 DEF ControllerFound, Searching
  <2>2. cause' = None
    BY <1>0, <1>7 DEF ControllerFound, Searching
  <2> QED
    BY <1>0, <2>1, <2>2, QuietKeeps
<1>8. CASE HostDrops
  <2>1. /\ now' = now /\ policy' = policy /\ empties' = empties /\ board' = board
        /\ cause = None /\ now' \in Nat /\ now <= now'
    BY <1>0, <1>8 DEF HostDrops, Searching
  <2>2. cause' = None
    BY <1>0, <1>8 DEF HostDrops, Searching
  <2> QED
    BY <1>0, <2>1, <2>2, QuietKeeps
<1>9. CASE Sleep
  <2>1. /\ now' = now /\ policy' = policy /\ empties' = empties /\ board' = board
        /\ cause = None /\ now' \in Nat /\ now <= now'
    BY <1>0, <1>9 DEF Sleep, Running
  <2>2. cause'.why = "Asked" /\ phase' = "Off"
    BY <1>0, <1>9 DEF Sleep, Running
  <2> QED
    BY <1>0, <2>1, <2>2, QuietKeeps
<1>10. CASE Update
  <2>1. /\ now' = now /\ policy' = policy /\ empties' = empties /\ board' = board
        /\ now' \in Nat /\ now <= now'
    BY <1>0, <1>10 DEF Update
  <2> QED
    BY <1>0, <1>10, <2>1, QuietKeeps DEF Update
<1>11. CASE Reset
  BY <1>11 DEF Reset, OffForCause, EmptyIsEarned, Earned, CutoffEarned, NewPolicy
<1>12. CASE Plug
  BY <1>0, <1>12 DEF Plug, Inv, Clock, OffForCause, EmptyIsEarned, CutoffEarned, Linked, Spans
<1>13. CASE Tick
  <2>1. /\ policy' = policy /\ empties' = empties /\ board' = board
        /\ cause = None /\ now' \in Nat /\ now <= now'
    BY <1>0, <1>13 DEF Tick, Running
  <2>2. cause' = None
    BY <1>0, <1>13 DEF Tick, Running
  <2> QED
    BY <1>0, <2>1, <2>2, QuietKeeps
<1>14. CASE UNCHANGED vars
  BY <1>0, <1>14 DEF vars, Inv, Clock, OffForCause, EmptyIsEarned, CutoffEarned, Linked, Spans
<1> QED
  BY <1>1, <1>2, <1>3, <1>4, <1>5, <1>6, <1>7, <1>8, <1>9, <1>10, <1>11, <1>12, <1>13, <1>14
  DEF Next

(* A gauge powers the unit down only on evidence gathered over the span of   *)
(* the phase it is in, for every schedule of phases and readings             *)
(* (Policy::observe, lib.rs:230-248). *)
THEOREM CutoffIsEarned == Spec => []CutoffEarned
<1>1. Inv => CutoffEarned
  BY DEF Inv
<1> QED
  BY <1>1, InvInit, InvNext, PTL DEF Spec
---------------------------------------------------------------------------
(* The flat cell *)

LEMMA Intervals ==
  /\ NormalInterval \in Nat \ {0} /\ FastInterval \in Nat /\ FastInterval <= NormalInterval
  /\ SpanSearching <= SpanNormal /\ CountedInterval \in Nat /\ CountedInterval <= MaxGap
  /\ CountedInterval = NormalInterval + MinSpacing - 1
BY Constants, BatteryAssumption, CadenceAssumption DEF CountedInterval

LEMMA OneMoreInterval ==
  ASSUME NEW n \in Nat, NEW c \in Nat
  PROVE  n * c \in Nat /\ (n - 1) * c \in Int /\ (n - 1) * c + c = n * c
         /\ (n >= 1 => (n - 1) * c >= 0)
OBVIOUS

LEMMA MoreIntervals ==
  ASSUME NEW n \in Nat, NEW m \in Int, NEW c \in Nat, n <= m
  PROVE  m * c \in Int /\ n * c <= m * c
<1>1. PICK k \in Nat : m = n + k
  BY m - n \in Nat
<1>2. m * c = n * c + k * c /\ k * c \in Nat /\ n * c \in Nat
  BY <1>1
<1> QED
  BY <1>2

(* Gathering keeps the order of what it gathers. *)
LEMMA GatheredIsOrdered ==
  ASSUME NEW e, NEW time \in Nat, e # None => Ordered(e, time)
  PROVE  Ordered(Gathered(e, time), time) /\ Gathered(e, time) # None
<1> SUFFICES Ordered(Gathered(e, time), time)
  BY Constants DEF Ordered
<1>1. CASE ~GoesOn(e, time)
  BY <1>1 DEF Gathered, Ordered, Evidence
<1>2. CASE GoesOn(e, time) /\ ~Counts(e, time)
  BY <1>2 DEF Gathered, GoesOn
<1>3. CASE GoesOn(e, time) /\ Counts(e, time)
  <2> DEFINE n == IF e.counted < U8Max THEN e.counted + 1 ELSE U8Max
             g == [e EXCEPT !.last_counted = time, !.counted = n]
  <2>1. Ordered(e, time)
    BY <1>3 DEF GoesOn
  <2>2. n \in Nat /\ n >= 1
    BY <2>1, Constants DEF Ordered, Evidence
  <2>3. Gathered(e, time) = g
    BY <1>3 DEF Gathered
  <2> HIDE DEF n
  <2>4. g \in Evidence /\ g.first_counted = e.first_counted /\ g.last_counted = time
        /\ g.counted = n
    BY <2>1, <2>2 DEF Ordered, Evidence
  <2> HIDE DEF g
  <2>5. Ordered(g, time)
    BY <2>1, <2>2, <2>4 DEF Ordered, Evidence
  <2> QED
    BY <2>3, <2>5
<1> QED
  BY <1>1, <1>2, <1>3

(* Evidence that a flat reading leaves unconfirmed still falls short. *)
LEMMA GatheredIsShort ==
  ASSUME NEW e, NEW obs, NEW time \in Nat, NEW context, NEW can_sleep,
         e # None => Ordered(e, time), Short(e),
         ~Clears(obs, can_sleep), ReadsEmpty(obs), obs.charging # None,
         ~Confirmed(e, obs, time, context, can_sleep)
  PROVE  Short(Gathered(e, time))
<1> DEFINE g == Gathered(e, time)
<1>1. CASE ~Counts(e, time)
  BY <1>1 DEF Gathered, Counts
<1>2. CASE Counts(e, time)
  <2>1. g.counted < EmptyReads \/ Elapsed(g.first_counted, g.last_counted) < Span(context)
    <3>1. ~(g.counted >= EmptyReads /\ Elapsed(g.first_counted, g.last_counted) >= Span(context))
      BY <1>2 DEF Confirmed
    <3>2. Ordered(g, time)
      BY GatheredIsOrdered
    <3> HIDE DEF g
    <3> QED
      BY <3>1, <3>2, Constants DEF Elapsed, Span, Ordered, Evidence
  <2>2. Ordered(g, time)
    BY GatheredIsOrdered
  <2> HIDE DEF g
  <2>3. Short(g)
    BY <2>1, <2>2, Constants, Intervals DEF Elapsed, Span, Ordered, Evidence, Short
  <2> QED
    BY <2>3 DEF g
<1> QED
  BY <1>1, <1>2

(* The first flat reading, whatever evidence it finds. *)
LEMMA FirstIsReached ==
  ASSUME NEW e, NEW time \in Nat, e # None => Ordered(e, time)
  PROVE  Reached(Gathered(e, time), time, time)
<1> DEFINE g == Gathered(e, time)
<1>1. Ordered(g, time)
  BY GatheredIsOrdered
<1>2. time - g.last_counted <= MinSpacing - 1
  <2>1. CASE ~GoesOn(e, time)
    BY <2>1, Constants DEF Gathered
  <2>2. CASE GoesOn(e, time) /\ ~Counts(e, time)
    BY <2>2, Constants DEF Gathered, GoesOn, Counts, Elapsed, Ordered, Evidence
  <2>3. CASE GoesOn(e, time) /\ Counts(e, time)
    BY <2>3, Constants DEF Gathered, GoesOn, Ordered, Evidence
  <2> QED
    BY <2>1, <2>2, <2>3
<1> HIDE DEF g
<1>3. g.last_counted - time <= 0 /\ (g.counted - 1) * CountedInterval >= 0
      /\ (g.counted - 1) * CountedInterval \in Int
  BY <1>1, Intervals, OneMoreInterval DEF Ordered, Evidence
<1>4. Reached(g, time, time)
  BY <1>1, <1>2, <1>3 DEF Reached, Ordered, Evidence
<1> QED
  BY <1>4 DEF g

(* The next one: too soon, and the last that counted is still near; or it   *)
(* counts, in reach of that one. *)
LEMMA NextIsReached ==
  ASSUME NEW e, NEW since \in Nat, NEW attempt \in Nat, NEW time \in Nat,
         Reached(e, since, attempt), e # None, attempt <= time, since <= time,
         time - attempt <= NormalInterval
  PROVE  Reached(Gathered(e, time), since, time)
<1>1. e \in Evidence /\ e.counted >= 1 /\ e.first_counted <= e.last_counted
      /\ e.last_counted <= attempt /\ e.first_counted <= since
      /\ attempt - e.last_counted <= MinSpacing - 1
  BY DEF Reached, Ordered
<1>2. time - e.last_counted <= CountedInterval /\ e.last_counted <= time
  BY <1>1, Intervals, Constants DEF Evidence
<1>3. GoesOn(e, time)
  BY <1>1, <1>2, Intervals, Constants DEF GoesOn, Elapsed, Evidence
<1>4. Ordered(e, time)
  BY <1>1, <1>2 DEF Ordered
<1>5. CASE ~Counts(e, time)
  <2>1. time - e.last_counted <= MinSpacing - 1
    BY <1>1, <1>2, <1>5, Constants DEF Counts, Elapsed, Evidence
  <2> QED
    BY <1>3, <1>4, <1>5, <2>1 DEF Gathered, Reached
<1>6. CASE Counts(e, time)
  <2> DEFINE g == Gathered(e, time)
  <2>1. Ordered(g, time)
    BY <1>4, GatheredIsOrdered
  <2>2. /\ g.last_counted = time /\ g.first_counted = e.first_counted
        /\ g.counted = IF e.counted < U8Max THEN e.counted + 1 ELSE U8Max
    BY <1>1, <1>3, <1>6 DEF Gathered, Evidence
  <2> HIDE DEF g
  <2>3. CASE e.counted >= EmptyReads
    <3>1. g.counted >= EmptyReads
      BY <1>1, <2>2, <2>3, Constants, PolicyAssumption DEF Evidence
    <3>2. Reached(g, since, time)
      BY <1>1, <2>1, <2>2, <3>1, Constants DEF Reached, Evidence
    <3> QED
      BY <3>2 DEF g
  <2>4. CASE e.counted < EmptyReads
    <3> DEFINE n == e.counted
               m == (n - 1) * CountedInterval
    <3>1. n \in Nat /\ g.counted = n + 1 /\ g.counted - 1 = n
      BY <1>1, <2>2, <2>4, Constants, PolicyAssumption DEF Evidence
    <3>2. m \in Int /\ m + CountedInterval = n * CountedInterval
      BY <3>1, Intervals, OneMoreInterval
    <3>3. e.last_counted - since <= m
      BY <1>1, <2>4, Constants DEF Reached, Evidence
    <3> HIDE DEF n, m
    <3>4. time - since <= n * CountedInterval
      BY <1>1, <1>2, <3>2, <3>3, Intervals DEF Evidence
    <3>5. Reached(g, since, time)
      BY <1>1, <2>1, <2>2, <3>1, <3>4, Constants DEF Reached, Evidence
    <3> QED
      BY <3>5 DEF g
  <2> QED
    BY <1>1, <2>3, <2>4, Constants DEF Evidence
<1> QED
  BY <1>5, <1>6

LEMMA SampleReaches ==
  ASSUME FlatInv, Running, UNCHANGED <<now, board>>,
         NEW obs \in Readings[board] \cup {NoReading}, NEW context, NEW next,
         Sample(obs, context, next)
  PROVE  Cadence' /\ EvidenceIsOrdered' /\ EvidenceIsShort' /\ FlatIsReached'
<1>0. now' = now /\ board' = board /\ last_attempt' = now
  BY DEF Sample
<1>1. obs \in Observation /\ now \in Nat
  BY ReadingsObserve DEF FlatInv, Clock
<1>2. Cadence'
  BY <1>0, <1>1, Intervals DEF Cadence
<1>3. CASE board = "dk"
  <2>1. policy' = policy /\ flat' = flat /\ flat = None
    BY <1>3 DEF Sample, historyVars, FlatInv, FlatIsReached, CanSleep
  <2> QED
    BY <1>0, <1>2, <2>1 DEF FlatInv, EvidenceIsOrdered, EvidenceIsShort, FlatIsReached
<1>4. CASE board # "dk"
  <2> DEFINE e == policy.empty
             d == Decision(e, obs, now, context, CanSleep)
  <2>1. policy'.empty = EmptyAfter(e, obs, now, CanSleep) /\ CanSleep /\ CanSleep'
    BY <1>0, <1>4 DEF Sample, Observe, CanSleep
  <2>2. flat' = IF ~Flat(obs) \/ ~CanSleep THEN None ELSE IF flat = None THEN now ELSE flat
    BY <1>4 DEF Sample, Remembered
  <2>3. d # "Continue" => ~Running'
    BY <1>4 DEF Sample, Running
  <2>4. (e # None => Ordered(e, now)) /\ Short(e)
    BY DEF FlatInv, EvidenceIsOrdered, EvidenceIsShort
  <2>5. CASE Clears(obs, CanSleep)
    <3>1. policy'.empty = None
      BY <2>1, <2>5 DEF EmptyAfter
    <3>2. flat' = None
      BY <1>1, <2>1, <2>2, <2>5, Constants DEF Clears, Flat, ReadsEmpty, Observation, Maybe
    <3> QED
      BY <1>2, <3>1, <3>2 DEF EvidenceIsOrdered, EvidenceIsShort, FlatIsReached, Short
  <2>6. CASE ~Clears(obs, CanSleep) /\ ReadsEmpty(obs) /\ obs.charging # None
    <3>1. policy'.empty = Gathered(e, now)
      BY <2>1, <2>6 DEF EmptyAfter
    <3>2. Ordered(Gathered(e, now), now)
      BY <1>1, <2>4, GatheredIsOrdered
    <3>3. d = "Continue" => ~Confirmed(e, obs, now, context, CanSleep)
      BY DEF Decision
    <3>4. d = "Continue" => Short(Gathered(e, now))
      BY <1>1, <2>4, <2>6, <3>3, GatheredIsShort
    <3>5. FlatIsReached'
      <4>1. CASE flat = None
        <5>1. Reached(Gathered(e, now), now, now)
          BY <1>1, <2>4, FirstIsReached
        <5>2. flat' \in {None, now} /\ policy'.empty # None
          BY <1>1, <2>2, <2>4, <3>1, <4>1, GatheredIsOrdered
        <5>3. flat' # None => Reached(policy.empty, flat, last_attempt)'
          BY <1>0, <3>1, <5>1, <5>2
        <5>4. flat' # None => flat' \in Nat /\ flat' <= now'
          BY <1>0, <1>1, <5>2
        <5> QED
          BY <2>1, <5>2, <5>3, <5>4 DEF FlatIsReached
      <4>2. CASE flat # None
        <5>1. /\ flat \in Nat /\ flat <= now /\ Reached(e, flat, last_attempt)
              /\ last_attempt \in Nat /\ last_attempt <= now
              /\ now - last_attempt <= NormalInterval
          BY <4>2 DEF FlatInv, FlatIsReached, Cadence
        <5>2. e # None
          BY <4>2 DEF FlatInv, FlatIsReached
        <5>3. Reached(Gathered(e, now), flat, now)
          BY <1>1, <5>1, <5>2, NextIsReached
        <5>4. flat' \in {None, flat} /\ policy'.empty # None
          BY <1>1, <2>2, <2>4, <3>1, <4>2, GatheredIsOrdered
        <5> QED
          BY <1>0, <2>1, <3>1, <5>1, <5>3, <5>4 DEF FlatIsReached
      <4> QED
        BY <4>1, <4>2
    <3>6. EvidenceIsOrdered' /\ EvidenceIsShort'
      BY <1>0, <2>3, <3>1, <3>2, <3>4 DEF EvidenceIsOrdered, EvidenceIsShort
    <3> QED
      BY <1>2, <3>5, <3>6
  <2>7. CASE ~Clears(obs, CanSleep) /\ ~(ReadsEmpty(obs) /\ obs.charging # None)
    <3>1. ~Flat(obs)
      BY <2>7, Constants DEF Flat
    <3>2. policy'.empty = e /\ flat' = None
      BY <2>1, <2>2, <2>7, <3>1 DEF EmptyAfter
    <3> QED
      BY <1>0, <1>2, <2>4, <3>2 DEF EvidenceIsOrdered, EvidenceIsShort, FlatIsReached
  <2> QED
    BY <2>5, <2>6, <2>7
<1> QED
  BY <1>3, <1>4

(* A pass that may read leaves the attempt younger than the interval. *)
LEMMA DueSampleReaches ==
  ASSUME FlatInv, Running, UNCHANGED <<now, board>>,
         NEW obs \in Readings[board] \cup {NoReading}, NEW context,
         SampleWhenDue(obs, context)
  PROVE  Cadence' /\ EvidenceIsOrdered' /\ EvidenceIsShort' /\ FlatIsReached'
<1>1. CASE Due(context)
  BY <1>1, SampleReaches DEF SampleWhenDue
<1>2. CASE ~Due(context)
  <2>1. /\ policy' = policy /\ last_attempt' = last_attempt /\ flat' = flat /\ phase' = phase
        /\ now' = now /\ board' = board
    BY <1>2 DEF SampleWhenDue, NoSample, historyVars
  <2>2. now - last_attempt < NormalInterval
    BY <1>2, Intervals DEF Due, Elapsed, FlatInv, Clock, Cadence
  <2> QED
    BY <2>1, <2>2 DEF FlatInv, Cadence, EvidenceIsOrdered, EvidenceIsShort, FlatIsReached,
                      Running, CanSleep
<1> QED
  BY <1>1, <1>2

(* A step that reads nothing and lets no time pass. *)
LEMMA QuietReaches ==
  ASSUME FlatInv, UNCHANGED <<now, board, policy, last_attempt, flat>>,
         passed' = FALSE \/ passed' = passed, Running \/ ~Running'
  PROVE  Cadence' /\ EvidenceIsOrdered' /\ EvidenceIsShort' /\ FlatIsReached'
BY DEF FlatInv, Cadence, EvidenceIsOrdered, EvidenceIsShort, FlatIsReached, CanSleep

LEMMA FlatInit == Init => FlatInv
BY Intervals DEF Init, FlatInv, Clock, Cadence, EvidenceIsOrdered, EvidenceIsShort, Short,
                 FlatIsReached, NewPolicy

LEMMA FlatNext == Inv /\ FlatInv /\ [Next]_vars => FlatInv'
<1> SUFFICES ASSUME Inv, FlatInv, [Next]_vars
             PROVE  Cadence' /\ EvidenceIsOrdered' /\ EvidenceIsShort' /\ FlatIsReached'
  BY InvNext DEF FlatInv, Inv
<1> USE DEF shownVars, historyVars
<1>1. CASE Boot
  BY <1>1, SampleReaches DEF Boot, Running
<1>2. CASE WaitPass
  BY <1>2, DueSampleReaches DEF WaitPass, Running
<1>3. CASE HostConnects \/ ControllerLost
  BY <1>3, SampleReaches DEF HostConnects, ControllerLost, StartWatch, Running
<1>4. CASE SearchPass
  BY <1>4, DueSampleReaches DEF SearchPass, Searching, Running
<1>5. CASE PollPass
  BY <1>5, DueSampleReaches DEF PollPass, Running
<1>6. CASE ControllerFound \/ HostDrops \/ Sleep \/ Update \/ Plug
  BY <1>6, QuietReaches DEF ControllerFound, HostDrops, Sleep, Update, Plug, Searching, Running
<1>7. CASE Reset
  BY <1>7, Intervals DEF Reset, Cadence, EvidenceIsOrdered, EvidenceIsShort, Short, FlatIsReached,
                         NewPolicy
<1>8. CASE Tick
  <2>1. /\ passed /\ now' = now + 1 /\ passed' = FALSE /\ policy' = policy /\ flat' = flat
        /\ last_attempt' = last_attempt /\ phase' = phase /\ board' = board
    BY <1>8 DEF Tick
  <2>2. now \in Nat /\ last_attempt \in Nat
    BY DEF FlatInv, Clock, Cadence
  <2>3. Cadence'
    BY <2>1, <2>2, Intervals DEF FlatInv, Cadence
  <2>4. EvidenceIsOrdered'
    BY <2>1, <2>2 DEF FlatInv, EvidenceIsOrdered, Ordered, Evidence
  <2>5. EvidenceIsShort' /\ FlatIsReached'
    BY <2>1, <2>2 DEF FlatInv, EvidenceIsShort, FlatIsReached, Running, CanSleep
  <2> QED
    BY <2>3, <2>4, <2>5
<1>9. CASE UNCHANGED vars
  BY <1>9, QuietReaches DEF vars, Running
<1> QED
  BY <1>1, <1>2, <1>3, <1>4, <1>5, <1>6, <1>7, <1>8, <1>9 DEF Next

LEMMA FlatInTime == FlatInv => FlatCellGoesOff
<1> SUFFICES ASSUME FlatInv, Running, flat # None
             PROVE  \/ now - flat < SpanNormal + CountedInterval
                    \/ now - flat <= (EmptyReads - 1) * CountedInterval
  BY DEF FlatCellGoesOff
<1> DEFINE e == policy.empty
<1>1. /\ Reached(e, flat, last_attempt) /\ flat \in Nat /\ now \in Nat
      /\ last_attempt \in Nat /\ last_attempt <= now /\ now - last_attempt <= NormalInterval
  BY DEF FlatInv, FlatIsReached, Clock, Cadence
<1>2. /\ e \in Evidence /\ e.counted >= 1 /\ e.first_counted <= flat
      /\ last_attempt - e.last_counted <= MinSpacing - 1
  BY <1>1 DEF Reached, Ordered
<1>3. now - e.last_counted <= CountedInterval
  BY <1>1, <1>2, Intervals, Constants DEF Evidence
<1>4. e # None /\ Short(e)
  BY DEF FlatInv, EvidenceIsShort, FlatIsReached
<1>5. CASE e.counted < EmptyReads
  <2> DEFINE n == e.counted
             m == (n - 1) * CountedInterval
             k == n * CountedInterval
             all == (EmptyReads - 1) * CountedInterval
  <2>1. n \in Nat /\ n <= EmptyReads - 1 /\ EmptyReads - 1 \in Int
    BY <1>2, <1>5, Constants DEF Evidence
  <2>2. m \in Int /\ k \in Int /\ m + CountedInterval = k
    BY <2>1, Intervals, OneMoreInterval
  <2>3. k <= all /\ all \in Int
    BY <2>1, Intervals, MoreIntervals
  <2>4. e.last_counted - flat <= m
    BY <1>1, <1>2, <1>5, Constants DEF Reached, Evidence
  <2>5. e.last_counted \in Nat
    BY <1>2 DEF Evidence
  <2> HIDE DEF n, m, k, all, e
  <2>6. now - flat <= all
    BY <1>1, <1>3, <2>2, <2>3, <2>4, <2>5, Intervals
  <2> QED
    BY <2>6 DEF all
<1>6. CASE e.last_counted - e.first_counted < SpanNormal
  BY <1>1, <1>2, <1>3, <1>6, Intervals, Constants DEF Evidence
<1> QED
  BY <1>4, <1>5, <1>6 DEF Short

(* A cell that every reading finds flat and discharging keeps no unit on     *)
(* past the span and the readings it takes, through phase changes of any     *)
(* number and order (main.rs:567, lib.rs:287). *)
THEOREM FlatCellIsCutOff == Spec => []FlatCellGoesOff
BY InvInit, InvNext, FlatInit, FlatNext, FlatInTime, PTL DEF Spec
---------------------------------------------------------------------------
(* The displays *)

(* A level that a pass may show is fit to be shown. *)
LEMMA ShownFits == Clock /\ FactsAreRead => FitToShow(ShownPercent(policy, now, vbus))
<1> SUFFICES ASSUME Clock, FactsAreRead
             PROVE  FitToShow(ShownPercent(policy, now, vbus))
  OBVIOUS
<1>1. CASE vbus /\ Current(policy.charge_complete, now) = TRUE
  <2>1. policy.charge_complete # None /\ policy.charge_complete.value = TRUE
    BY <1>1, Constants DEF Current
  <2>2. now - full <= Expiry /\ full # None
    BY <1>1, <2>1, Constants DEF Clock, FactsAreRead, Current, Elapsed
  <2> QED
    BY <1>1, <2>2 DEF FitToShow, ShownPercent
<1>2. CASE ~(vbus /\ Current(policy.charge_complete, now) = TRUE)
  BY <1>2 DEF Clock, FactsAreRead, FitToShow, ShownPercent, Current, Elapsed
<1> QED
  BY <1>1, <1>2

LEMMA SampleReads ==
  ASSUME Clock, FactsAreRead, UNCHANGED <<now, board>>,
         NEW obs \in Readings[board] \cup {NoReading}, NEW context, NEW next,
         Sample(obs, context, next)
  PROVE  FactsAreRead'
<1>1. obs \in Observation /\ now \in Nat
  BY ReadingsObserve DEF Clock
<1>2. CASE board = "dk"
  BY <1>2 DEF Sample, historyVars, FactsAreRead
<1>3. CASE board # "dk"
  <2>1. /\ policy'.percent = Noted(policy.percent, obs.percent, now)
        /\ policy'.charge_complete = Noted(policy.charge_complete, obs.charge_complete, now)
        /\ Remembered(obs)
    BY <1>3 DEF Sample, Observe
  <2>3. obs.charge_complete \in BOOLEAN \cup {None}
    BY <1>1 DEF Observation, Maybe
  <2>4. (policy.percent # None =>
           /\ measured # None /\ policy.percent = measured
           /\ measured.at \in Nat /\ measured.at <= now)'
    BY <1>1, <2>1 DEF Noted, Remembered, FactsAreRead
  <2>5. (policy.charge_complete # None /\ policy.charge_complete.value = TRUE =>
           /\ full # None /\ policy.charge_complete.at = full
           /\ full \in Nat /\ full <= now)'
    BY <1>1, <2>1, <2>3, Constants DEF Noted, Remembered, FactsAreRead
  <2> QED
    BY <2>4, <2>5 DEF FactsAreRead
<1> QED
  BY <1>2, <1>3

LEMMA DueSampleReads ==
  ASSUME Clock, FactsAreRead, UNCHANGED <<now, board>>,
         NEW obs \in Readings[board] \cup {NoReading}, NEW context,
         SampleWhenDue(obs, context)
  PROVE  FactsAreRead'
<1>1. CASE Due(context)
  BY <1>1, SampleReads DEF SampleWhenDue
<1>2. CASE ~Due(context)
  BY <1>2 DEF SampleWhenDue, NoSample, historyVars, FactsAreRead
<1> QED
  BY <1>1, <1>2

LEMMA PhaseOfSample ==
  ASSUME NEW obs, NEW context, NEW next, Sample(obs, context, next)
  PROVE  phase' \in {next, "Off"}
BY DEF Sample

LEMMA PhaseOfDueSample ==
  ASSUME NEW obs, NEW context, SampleWhenDue(obs, context)
  PROVE  phase' \in {phase, "Off"}
BY PhaseOfSample DEF SampleWhenDue, NoSample

LEMMA ShownInit == Init => ShownInv
BY DEF Init, ShownInv, Clock, FactsAreRead, ShownIsCurrent, NewPolicy

LEMMA FactsKept == Clock /\ FactsAreRead /\ [Next]_vars => FactsAreRead'
<1> SUFFICES ASSUME Clock, FactsAreRead, [Next]_vars
             PROVE  FactsAreRead'
  OBVIOUS
<1> USE DEF shownVars, historyVars
<1>1. CASE Boot
  BY <1>1, SampleReads DEF Boot
<1>2. CASE WaitPass
  BY <1>2, DueSampleReads DEF WaitPass
<1>3. CASE HostConnects \/ ControllerLost
  BY <1>3, SampleReads DEF HostConnects, ControllerLost, StartWatch
<1>4. CASE SearchPass
  BY <1>4, DueSampleReads DEF SearchPass
<1>5. CASE PollPass
  BY <1>5, DueSampleReads DEF PollPass
<1>6. CASE ControllerFound \/ HostDrops \/ Sleep \/ Update \/ Plug
  BY <1>6 DEF ControllerFound, HostDrops, Sleep, Update, Plug, FactsAreRead
<1>7. CASE Reset
  BY <1>7 DEF Reset, FactsAreRead, NewPolicy
<1>8. CASE Tick
  BY <1>8 DEF Tick, Clock, FactsAreRead
<1>9. CASE UNCHANGED vars
  BY <1>9 DEF vars, FactsAreRead
<1> QED
  BY <1>1, <1>2, <1>3, <1>4, <1>5, <1>6, <1>7, <1>8, <1>9 DEF Next

LEMMA ShownNext == Inv /\ ShownInv /\ [Next]_vars => ShownInv'
<1> SUFFICES ASSUME Inv, ShownInv, [Next]_vars
             PROVE  ShownInv'
  OBVIOUS
<1>1. Clock' /\ FactsAreRead'
  BY InvNext, FactsKept DEF Inv, ShownInv
<1> SUFFICES ShownIsCurrent'
  BY <1>1 DEF ShownInv
<1>2. FitToShow(ShownPercent(policy, now, vbus))'
  BY <1>1, ShownFits, PTL
<1>3. CASE ~passed'
  BY <1>3 DEF ShownIsCurrent
<1>4. CASE SearchPass
  <2>1. /\ bars' = IF Elapsed(started, now) < Grace THEN bars
                   ELSE ShownPercent(policy', now, vbus)
        /\ now' = now /\ vbus' = vbus /\ started' = started
    BY <1>4 DEF SearchPass
  <2>2. phase' # "Poll"
    BY <1>4, PhaseOfDueSample DEF SearchPass, Searching
  <2>3. CASE Elapsed(started, now) < Grace
    <3>1. ~(now' - started' >= Grace)
      BY <2>1, <2>3, Constants DEF ShownInv, Clock, Elapsed
    <3> QED
      BY <2>2, <3>1 DEF ShownIsCurrent
  <2>4. CASE ~(Elapsed(started, now) < Grace)
    <3>1. bars' = ShownPercent(policy, now, vbus)'
      BY <2>1, <2>4
    <3>2. FitToShow(bars)'
      BY <1>2, <3>1 DEF FitToShow
    <3> QED
      BY <2>2, <3>2 DEF ShownIsCurrent
  <2> QED
    BY <2>3, <2>4
<1>5. CASE PollPass
  <2>1. PICK mask \in Maybe(BOOLEAN), gone \in BOOLEAN :
          LET known == screen.known \/ mask # None
              present == mask = TRUE \/ (screen.present /\ ~gone)
              percent == ShownPercent(policy', now, vbus)
          IN  /\ screen' = [usb |-> vbus, percent |-> percent,
                            charging |-> (Current(policy'.charging, now) = TRUE),
                            present |-> present, known |-> known]
              /\ bars' = IF ~known THEN bars ELSE IF present THEN None ELSE percent
    BY <1>5 DEF PollPass
  <2>6. /\ now' = now /\ vbus' = vbus
        /\ screen'.percent = ShownPercent(policy', now, vbus)
        /\ screen'.known => bars' = None \/ bars' = ShownPercent(policy', now, vbus)
    BY <1>5, <2>1 DEF PollPass
  <2>2. ~Searching'
    BY <1>5, PhaseOfDueSample DEF PollPass, Searching
  <2>3. screen'.percent = ShownPercent(policy, now, vbus)'
    BY <2>6
  <2>4. FitToShow(screen.percent)'
    BY <1>2, <2>3 DEF FitToShow
  <2>5. screen'.known => FitToShow(bars)'
    BY <1>2, <2>6, <2>3 DEF FitToShow
  <2> QED
    BY <2>2, <2>4, <2>5 DEF ShownIsCurrent
<1>6. CASE WaitPass
  <2>1. phase' # "Poll" /\ ~Searching'
    BY <1>6, PhaseOfDueSample DEF WaitPass, Searching
  <2> QED
    BY <2>1 DEF ShownIsCurrent
<1>7. CASE Sleep \/ Update
  BY <1>7 DEF Sleep, Update, ShownIsCurrent, Searching
<1>8. CASE UNCHANGED vars
  BY <1>8 DEF vars, shownVars, historyVars, ShownInv, ShownIsCurrent, Searching, FitToShow
<1>9. CASE Boot
  <2>1. phase' # "Poll" /\ ~Searching'
    BY <1>9, PhaseOfSample DEF Boot, Searching
  <2> QED
    BY <2>1 DEF ShownIsCurrent
<1> QED
  <2>1. CASE HostConnects \/ ControllerLost \/ ControllerFound \/ HostDrops \/ Reset \/ Tick \/ Plug
    BY <1>3, <2>1 DEF HostConnects, ControllerLost, StartWatch, ControllerFound, HostDrops,
                      Reset, Tick, Plug
  <2> QED
    BY <1>4, <1>5, <1>6, <1>7, <1>8, <1>9, <2>1 DEF Next

(* No pass leaves a level that expired on the strip or on the VMU, whatever  *)
(* reads failed since (main.rs:574, 2829). *)
THEOREM ShownLevelsAreCurrent == Spec => []ShownIsCurrent
<1>1. Inv /\ ShownInv => ShownIsCurrent
  BY DEF ShownInv
<1> QED
  BY <1>1, InvInit, InvNext, ShownInit, ShownNext, PTL DEF Spec
=============================================================================
