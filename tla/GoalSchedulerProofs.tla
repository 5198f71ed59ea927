------------------------- MODULE GoalSchedulerProofs -------------------------
(***************************************************************************)
(* Proofs about GoalScheduler, for any schedulers, schedules, bounds and    *)
(* times.  A step is planned (PlanIs) so that it moves the cursor on and    *)
(* handles just what lies between; the store takes it only from where it    *)
(* was planned (Known), where nothing past the cursor was ever touched      *)
(* (Untouched); so what is recorded follows the cursor (RecordInv).  Turns   *)
(* are fair because whoever is before a schedule in the queue is nearer to   *)
(* it than its waits so far leave room for (TurnInv).                        *)
(***************************************************************************)
EXTENDS GoalScheduler, FiniteSetTheorems, WellFoundedInduction, TLAPS

-----------------------------------------------------------------------------
(* Numbers, and the instants at which a schedule is due. *)

(* A set of numbers that has 0 and the successor of each has them all.      *)
LEMMA CountingUp ==
  ASSUME NEW N, N \subseteq Nat, 0 \in N, \A n \in N : n + 1 \in N
  PROVE  N = Nat
<1> DEFINE T == Nat \ N
           R == {d \in Nat \X Nat : d[1] < d[2]}
<1>1. R = OpToRel(<, Nat)
  BY DEF OpToRel
<1>2. ASSUME T # {} PROVE FALSE
  <2> HIDE DEF T, R
  <2>1. IsWellFoundedOn(R, Nat)
    BY <1>1, NatLessThanWellFounded
  <2>2. PICK n \in T : \A m \in T : ~(<<m, n>> \in R)
    <3>1. T \subseteq Nat
      BY DEF T
    <3> QED BY <1>2, <2>1, <3>1, WFMin
  <2>3. n \in Nat /\ n \notin N /\ n # 0
    BY <2>2 DEF T
  <2>4. n - 1 \in Nat /\ n - 1 \notin N
    <3>1. n - 1 \in Nat /\ (n - 1) + 1 = n
      BY <2>3
    <3> QED BY <2>3, <3>1
  <2>5. <<n - 1, n>> \in R
    BY <2>3, <2>4 DEF R
  <2> QED BY <2>2, <2>4, <2>5 DEF T
<1> QED BY <1>2

(* A bounded set of numbers has a greatest one, and Max is that one. *)
LEMMA MaxIs ==
  ASSUME NEW S, S \subseteq Nat, S # {}, NEW bound \in Nat, \A x \in S : x <= bound
  PROVE  Max(S) \in S /\ \A x \in S : Max(S) >= x
<1>0. ASSUME \E x \in S : \A y \in S : x >= y
     PROVE  Max(S) \in S /\ \A y \in S : Max(S) >= y
  BY <1>0, Zenon DEF Max
<1> SUFFICES ASSUME \A x \in S : \E y \in S : ~(x >= y)
             PROVE  FALSE
  BY <1>0
<1> DEFINE M == {n \in Nat : \E x \in S : x >= n}
<1>1. M \subseteq Nat /\ 0 \in M
  <2>1. PICK x : x \in S
    OBVIOUS
  <2>2. x \in Nat /\ x >= 0
    BY <2>1
  <2> QED BY <2>1, <2>2
<1>2. \A n \in M : n + 1 \in M
  <2> TAKE n \in M
  <2>1. PICK x \in S : x >= n
    OBVIOUS
  <2>2. PICK y \in S : ~(x >= y)
    OBVIOUS
  <2> QED BY <2>1, <2>2
<1>3. bound + 1 \notin M
  OBVIOUS
<1> HIDE DEF M
<1>4. M = Nat
  BY <1>1, <1>2, CountingUp
<1> QED BY <1>3, <1>4

(* A multiple is its quotient times the interval. *)
LEMMA Multiples ==
  ASSUME NEW t \in Nat, NEW e \in Nat \ {0}, t % e = 0
  PROVE  t \div e \in Nat /\ t = (t \div e) * e
  BY SMTT(60)

\* What is that many intervals is a multiple.
LEMMA Products ==
  ASSUME NEW p \in Nat, NEW e \in Nat \ {0}
  PROVE  (p * e) % e = 0
  OBVIOUS

(* The next multiple of an interval after an instant. *)
LEMMA NextIsNext ==
  ASSUME NEW spec \in [every : Nat \ {0}, catchUp : {"latest", "all", "none"}], NEW a \in Nat
  PROVE  /\ NextAfter(spec, a) \in Nat /\ NextAfter(spec, a) > a
         /\ NextAfter(spec, a) % spec.every = 0
         /\ \A t \in Nat : t > a /\ t % spec.every = 0 => t >= NextAfter(spec, a)
<1>0. PICK e \in Nat \ {0} : e = spec.every
  OBVIOUS
<1> DEFINE q == a \div e
<1>1. q \in Nat /\ q * e <= a /\ a < (q + 1) * e
  BY SMTT(60)
<1>2. ((q + 1) * e) % e = 0
  <2>1. q + 1 \in Nat
    BY <1>1
  <2> HIDE DEF q
  <2> QED BY <2>1, Products
<1>3. ASSUME NEW t \in Nat, t > a, t % e = 0
      PROVE  t >= (q + 1) * e
  <2> DEFINE p == t \div e
  <2>1. p \in Nat /\ t = p * e
    BY <1>0, <1>3, Multiples
  <2> HIDE DEF p, q
  <2>2. p * e > q * e
    BY <1>1, <1>3, <2>1
  <2>3. p > q
    BY <1>1, <2>1, <2>2, SMTT(30)
  <2>4. p >= q + 1
    BY <1>1, <2>1, <2>3
  <2>5. p * e >= (q + 1) * e
    BY <1>1, <2>1, <2>4, SMTT(30)
  <2> QED BY <2>1, <2>5
<1>4. NextAfter(spec, a) = (q + 1) * e
  BY <1>0 DEF NextAfter
<1>5. (q + 1) * e \in Nat
  BY <1>1
<1> HIDE DEF q
<1> QED BY <1>0, <1>1, <1>2, <1>3, <1>4, <1>5

Specifications == [every : Nat \ {0}, catchUp : {"latest", "all", "none"}]

(* A nonempty set of numbers has a least one. *)
LEMMA LeastOf ==
  ASSUME NEW S, S \subseteq Nat, S # {}
  PROVE  \E x \in S : \A y \in S : x <= y
<1> DEFINE R == {d \in Nat \X Nat : d[1] < d[2]}
<1>1. R = OpToRel(<, Nat)
  BY DEF OpToRel
<1> HIDE DEF R
<1>2. IsWellFoundedOn(R, Nat)
  BY <1>1, NatLessThanWellFounded
<1>3. PICK x \in S : \A y \in S : ~(<<y, x>> \in R)
  BY <1>2, WFMin
<1>4. \A y \in S : ~(y < x)
  BY <1>3 DEF R
<1> QED BY <1>4

\* The occurrences of a stretch of time, finitely many.
LEMMA BetweenIs ==
  ASSUME NEW spec, NEW from \in Nat, NEW to \in Nat
  PROVE  /\ Between(spec, from, to) \subseteq Nat
         /\ \A t : t \in Between(spec, from, to) <=>
                     t \in Nat /\ from < t /\ t <= to /\ t % spec.every = 0
         /\ IsFiniteSet(Between(spec, from, to))
<1>1. IsFiniteSet(0..to)
  BY FS_Interval
<1>2. Between(spec, from, to) \subseteq 0..to
  BY DEF Between
<1>3. IsFiniteSet(Between(spec, from, to))
  BY <1>1, <1>2, FS_Subset
<1> QED BY <1>3 DEF Between

(* Down-closed: with an occurrence, every earlier one. *)
Closed(D, all) == D \subseteq all /\ \A t \in D, u \in all : u < t => u \in D

(* The earliest of some occurrences: none is left out before one of them.   *)
LEMMA EarliestIs ==
  ASSUME NEW times, times \subseteq Nat, IsFiniteSet(times), NEW n \in Int, n >= 1
  PROVE  /\ Closed(Earliest(times, n), times)
         /\ times # {} => Earliest(times, n) # {}
<1> DEFINE before(t) == {u \in times : u < t}
<1>1. \A t : IsFiniteSet(before(t)) /\ Cardinality(before(t)) \in Nat
  BY FS_Subset, FS_CardinalityType
<1>2. Earliest(times, n) = {t \in times : Cardinality(before(t)) < n}
  BY DEF Earliest
<1>3. ASSUME NEW t \in times, NEW u \in times, u < t
      PROVE  Cardinality(before(u)) <= Cardinality(before(t))
  <2>1. before(u) \subseteq before(t)
    <3>1. ASSUME NEW v \in times, v < u PROVE v < t
      <4>1. v \in Nat /\ u \in Nat /\ t \in Nat
        OBVIOUS
      <4> QED BY <1>3, <3>1, <4>1
    <3> QED BY <3>1
  <2> QED BY <1>1, <2>1, FS_Subset
<1>4. ASSUME times # {} PROVE \E t \in times : Cardinality(before(t)) < n
  <2>1. PICK t \in times : \A u \in times : t <= u
    BY <1>4, LeastOf
  <2>2. before(t) = {}
    <3>1. \A u \in times : u \in Nat /\ t \in Nat
      BY <2>1
    <3>2. ASSUME NEW u \in times PROVE ~(u < t)
      BY <2>1, <3>1
    <3> QED BY <3>2
  <2> QED BY <2>1, <2>2, FS_EmptySet
<1> HIDE DEF before
<1>5. Closed(Earliest(times, n), times)
  <2>1. ASSUME NEW t \in Earliest(times, n), NEW u \in times, u < t
        PROVE  u \in Earliest(times, n)
    <3>1. t \in times /\ Cardinality(before(t)) < n
      BY <1>2, <2>1
    <3>2. Cardinality(before(u)) <= Cardinality(before(t))
      BY <1>3, <2>1, <3>1
    <3>3. Cardinality(before(u)) < n
      BY <1>1, <3>1, <3>2
    <3> QED BY <1>2, <3>3
  <2> QED BY <1>2, <2>1 DEF Closed
<1> QED BY <1>2, <1>4, <1>5

(* What is closed reaches up to its last occurrence. *)
LEMMA ClosedIs ==
  ASSUME NEW spec, NEW from \in Nat, NEW to \in Nat,
         NEW D, Closed(D, Between(spec, from, to)), D # {}
  PROVE  /\ Max(D) \in D /\ Max(D) \in Nat /\ from < Max(D) /\ Max(D) <= to
         /\ D = Between(spec, from, Max(D))
<1>1. D \subseteq Nat /\ \A t \in D : from < t /\ t <= to
  BY BetweenIs DEF Closed
<1>2. Max(D) \in D /\ \A t \in D : Max(D) >= t
  BY <1>1, MaxIs
<1>3. Max(D) \in Nat /\ from < Max(D) /\ Max(D) <= to
  BY <1>1, <1>2
<1>4. D \subseteq Between(spec, from, Max(D))
  BY <1>1, <1>2, <1>3, BetweenIs DEF Closed
<1>5. Between(spec, from, Max(D)) \subseteq D
  <2> SUFFICES ASSUME NEW t \in Between(spec, from, Max(D)) PROVE t \in D
    OBVIOUS
  <2>1. t \in Nat /\ from < t /\ t <= Max(D) /\ t % spec.every = 0
    BY <1>3, BetweenIs
  <2>2. t \in Between(spec, from, to)
    BY <1>3, <2>1, BetweenIs
  <2>3. CASE t = Max(D)
    BY <1>2, <2>3
  <2>4. CASE t < Max(D)
    BY <1>2, <2>2, <2>4 DEF Closed
  <2> QED BY <1>3, <2>1, <2>3, <2>4
<1> QED BY <1>2, <1>3, <1>4, <1>5

(* Nothing occurs before the next occurrence. *)
LEMMA NothingBefore ==
  ASSUME NEW spec \in Specifications, NEW from \in Nat, NEW to \in Nat
  PROVE  Between(spec, from, to) = {} <=> NextAfter(spec, from) > to
<1>1. /\ NextAfter(spec, from) \in Nat /\ NextAfter(spec, from) > from
      /\ NextAfter(spec, from) % spec.every = 0
      /\ \A t \in Nat : t > from /\ t % spec.every = 0 => t >= NextAfter(spec, from)
  BY NextIsNext DEF Specifications
<1> DEFINE next == NextAfter(spec, from)
<1>2. ASSUME NEW t \in Between(spec, from, to) PROVE next <= to
  <2>1. t \in Nat /\ from < t /\ t <= to /\ t % spec.every = 0
    BY BetweenIs
  <2> QED BY <1>1, <2>1
<1>3. next <= to => next \in Between(spec, from, to)
  BY <1>1, BetweenIs
<1> QED BY <1>1, <1>2, <1>3

(* The occurrences of a stretch are those of its parts. *)
LEMMA BetweenSplits ==
  ASSUME NEW spec, NEW a \in Nat, NEW b \in Nat, NEW c \in Nat, a <= b, b <= c
  PROVE  Between(spec, a, c) = Between(spec, a, b) \cup Between(spec, b, c)
<1>1. ASSUME NEW t \in Nat
      PROVE  (a < t /\ t <= c) <=> (a < t /\ t <= b) \/ (b < t /\ t <= c)
  OBVIOUS
<1>2. \A t : t \in Between(spec, a, c) <=> t \in Nat /\ a < t /\ t <= c /\ t % spec.every = 0
  BY BetweenIs
<1>3. \A t : t \in Between(spec, a, b) <=> t \in Nat /\ a < t /\ t <= b /\ t % spec.every = 0
  BY BetweenIs
<1>4. \A t : t \in Between(spec, b, c) <=> t \in Nat /\ b < t /\ t <= c /\ t % spec.every = 0
  BY BetweenIs
<1> QED BY <1>1, <1>2, <1>3, <1>4

\* Nothing occurs in an empty stretch.
LEMMA BetweenNothing ==
  ASSUME NEW spec, NEW a \in Nat, NEW b \in Nat, b <= a
  PROVE  Between(spec, a, b) = {}
  BY BetweenIs

-----------------------------------------------------------------------------
(* Plans. *)
Statuses == {"active", "paused", "cancelled"}
ScheduleRecords ==
  [status : Statuses, revision : Nat \ {0}, spec : Specifications, from : Nat,
   cursor : Nat, scanTo : Nat, base : Nat, opened : Nat]

Ordered(s, time) ==
  /\ s.from <= s.base /\ s.base <= s.opened /\ s.opened <= Start(s)
  /\ s.from <= time /\ s.cursor <= time /\ s.scanTo <= time
  /\ s.scanTo # NoTime => s.cursor < s.scanTo

\* A schedule counts from its cursor, or from where it was put.
LEMMA StartIs ==
  ASSUME NEW s \in ScheduleRecords
  PROVE  /\ Start(s) \in Nat /\ s.cursor <= Start(s) /\ s.from <= Start(s)
         /\ Start(s) = s.cursor \/ Start(s) = s.from
  BY DEF ScheduleRecords, Start, Larger

\* What a step of a schedule that stands at s may be.
Moves(s, p, time) ==
  /\ p.kind = "step"
  /\ p.toCursor \in Nat /\ p.scanTo \in Nat /\ p.scanned \in Int
  /\ s.cursor < p.toCursor /\ Start(s) <= p.toCursor /\ p.toCursor <= time
  /\ p.scanTo <= time /\ (p.scanTo # NoTime => p.toCursor < p.scanTo)
  /\ p.delivered \cup p.skipped = Between(s.spec, Start(s), p.toCursor)

\* Under "latest": a window goes on with something left in it and nothing
\* delivered, or ends with its newest occurrence delivered.
Catches(s, p, window) ==
  LET all == Between(s.spec, Start(s), p.toCursor)
  IN /\ p.scanTo # NoTime => p.delivered = {} /\ NextAfter(s.spec, p.toCursor) <= p.scanTo
     /\ window # NoTime /\ p.scanTo = NoTime /\ p.toCursor = window =>
          p.delivered = IF all = {} THEN {} ELSE {Max(all)}

LEMMA StepIs ==
  ASSUME NEW to, NEW scanTo, NEW delivered, NEW skipped, NEW scanned
  PROVE  LET p == Step(to, scanTo, delivered, skipped, scanned)
         IN /\ p.kind = "step" /\ p.toCursor = to /\ p.scanTo = scanTo
            /\ p.delivered = delivered /\ p.skipped = skipped /\ p.scanned = scanned
  BY DEF Step

\* What was found, up to where.
Finds(s, found, end, lim) ==
  /\ end \in Nat /\ Start(s) < end /\ end <= lim
  /\ found = Between(s.spec, Start(s), end)

(* The record cap cuts a scan short at the last occurrence it found. *)
LEMMA FoundIs ==
  ASSUME SchedulerAssumption, NEW s \in ScheduleRecords,
         NEW reach \in Nat, Start(s) < reach,
         NEW all, all = Between(s.spec, Start(s), reach),
         NEW found, found = Earliest(all, RecordCap),
         NEW end, end = IF found # all THEN Max(found) ELSE reach
  PROVE  Finds(s, found, end, reach)
<1>1. RecordCap \in Int /\ RecordCap >= 1
  BY DEF SchedulerAssumption, RecordCap
<1>2. Start(s) \in Nat
  BY StartIs
<1>3. all \subseteq Nat /\ IsFiniteSet(all)
  BY <1>2, BetweenIs
<1>4. Closed(found, all) /\ (all # {} => found # {})
  BY <1>1, <1>3, EarliestIs
<1>5. CASE found = all
  BY <1>2, <1>5 DEF Finds
<1>6. CASE found # all
  <2>1. found # {}
    BY <1>4, <1>6 DEF Closed
  <2>2. /\ Max(found) \in Nat /\ Start(s) < Max(found) /\ Max(found) <= reach
        /\ found = Between(s.spec, Start(s), Max(found))
    BY <1>2, <1>4, <2>1, ClosedIs
  <2> QED BY <1>6, <2>2 DEF Finds
<1> QED BY <1>5, <1>6

(* Catching up with the latest: a step of the scan, or its end. *)
LEMMA CatchUpIs ==
  ASSUME NEW s \in ScheduleRecords, NEW time \in Nat, NEW window \in Nat, window <= time,
         NEW found, NEW end, Finds(s, found, end, window)
  PROVE  LET p == CatchUpLatest(s, window, found, end)
         IN Moves(s, p, time) /\ Catches(s, p, window)
<1> DEFINE p == CatchUpLatest(s, window, found, end)
           final == Scanned(s, window, end)
           newest == IF final /\ found # {} THEN {Max(found)} ELSE {}
<1>1. /\ p.kind = "step" /\ p.toCursor = (IF final THEN window ELSE end)
      /\ p.scanTo = (IF final THEN NoTime ELSE window)
      /\ p.delivered = newest /\ p.skipped = found \ newest /\ p.scanned = end - Start(s)
  BY DEF CatchUpLatest, Step
<1>2. Start(s) \in Nat /\ s.cursor \in Nat /\ s.cursor <= Start(s) /\ s.spec \in Specifications
  BY StartIs DEF ScheduleRecords
<1>3. /\ end \in Nat /\ Start(s) < end /\ end <= window
      /\ found = Between(s.spec, Start(s), end)
  BY DEF Finds
<1>4. newest \subseteq found
  <2>1. ASSUME found # {} PROVE Max(found) \in found
    <3>1. Closed(found, Between(s.spec, Start(s), end))
      BY <1>3 DEF Closed
    <3> QED BY <1>2, <1>3, <2>1, <3>1, ClosedIs
  <2> QED BY <2>1
<1>5. NextAfter(s.spec, end) \in Nat /\ (NextAfter(s.spec, end) > window <=> Between(s.spec, end, window) = {})
  BY <1>2, <1>3, NextIsNext, NothingBefore DEF Specifications
<1>6. CASE final
  <2>1. Between(s.spec, end, window) = {}
    BY <1>3, <1>5, <1>6, BetweenNothing DEF Scanned
  <2>2. found = Between(s.spec, Start(s), window)
    <3>1. Start(s) <= end /\ window \in Nat
      BY <1>2, <1>3
    <3>2. Between(s.spec, Start(s), window)
            = Between(s.spec, Start(s), end) \cup Between(s.spec, end, window)
      BY <1>2, <1>3, <3>1, BetweenSplits
    <3> QED BY <1>3, <2>1, <3>2
  <2> HIDE DEF p, newest
  <2>3. newest \cup (found \ newest) = found
    BY <1>4
  <2>4. Moves(s, p, time)
    BY <1>1, <1>2, <1>3, <1>6, <2>2, <2>3 DEF Moves, NoTime
  <2>5. newest = IF found = {} THEN {} ELSE {Max(found)}
    BY <1>6 DEF newest
  <2>6. Catches(s, p, window)
    BY <1>1, <1>6, <2>2, <2>5 DEF Catches
  <2> QED BY <2>4, <2>6 DEF p
<1>7. CASE ~final
  <2>1. end < window /\ NextAfter(s.spec, end) <= window
    BY <1>3, <1>5, <1>7 DEF Scanned
  <2>2. newest = {}
    BY <1>7
  <2> HIDE DEF p, newest
  <2>3. Moves(s, p, time)
    BY <1>1, <1>2, <1>3, <1>7, <2>1, <2>2 DEF Moves, NoTime
  <2>4. Catches(s, p, window)
    BY <1>1, <1>3, <1>7, <2>1, <2>2 DEF Catches, NoTime
  <2> QED BY <2>3, <2>4 DEF p
<1> QED BY <1>6, <1>7

\* The occurrences a step leaves out come before those it delivers.
LEMMA DeliverIs ==
  ASSUME NEW s \in ScheduleRecords, NEW time \in Nat, NEW now \in Nat, NEW window \in Nat,
         now <= time, window <= time, Grace \in Nat, NEW cap \in Int, cap >= 1,
         NEW found, NEW end, Finds(s, found, end, IF window # NoTime THEN window ELSE now)
  PROVE  LET p == Deliver(s, now, window, found, end, cap)
         IN Moves(s, p, time) /\ (window = NoTime => p.scanTo = NoTime)
<1> DEFINE p == Deliver(s, now, window, found, end, cap)
           reference == IF window # NoTime THEN window ELSE now
           missed == IF s.spec.catchUp = "none" THEN {t \in found : t < reference - Grace} ELSE {}
           delivered == Earliest(found \ missed, cap)
           both == missed \cup delivered
           to == IF both = found THEN end ELSE Max(delivered)
<1>1. /\ p.kind = "step" /\ p.toCursor = to
      /\ p.scanTo = (IF window # NoTime /\ to < window THEN window ELSE NoTime)
      /\ p.delivered = delivered /\ p.skipped = missed /\ p.scanned = to - Start(s)
  BY DEF Deliver, Step
<1>2. Start(s) \in Nat /\ s.cursor \in Nat /\ s.cursor <= Start(s) /\ s.spec \in Specifications
  BY StartIs DEF ScheduleRecords
<1>3. /\ end \in Nat /\ Start(s) < end /\ end <= reference /\ reference \in Nat
      /\ found = Between(s.spec, Start(s), end)
  BY DEF Finds
<1>4. found \subseteq Nat /\ IsFiniteSet(found)
  BY <1>2, <1>3, BetweenIs
<1>5. \A t \in missed, u \in found \ missed : t < u
  <2> SUFFICES ASSUME NEW t \in missed, NEW u \in found \ missed PROVE t < u
    OBVIOUS
  <2>1. t \in Nat /\ u \in Nat /\ reference - Grace \in Int
    BY <1>3, <1>4
  <2>2. t < reference - Grace /\ ~(u < reference - Grace)
    OBVIOUS
  <2> QED BY <2>1, <2>2
<1>6. missed \subseteq found /\ IsFiniteSet(found \ missed)
  BY <1>4, FS_Subset
<1> HIDE DEF missed, reference
<1>7. /\ Closed(delivered, found \ missed)
      /\ found \ missed # {} => delivered # {}
  BY <1>4, <1>6, EarliestIs
<1> HIDE DEF delivered
<1>8. /\ to \in Nat /\ Start(s) < to /\ to <= end
      /\ both = Between(s.spec, Start(s), to)
  <2>1. CASE both = found
    BY <1>2, <1>3, <2>1
  <2>2. CASE both # found
    <3>1. delivered # {}
      BY <1>6, <1>7, <2>2
    <3>2. Closed(both, found)
      <4>1. ASSUME NEW t \in both, NEW u \in found, u < t PROVE u \in both
        <5>1. CASE u \notin missed /\ t \in missed
          <6>1. t < u
            BY <1>5, <5>1
          <6> QED BY <1>4, <1>6, <4>1, <5>1, <6>1
        <5>2. CASE u \notin missed /\ t \in delivered
          BY <1>7, <4>1, <5>2 DEF Closed
        <5> QED BY <5>1, <5>2
      <4> QED BY <1>6, <1>7, <4>1 DEF Closed
    <3>3. Max(both) = Max(delivered)
      <4>1. delivered \subseteq Nat /\ both \subseteq Nat /\ \A t \in both : t <= end
        <5>1. delivered \subseteq found
          BY <1>7 DEF Closed
        <5>2. \A t \in found : t <= end
          BY <1>2, <1>3, BetweenIs
        <5> QED BY <1>4, <1>6, <5>1, <5>2
      <4>2. Max(delivered) \in delivered /\ \A t \in delivered : Max(delivered) >= t
        BY <1>3, <3>1, <4>1, MaxIs
      <4>3. Max(both) \in both /\ \A t \in both : Max(both) >= t
        BY <1>3, <3>1, <4>1, MaxIs
      <4>4. Max(delivered) \in found \ missed
        BY <1>7, <4>2 DEF Closed
      <4>5. \A t \in both : Max(delivered) >= t
        BY <1>5, <4>1, <4>2, <4>4
      <4> QED BY <4>1, <4>2, <4>3, <4>5
    <3>4. both # {}
      BY <3>1
    <3> HIDE DEF both
    <3>5. /\ Max(both) \in Nat /\ Start(s) < Max(both) /\ Max(both) <= end
          /\ both = Between(s.spec, Start(s), Max(both))
      BY <1>2, <1>3, <3>2, <3>4, ClosedIs
    <3> QED BY <2>2, <3>3, <3>5
  <2> QED BY <2>1, <2>2
<1>9. delivered \cup missed = both
  OBVIOUS
<1> HIDE DEF p, to, both
<1>10. reference <= time
  BY DEF reference
<1>11. Moves(s, p, time)
  BY <1>1, <1>2, <1>3, <1>8, <1>9, <1>10 DEF Moves, NoTime
<1> QED BY <1>1, <1>11 DEF p

(* The window a step works on lies within the times passed so far. *)
LEMMA WindowIs ==
  ASSUME SchedulerAssumption, NEW s \in ScheduleRecords, NEW now \in Nat, NEW time \in Nat,
         now <= time, s.scanTo <= time
  PROVE  /\ Window(s, now) \in Nat /\ Window(s, now) <= time
         /\ s.scanTo # NoTime => Window(s, now) = s.scanTo
         /\ s.scanTo = NoTime /\ Window(s, now) # NoTime => Window(s, now) = now
  BY DEF Window, NoTime, ScheduleRecords

(* An occurrence still to come needs no catching up. *)
LEMMA NoWindow ==
  ASSUME SchedulerAssumption, NEW s \in ScheduleRecords, NEW now \in Nat, ~Due(s, now)
  PROVE  /\ s.scanTo = NoTime /\ Window(s, now) = NoTime
         /\ NextAfter(s.spec, Start(s)) > now
<1>1. s.scanTo = NoTime
  BY DEF Due
<1>2. NextAfter(s.spec, Start(s)) \in Nat
  BY StartIs, NextIsNext DEF ScheduleRecords, Specifications
<1>3. NextAfter(s.spec, Start(s)) > now
  BY <1>2 DEF Due
<1>4. Grace \in Nat
  BY DEF SchedulerAssumption
<1>5. ~(NextAfter(s.spec, Start(s)) < now - Grace)
  BY <1>2, <1>3, <1>4
<1> QED BY <1>1, <1>3, <1>5 DEF Window

\* Whatever is planned moves the cursor on, within the time passed, and handles
\* every occurrence in between; under "latest" it catches up as it should.
LEMMA PlanIs ==
  ASSUME SchedulerAssumption, NEW s \in ScheduleRecords, NEW now \in Nat, NEW time \in Nat,
         now <= time, Ordered(s, time), NEW cap \in Int, cap >= 1, NEW left \in Int,
         Plan(s, now, cap, left) # NoStep
  PROVE  /\ Moves(s, Plan(s, now, cap, left), time)
         /\ s.spec.catchUp = "latest" => Catches(s, Plan(s, now, cap, left), Window(s, now))
<1> DEFINE p == Plan(s, now, cap, left)
           window == Window(s, now)
           lim == IF window # NoTime THEN window ELSE now
           reach == Smaller(Start(s) + left, lim)
           all == Between(s.spec, Start(s), reach)
           found == Earliest(all, RecordCap)
           end == IF found # all THEN Max(found) ELSE reach
<1>1. /\ Start(s) \in Nat /\ s.cursor \in Nat /\ s.scanTo \in Nat /\ s.spec \in Specifications
      /\ s.cursor <= Start(s) /\ Start(s) <= time
  BY StartIs DEF ScheduleRecords, Ordered
<1>2. s.scanTo <= time /\ (s.scanTo # NoTime => s.cursor < s.scanTo)
  BY DEF Ordered
<1>3. /\ window \in Nat /\ window <= time
      /\ s.scanTo # NoTime => window = s.scanTo
  BY <1>2, WindowIs
<1>4. CASE s.scanTo # NoTime /\ s.scanTo <= Start(s)
  <2>1. p = Step(Start(s), NoTime, {}, {}, 0)
    BY <1>4 DEF Plan
  <2>2. Between(s.spec, Start(s), Start(s)) = {}
    BY <1>1, BetweenNothing
  <2>3. /\ p.kind = "step" /\ p.toCursor = Start(s) /\ p.scanTo = NoTime
        /\ p.delivered = {} /\ p.skipped = {} /\ p.scanned = 0
    BY <2>1, StepIs
  <2> HIDE DEF p, window
  <2>4. Moves(s, p, time)
    BY SMTT(20), <1>1, <1>2, <1>4, <2>2, <2>3 DEF Moves, NoTime
  <2>5. Catches(s, p, window)
    BY <2>2, <2>3 DEF Catches
  <2> QED BY <2>4, <2>5 DEF p, window
<1>5. CASE ~(s.scanTo # NoTime /\ s.scanTo <= Start(s)) /\ ~Due(s, now)
  <2>1. /\ HasWork(s, now) /\ p = Step(now, NoTime, {}, {}, 0)
    BY <1>5 DEF Plan
  <2>2. window = NoTime /\ NextAfter(s.spec, Start(s)) > now
    BY <1>5, NoWindow
  <2>3. Start(s) < now
    <3>1. IdleAdvance \in Int /\ IdleAdvance >= 1
      BY DEF IdleAdvance, Larger, SchedulerAssumption
    <3>2. now - Start(s) >= IdleAdvance
      BY <1>5, <2>1 DEF HasWork
    <3> QED BY <1>1, <3>1, <3>2
  <2>4. Between(s.spec, Start(s), now) = {}
    BY <1>1, <2>2, NothingBefore
  <2>5. /\ p.kind = "step" /\ p.toCursor = now /\ p.scanTo = NoTime
        /\ p.delivered = {} /\ p.skipped = {} /\ p.scanned = 0
    BY <2>1, StepIs
  <2> HIDE DEF p, window
  <2>6. Moves(s, p, time)
    BY <1>1, <1>2, <2>3, <2>4, <2>5 DEF Moves, NoTime
  <2>7. Catches(s, p, window)
    BY <2>2, <2>5 DEF Catches
  <2> QED BY <2>6, <2>7 DEF p, window
<1>6. CASE ~(s.scanTo # NoTime /\ s.scanTo <= Start(s)) /\ Due(s, now)
  <2>1. p = IF reach <= Start(s) THEN NoStep
            ELSE IF s.spec.catchUp = "latest" /\ window # NoTime
            THEN CatchUpLatest(s, window, found, end)
            ELSE Deliver(s, now, window, found, end, cap)
    BY <1>6 DEF Plan
  <2>2. lim \in Nat /\ lim <= time
    BY <1>3
  <2> HIDE DEF window, p
  <2>3. reach \in Int /\ ~(reach <= Start(s)) /\ reach <= lim
    <3>1. ~(reach <= Start(s))
      BY <2>1 DEF p
    <3> HIDE DEF lim
    <3> QED BY SMTT(20), <1>1, <2>2, <3>1 DEF Smaller
  <2> HIDE DEF lim, reach
  <2>4. reach \in Nat /\ Start(s) < reach
    BY <1>1, <2>3
  <2>5. Finds(s, found, end, reach)
    <3> HIDE DEF all, found, end
    <3>1. all = Between(s.spec, Start(s), reach)
      BY DEF all
    <3>2. found = Earliest(all, RecordCap)
      BY DEF found
    <3>3. end = IF found # all THEN Max(found) ELSE reach
      BY DEF end
    <3> QED BY <2>4, <3>1, <3>2, <3>3, FoundIs
  <2> HIDE DEF all, found, end
  <2>6. Finds(s, found, end, lim)
    BY <2>2, <2>3, <2>4, <2>5 DEF Finds
  <2>7. CASE s.spec.catchUp = "latest" /\ window # NoTime
    <3>1. p = CatchUpLatest(s, window, found, end)
      BY <2>1, <2>3, <2>7
    <3>2. Finds(s, found, end, window)
      BY <2>6, <2>7 DEF lim
    <3> QED BY <1>3, <3>1, <3>2, CatchUpIs DEF p, window
  <2>8. CASE ~(s.spec.catchUp = "latest" /\ window # NoTime)
    <3>1. p = Deliver(s, now, window, found, end, cap)
      BY <2>1, <2>3, <2>8
    <3>2. Finds(s, found, end, IF window # NoTime THEN window ELSE now)
      BY <2>6 DEF lim
    <3>3. Grace \in Nat
      BY DEF SchedulerAssumption
    <3>4. Moves(s, p, time) /\ (window = NoTime => p.scanTo = NoTime)
      BY <1>3, <3>1, <3>2, <3>3, DeliverIs
    <3>5. s.spec.catchUp = "latest" => Catches(s, p, window)
      BY <2>8, <3>4 DEF Catches
    <3> QED BY <3>4, <3>5 DEF p, window
  <2> QED BY <2>7, <2>8
<1> QED BY <1>4, <1>5, <1>6

(* What is due, and not yet scanned for in this tick, has a step. *)
LEMMA DueSteps ==
  ASSUME SchedulerAssumption, NEW s \in ScheduleRecords, NEW now \in Nat, NEW cap,
         Due(s, now)
  PROVE  HasWork(s, now) /\ Plan(s, now, cap, MaxScan) # NoStep
<1> DEFINE p == Plan(s, now, cap, MaxScan)
           window == Window(s, now)
           lim == IF window # NoTime THEN window ELSE now
           reach == Smaller(Start(s) + MaxScan, lim)
<1>0. HasWork(s, now)
  BY DEF HasWork
<1> SUFFICES p # NoStep
  BY <1>0
<1>1. Start(s) \in Nat /\ s.scanTo \in Nat /\ MaxScan \in Nat \ {0}
  BY StartIs DEF ScheduleRecords, SchedulerAssumption
<1>2. \A to, scanTo, delivered, skipped, scanned :
        Step(to, scanTo, delivered, skipped, scanned) # NoStep
  <2> SUFFICES ASSUME NEW to, NEW scanTo, NEW delivered, NEW skipped, NEW scanned
               PROVE  Step(to, scanTo, delivered, skipped, scanned) # NoStep
    OBVIOUS
  <2>1. Step(to, scanTo, delivered, skipped, scanned).kind = "step"
    BY DEF Step
  <2>2. NoStep.kind = "none"
    BY DEF NoStep
  <2> QED BY <2>1, <2>2
<1>3. CASE s.scanTo # NoTime /\ s.scanTo <= Start(s)
  BY <1>2, <1>3 DEF Plan
<1>4. CASE ~(s.scanTo # NoTime /\ s.scanTo <= Start(s))
  <2>1. Start(s) < lim /\ lim \in Nat
    <3>1. CASE s.scanTo # NoTime
      BY <1>1, <1>4, <3>1 DEF Window
    <3>2. CASE s.scanTo = NoTime
      <4>1. NextAfter(s.spec, Start(s)) <= now
        BY <3>2 DEF Due
      <4>2. NextAfter(s.spec, Start(s)) \in Nat /\ NextAfter(s.spec, Start(s)) > Start(s)
        BY <1>1, NextIsNext DEF ScheduleRecords, Specifications
      <4>3. window \in {NoTime, now}
        BY <3>2 DEF Window
      <4> HIDE DEF window
      <4> QED BY <1>1, <4>1, <4>2, <4>3
    <3> QED BY <3>1, <3>2
  <2> HIDE DEF lim
  <2>2. ~(reach <= Start(s))
    BY <1>1, <2>1 DEF Smaller
  <2>3. \A found, end : /\ CatchUpLatest(s, window, found, end) # NoStep
                        /\ Deliver(s, now, window, found, end, cap) # NoStep
    BY <1>2 DEF CatchUpLatest, Deliver
  <2>4. \/ p = NoStep /\ reach <= Start(s)
        \/ \E found, end : \/ p = CatchUpLatest(s, window, found, end)
                           \/ p = Deliver(s, now, window, found, end, cap)
    BY <1>4 DEF Plan, lim
  <2> QED BY <2>2, <2>3, <2>4
<1> QED BY <1>3, <1>4

-----------------------------------------------------------------------------
(* The order of turns. *)

\* What ActiveIn computes: the active schedules after a up to each n.
UpTo(a, b, f) ==
  f = [n \in a..b |->
         IF n = a THEN <<>>
         ELSE IF sched[n].status = "active" THEN Append(f[n - 1], n) ELSE f[n - 1]]

\* There is such a function: it is built one schedule at a time.
LEMMA UpToExists ==
  ASSUME NEW a \in Nat, NEW d \in Nat
  PROVE  \E f : UpTo(a, a + d, f)
<1> DEFINE N == {k \in Nat : \E f : UpTo(a, a + k, f)}
<1>1. 0 \in N
  <2>1. UpTo(a, a + 0, [n \in a..(a + 0) |-> <<>>])
    BY DEF UpTo
  <2> QED BY <2>1
<1>2. ASSUME NEW k \in N PROVE k + 1 \in N
  <2>1. PICK f : UpTo(a, a + k, f)
    BY <1>2
  <2> DEFINE b == a + k
             last == IF sched[b + 1].status = "active" THEN Append(f[b], b + 1) ELSE f[b]
             g == [n \in a..(b + 1) |-> IF n = b + 1 THEN last ELSE f[n]]
  <2>2. k \in Nat /\ b \in Nat /\ a <= b
    BY <1>2
  <2>3. ASSUME NEW n \in a..(b + 1)
        PROVE g[n] = IF n = a THEN <<>>
                     ELSE IF sched[n].status = "active" THEN Append(g[n - 1], n) ELSE g[n - 1]
    <3>1. CASE n = b + 1
      <4>1. b \in a..(b + 1) /\ b # b + 1 /\ n # a /\ n - 1 = b /\ n \in a..(b + 1)
        BY <2>2, <3>1
      <4>2. g[n] = last /\ g[b] = f[b]
        BY <3>1, <4>1
      <4> HIDE DEF g, b
      <4> QED BY <3>1, <4>1, <4>2
    <3>2. CASE n # b + 1
      <4>1. n \in a..b /\ (n # a => n - 1 \in a..b)
        BY <2>2, <3>2
      <4>2. g[n] = f[n] /\ (n # a => g[n - 1] = f[n - 1])
        BY <2>2, <3>2, <4>1
      <4>3. f[n] = IF n = a THEN <<>>
                   ELSE IF sched[n].status = "active" THEN Append(f[n - 1], n) ELSE f[n - 1]
        BY <2>1, <4>1 DEF UpTo
      <4> HIDE DEF g, b
      <4> QED BY <4>1, <4>2, <4>3
    <3> QED BY <3>1, <3>2
  <2>4. UpTo(a, b + 1, g)
    <3> HIDE DEF last, b
    <3>1. g = [n \in a..(b + 1) |-> g[n]]
      OBVIOUS
    <3> HIDE DEF g
    <3> QED BY <2>3, <3>1 DEF UpTo
  <2>5. b + 1 = a + (k + 1) /\ k + 1 \in Nat
    BY <2>2
  <2> HIDE DEF b, g
  <2> QED BY <2>4, <2>5
<1>3. N = Nat
  <2>1. N \subseteq Nat
    OBVIOUS
  <2> HIDE DEF N
  <2> QED BY <1>1, <1>2, <2>1, CountingUp
<1>4. d \in N
  <2> HIDE DEF N
  <2> QED BY <1>3
<1> QED BY <1>4

\* In order, the active schedules after a up to b, and no other.
Lists(q, a, b) ==
  /\ q \in Seq(Nat)
  /\ \A i \in 1..Len(q) : a < q[i] /\ q[i] <= b /\ sched[q[i]].status = "active"
  /\ \A id \in Nat : a < id /\ id <= b /\ sched[id].status = "active" =>
       \E i \in 1..Len(q) : q[i] = id
  /\ \A i, j \in 1..Len(q) : i < j => q[i] < q[j]

\* One more schedule is listed if it is active.
LEMMA ListsNext ==
  ASSUME NEW q, NEW a \in Nat, NEW b \in Nat, a <= b, Lists(q, a, b)
  PROVE  Lists(IF sched[b + 1].status = "active" THEN Append(q, b + 1) ELSE q, a, b + 1)
<1>1. q \in Seq(Nat) /\ Len(q) \in Nat
  BY DEF Lists
<1>2. \A i \in 1..Len(q) : q[i] \in Nat /\ a < q[i] /\ q[i] <= b /\ sched[q[i]].status = "active"
  BY <1>1 DEF Lists
<1>3. \A id \in Nat : a < id /\ id <= b + 1 => id <= b \/ id = b + 1
  OBVIOUS
<1>4. CASE sched[b + 1].status # "active"
  <2>1. \A i \in 1..Len(q) : q[i] <= b + 1
    BY <1>2
  <2> QED BY <1>3, <1>4, <2>1 DEF Lists
<1>5. CASE sched[b + 1].status = "active"
  <2> DEFINE r == Append(q, b + 1)
  <2>1. /\ r \in Seq(Nat) /\ Len(r) = Len(q) + 1 /\ r[Len(q) + 1] = b + 1
        /\ \A i \in 1..Len(q) : r[i] = q[i]
    BY <1>1
  <2>2. \A i \in 1..Len(r) : i \in 1..Len(q) \/ i = Len(q) + 1
    BY <1>1, <2>1
  <2> HIDE DEF r
  <2>3. \A i \in 1..Len(r) : a < r[i] /\ r[i] <= b + 1 /\ sched[r[i]].status = "active"
    <3> SUFFICES ASSUME NEW i \in 1..Len(r)
                 PROVE  a < r[i] /\ r[i] <= b + 1 /\ sched[r[i]].status = "active"
      OBVIOUS
    <3>1. CASE i \in 1..Len(q)
      BY SMTT(20), <1>2, <2>1, <3>1
    <3>2. CASE i = Len(q) + 1
      BY <1>5, <2>1, <3>2
    <3> QED BY <2>2, <3>1, <3>2
  <2>4. ASSUME NEW id \in Nat, a < id, id <= b + 1, sched[id].status = "active"
        PROVE  \E i \in 1..Len(r) : r[i] = id
    <3>1. CASE id = b + 1
      <4>1. Len(q) + 1 \in 1..Len(r)
        BY <1>1, <2>1
      <4> QED BY <2>1, <3>1, <4>1
    <3>2. CASE id <= b
      <4>1. PICK i \in 1..Len(q) : q[i] = id
        BY <2>4, <3>2 DEF Lists
      <4>2. i \in 1..Len(r)
        BY <1>1, <2>1
      <4> QED BY <2>1, <4>1, <4>2
    <3> QED BY <1>3, <2>4, <3>1, <3>2
  <2>5. ASSUME NEW i \in 1..Len(r), NEW j \in 1..Len(r), i < j PROVE r[i] < r[j]
    <3>1. i \in 1..Len(q)
      BY <1>1, <2>1, <2>5
    <3>2. CASE j \in 1..Len(q)
      BY <2>1, <2>5, <3>1, <3>2 DEF Lists
    <3>3. CASE j = Len(q) + 1
      <4>1. r[i] = q[i] /\ q[i] \in Nat /\ q[i] <= b /\ r[j] = b + 1
        BY <1>2, <2>1, <3>1, <3>3
      <4> QED BY <4>1
    <3> QED BY <2>2, <3>2, <3>3
  <2> QED BY <1>5, <2>1, <2>3, <2>4, <2>5 DEF Lists, r
<1> QED BY <1>4, <1>5

\* So each value lists the active schedules so far.
LEMMA UpToLists ==
  ASSUME NEW a \in Nat, NEW d \in Nat, NEW f, UpTo(a, a + d, f)
  PROVE  Lists(f[a + d], a, a + d)
<1> DEFINE N == {k \in Nat : k <= d => Lists(f[a + k], a, a + k)}
<1>1. 0 \in N
  <2>1. a \in a..(a + d) /\ a + 0 = a
    OBVIOUS
  <2>2. f[a] = <<>>
    BY <2>1 DEF UpTo
  <2>3. Lists(<<>>, a, a)
    BY DEF Lists
  <2> QED BY <2>1, <2>2, <2>3
<1>2. ASSUME NEW k \in N PROVE k + 1 \in N
  <2>1. CASE k + 1 <= d
    <3> DEFINE b == a + k
               n == b + 1
    <3>1. k \in Nat /\ k <= d /\ b \in Nat /\ a <= b /\ n \in a..(a + d) /\ n # a /\ n - 1 = b
      BY <1>2, <2>1
    <3>2. Lists(f[b], a, b)
      BY <1>2, <3>1
    <3>3. a + (k + 1) = n
      BY <3>1
    <3> HIDE DEF b
    <3>4. f[n] = IF sched[b + 1].status = "active" THEN Append(f[b], b + 1) ELSE f[b]
      <4> HIDE DEF n
      <4>1. f[n] = IF sched[n].status = "active" THEN Append(f[n - 1], n) ELSE f[n - 1]
        BY <3>1 DEF UpTo
      <4> QED BY <3>1, <4>1 DEF n
    <3>5. Lists(f[n], a, b + 1)
      BY <3>1, <3>2, <3>4, ListsNext
    <3>6. Lists(f[a + (k + 1)], a, a + (k + 1))
      BY <3>3, <3>5
    <3> QED BY <3>1, <3>6
  <2>2. CASE ~(k + 1 <= d)
    BY <1>2, <2>2
  <2> QED BY <2>1, <2>2
<1>3. N = Nat
  <2>1. N \subseteq Nat
    OBVIOUS
  <2> HIDE DEF N
  <2> QED BY <1>1, <1>2, <2>1, CountingUp
<1>4. d \in N
  <2> HIDE DEF N
  <2> QED BY <1>3
<1> QED BY <1>4

\* ActiveIn lists the active schedules of a stretch, in order, each once.
LEMMA ActiveInIs ==
  ASSUME NEW a \in Nat, NEW b \in Nat, a <= b
  PROVE  Lists(ActiveIn(a, b), a, b)
<1> DEFINE f == CHOOSE f : UpTo(a, b, f)
           d == b - a
<1>1. d \in Nat /\ b = a + d
  OBVIOUS
<1>2. UpTo(a, b, f)
  <2>1. \E g : UpTo(a, b, g)
    <3> HIDE DEF d
    <3> QED BY <1>1, UpToExists
  <2> QED BY <2>1
<1>3. ActiveIn(a, b) = f[b]
  BY Zenon DEF ActiveIn, UpTo
<1> HIDE DEF f, d
<1> QED BY <1>1, <1>2, <1>3, UpToLists

\* How many turns there are between two.
Ahead(last, id) == IF last < id THEN id - last - 1 ELSE NumSchedules + id - last - 1
Served(last) == last \in Schedules /\ sched[last].status = "active"

\* Of two schedules before a third, the one that comes later is nearer.
LEMMA Nearer ==
  ASSUME NEW id \in Schedules, NEW e \in Schedules, e # id, NumSchedules \in Nat
  PROVE  /\ Ahead(e, id) \in Nat /\ Ahead(e, id) <= NumSchedules - 2
         /\ \A last \in Schedules :
              (last < e /\ (e < id \/ id <= last)) \/ (e < id /\ id <= last) =>
                Ahead(e, id) < Ahead(last, id)
  BY DEF Ahead, Schedules

\* A sequence of what is in T is a sequence of T.
LEMMA SeqOf ==
  ASSUME NEW S, NEW q \in Seq(S), NEW T, \A i \in 1..Len(q) : q[i] \in T
  PROVE  q \in Seq(T)
  OBVIOUS

\* Who is listed is an active schedule, and those after it come later.
LEMMA ListedIs ==
  ASSUME NEW q, NEW a \in Nat, NEW b \in Nat, b <= NumSchedules, NumSchedules \in Nat,
         Lists(q, a, b), NEW i \in 1..Len(q)
  PROVE  /\ q[i] \in Schedules /\ q[i] \in Nat /\ a < q[i] /\ q[i] <= b
         /\ sched[q[i]].status = "active"
         /\ \A j \in 1..Len(q) : i < j => q[i] < q[j]
<1>1. q[i] \in Nat
  BY DEF Lists
<1>2. a < q[i] /\ q[i] <= b /\ sched[q[i]].status = "active"
  BY DEF Lists
<1>3. \A j \in 1..Len(q) : i < j => q[i] < q[j]
  BY DEF Lists
<1>4. q[i] \in Schedules
  BY <1>1, <1>2 DEF Schedules
<1> QED BY <1>1, <1>2, <1>3, <1>4

\* Whose turns come before one's own, in the order that goes on after last.
Before(q, last, id) ==
  \E j \in 1..Len(q) :
    /\ q[j] = id
    /\ \A i \in 1..(j - 1) :
         /\ q[i] # id /\ Ahead(q[i], id) <= NumSchedules - 2
         /\ Served(last) => Ahead(q[i], id) < Ahead(last, id)
Turns(q, last) ==
  /\ q \in Seq(Schedules)
  /\ \A i \in 1..Len(q) : sched[q[i]].status = "active"
  /\ \A id \in Schedules : sched[id].status = "active" => Before(q, last, id)

\* In the rotated order, whoever is before a schedule is nearer to it than the
\* schedule served last.
LEMMA RotatedIs ==
  ASSUME SchedulerAssumption, NEW last \in 0..NumSchedules
  PROVE  Turns(Rotated(last), last)
<1>1. NumSchedules \in Nat
  BY DEF SchedulerAssumption
<1>2. \A e : e \in Schedules <=> e \in Nat /\ 0 < e /\ e <= NumSchedules
  BY <1>1 DEF Schedules
<1>3. CASE ~Served(last)
  <2> DEFINE q == ActiveIn(0, NumSchedules)
  <2>1. Rotated(last) = q
    BY <1>1, <1>2, <1>3 DEF Rotated, Served
  <2>2. Lists(q, 0, NumSchedules)
    BY <1>1, ActiveInIs
  <2> HIDE DEF q
  <2>3. q \in Seq(Schedules)
    <3>1. \A i \in 1..Len(q) : q[i] \in Schedules
      BY <1>2, <2>2 DEF Lists
    <3> QED BY <2>2, <3>1, SeqOf DEF Lists
  <2>4. ASSUME NEW id \in Schedules, sched[id].status = "active" PROVE Before(q, last, id)
    <3>1. PICK j \in 1..Len(q) : q[j] = id
      BY <1>2, <2>2, <2>4 DEF Lists
    <3>2. ASSUME NEW i \in 1..(j - 1) PROVE q[i] # id /\ Ahead(q[i], id) <= NumSchedules - 2
      <4>1. i \in 1..Len(q) /\ i < j
        BY <2>3
      <4>2. q[i] \in Schedules /\ q[i] < q[j]
        <5>1. 0 \in Nat /\ NumSchedules <= NumSchedules
          BY <1>1
        <5>2. q[i] \in Schedules /\ \A k \in 1..Len(q) : i < k => q[i] < q[k]
          BY <1>1, <2>2, <4>1, <5>1, ListedIs
        <5> QED BY <4>1, <5>2
      <4>3. q[i] # id
        BY <1>2, <3>1, <4>2
      <4> QED BY <1>1, <4>2, <4>3, Nearer
    <3> QED BY <1>3, <3>1, <3>2 DEF Before
  <2> QED BY <2>1, <2>2, <2>3, <2>4 DEF Turns, Lists
<1>4. CASE Served(last)
  <2> DEFINE p == ActiveIn(last, NumSchedules)
             r == ActiveIn(0, last)
             q == p \o r
  <2>1. last \in Schedules /\ last \in Nat /\ 0 < last /\ last <= NumSchedules
    BY <1>2, <1>4 DEF Served
  <2>2. Rotated(last) = q
    BY <1>4, <2>1 DEF Rotated, Served
  <2>3. Lists(p, last, NumSchedules) /\ Lists(r, 0, last)
    BY <1>1, <2>1, ActiveInIs
  <2> HIDE DEF p, r
  <2>9. \A i \in 1..Len(p) :
          /\ p[i] \in Schedules /\ last < p[i] /\ sched[p[i]].status = "active"
          /\ \A j \in 1..Len(p) : i < j => p[i] < p[j]
    <3>1. NumSchedules <= NumSchedules
      BY <1>1
    <3> QED BY <1>1, <2>1, <2>3, <3>1, ListedIs
  <2>10. \A i \in 1..Len(r) :
          /\ r[i] \in Schedules /\ sched[r[i]].status = "active"
          /\ \A j \in 1..Len(r) : i < j => r[i] < r[j]
    BY <1>1, <2>1, <2>3, ListedIs
  <2>4. p \in Seq(Schedules) /\ r \in Seq(Schedules)
    BY <2>3, <2>9, <2>10, SeqOf DEF Lists
  <2>5. /\ q \in Seq(Schedules) /\ Len(q) = Len(p) + Len(r)
        /\ Len(p) \in Nat /\ Len(r) \in Nat
        /\ \A i \in 1..Len(p) : q[i] = p[i]
        /\ \A i \in 1..Len(r) : q[Len(p) + i] = r[i]
    BY <2>4
  <2> HIDE DEF q
  <2>6. ASSUME NEW i \in 1..Len(q) PROVE i \in 1..Len(p) \/ (i - Len(p) \in 1..Len(r) /\ q[i] = r[i - Len(p)])
    <3>1. CASE ~(i \in 1..Len(p))
      <4> DEFINE k == i - Len(p)
      <4>1. k \in 1..Len(r) /\ Len(p) + k = i
        BY <2>5, <3>1
      <4> HIDE DEF k
      <4>2. q[i] = r[k]
        BY <2>5, <4>1
      <4> QED BY <4>1, <4>2 DEF k
    <3> QED BY <3>1
  <2>7. \A i \in 1..Len(q) : sched[q[i]].status = "active"
    <3> SUFFICES ASSUME NEW i \in 1..Len(q) PROVE sched[q[i]].status = "active"
      OBVIOUS
    <3>1. CASE i \in 1..Len(p)
      BY <2>5, <2>9, <3>1
    <3>2. CASE i - Len(p) \in 1..Len(r) /\ q[i] = r[i - Len(p)]
      BY <2>10, <3>2
    <3> QED BY <2>6, <3>1, <3>2
  <2>8. ASSUME NEW id \in Schedules, sched[id].status = "active" PROVE Before(q, last, id)
    <3>1. CASE last < id
      <4>1. PICK j \in 1..Len(p) : p[j] = id
        BY <1>2, <2>3, <2>8, <3>1 DEF Lists
      <4>2. j \in 1..Len(q) /\ q[j] = id
        BY <2>5, <4>1
      <4>3. ASSUME NEW i \in 1..(j - 1)
            PROVE  q[i] # id /\ Ahead(q[i], id) <= NumSchedules - 2 /\ Ahead(q[i], id) < Ahead(last, id)
        <5>1. i \in 1..Len(p) /\ i < j
          BY <2>5
        <5>2. q[i] = p[i] /\ p[i] \in Schedules /\ p[i] < p[j] /\ last < p[i]
          BY <2>5, <2>9, <5>1
        <5>3. q[i] \in Schedules /\ q[i] < id /\ last < q[i] /\ q[i] # id
          BY <1>2, <4>1, <5>2
        <5> QED BY <1>1, <2>1, <5>3, Nearer
      <4> QED BY <4>2, <4>3 DEF Before
    <3>2. CASE id <= last
      <4>1. PICK k \in 1..Len(r) : r[k] = id
        BY <1>2, <2>3, <2>8, <3>2 DEF Lists
      <4> DEFINE j == Len(p) + k
      <4>2. j \in 1..Len(q) /\ q[j] = id
        BY SMTT(20), <2>5, <4>1
      <4>3. ASSUME NEW i \in 1..(j - 1)
            PROVE  q[i] # id /\ Ahead(q[i], id) <= NumSchedules - 2 /\ Ahead(q[i], id) < Ahead(last, id)
        <5>1. i \in 1..Len(q)
          BY <2>5
        <5>2. CASE i \in 1..Len(p)
          <6>1. q[i] = p[i] /\ p[i] \in Schedules /\ last < p[i]
            BY <2>5, <2>9, <5>2
          <6>2. q[i] # id
            BY <1>2, <2>1, <3>2, <6>1
          <6> QED BY <1>1, <2>1, <3>2, <6>1, <6>2, Nearer
        <5>3. CASE i - Len(p) \in 1..Len(r) /\ q[i] = r[i - Len(p)]
          <6>1. i - Len(p) < k
            BY <2>5
          <6>2. q[i] \in Schedules /\ q[i] < id
            BY <2>10, <4>1, <5>3, <6>1
          <6>3. q[i] # id
            BY <1>2, <6>2
          <6> QED BY <1>1, <2>1, <3>2, <6>2, <6>3, Nearer
        <5> QED BY <2>6, <5>1, <5>2, <5>3
      <4> QED BY <4>2, <4>3 DEF Before
    <3> QED BY <1>2, <2>1, <3>1, <3>2
  <2> QED BY <2>2, <2>5, <2>7, <2>8 DEF Turns
<1> QED BY <1>3, <1>4

-----------------------------------------------------------------------------
Entries == [id : Schedules, seen : ScheduleRecords]
Changes ==
  [kind : {"put", "pause", "resume", "cancel"}, id : Schedules, spec : Specifications,
   from : Nat, expected : Nat]
TickRecords ==
  [pc : {"off", "idle", "listing", "round"}, now : Nat, queue : Seq(Entries),
   again : Seq(Entries), budget : Int, share : Int, left : [Schedules -> Int],
   conflicts : [Schedules -> Nat], last : 0..NumSchedules, waiting : SUBSET Schedules]
Windows == [id : Schedules, spec : Specifications, to : Nat, from : Nat]

Exists(id) == sched[id].status # "none"

RecordsOK ==
  /\ sched \in [Schedules -> {NoSchedule} \cup ScheduleRecords]
  /\ inbox \in [Occurrences -> {"none", "pending", "applied", "cancelled"}]
  /\ recorded \in [Occurrences -> {"none", "delivered", "skipped"}]
  /\ sent \in [Occurrences -> Nat]
  /\ caught \subseteq Windows
TicksOK ==
  /\ tick \in [Schedulers -> TickRecords]
  /\ \A x \in Schedulers :
       tick[x].now <= clock /\ (tick[x].queue # <<>> => tick[x].share >= 1)
  /\ hungry \in [Schedulers -> [Schedules -> Nat]]
SchedulerTypeOK ==
  /\ clock \in 0..MaxClock
  /\ RecordsOK /\ TicksOK
  /\ host \in {NoChange} \cup Changes
  /\ host # NoChange => host.from <= clock

CursorInv == \A id \in Schedules : Exists(id) => Ordered(sched[id], clock)

\* A scheduler that saw the stored revision and cursor saw the stored schedule.
Known(s, seen) ==
  /\ seen.revision <= s.revision
  /\ seen.revision = s.revision => seen.cursor <= s.cursor
  /\ seen.revision = s.revision /\ seen.cursor = s.cursor => seen = s
Waits(t) == {t.queue[i] : i \in 1..Len(t.queue)} \cup {t.again[i] : i \in 1..Len(t.again)}
SeenInv ==
  \A x \in Schedulers : \A entry \in Waits(tick[x]) :
    Exists(entry.id) /\ Known(sched[entry.id], entry.seen)

StandInv == SchedulerTypeOK /\ CursorInv /\ SeenInv

\* A stored schedule is told from none.
LEMMA Existing ==
  ASSUME RecordsOK, NEW id \in Schedules
  PROVE  /\ Exists(id) => sched[id] \in ScheduleRecords
         /\ sched[id] = NoSchedule <=> ~Exists(id)
         /\ sched[id].status \in Statuses => Exists(id)
<1>1. NoSchedule.status = "none"
  BY DEF NoSchedule
<1>2. \A s \in ScheduleRecords : s.status \in Statuses
  BY DEF ScheduleRecords
<1>3. sched[id] \in {NoSchedule} \cup ScheduleRecords
  BY DEF RecordsOK
<1> QED BY <1>1, <1>2, <1>3 DEF Exists, Statuses

\* A step of the store: the schedule stood where it was planned from.
Advancing(id, now, plan) ==
  /\ id \in Schedules /\ sched[id].status = "active" /\ now \in Nat /\ now <= clock
  /\ Moves(sched[id], plan, clock)
  /\ sched[id].spec.catchUp = "latest" => Catches(sched[id], plan, Window(sched[id], now))
  /\ Advanced(id, sched[id], now, plan)

\* The stores stay as they are.
StoresStay == UNCHANGED <<sched, inbox, recorded, sent, caught>>

(* What a scheduler's step does: it advances the schedule it saw, or finds  *)
(* that another did.                                                        *)
LEMMA StepsAre ==
  ASSUME SchedulerAssumption, StandInv, NEW x \in Schedulers, Steps(x),
         NEW t, t = tick[x], NEW head, head = t.queue[1],
         NEW plan, plan = Plan(head.seen, t.now, Smaller(t.share, t.budget), t.left[head.id])
  PROVE  /\ t \in TickRecords /\ head \in Entries /\ head \in Waits(t)
         /\ t.queue # <<>> /\ t.pc = "round"
         /\ \/ /\ Advancing(head.id, t.now, plan) /\ head.seen = sched[head.id]
               /\ plan.scanned \in Int
               /\ Goes(x, Stepped(t, head, plan))
            \/ /\ ~Advances(head.id, head.seen) /\ StoresStay /\ Goes(x, Conflicted(t, head))
            \/ /\ StoresStay \/ (Advancing(head.id, t.now, plan) /\ head.seen = sched[head.id])
               /\ Goes(x, [t EXCEPT !.queue = Tail(@), !.waiting = @ \ {head.id}])
<1>1. t \in TickRecords /\ t.now <= clock /\ (t.queue # <<>> => t.share >= 1) /\ clock \in Nat
  BY DEF StandInv, SchedulerTypeOK, TicksOK
<1>2. t.pc = "round" /\ t.queue # <<>> /\ t.budget > 0 /\ plan # NoStep
  BY DEF Steps
<1>3. /\ t.queue \in Seq(Entries) /\ t.share \in Int /\ t.budget \in Int
      /\ t.left \in [Schedules -> Int] /\ t.now \in Nat
  BY <1>1 DEF TickRecords
<1>4. head \in Entries /\ head \in Waits(t)
  <2>1. 1 \in 1..Len(t.queue)
    BY SMTT(20), <1>2, <1>3
  <2> QED BY SMTT(20), <1>3, <2>1 DEF Waits
<1>5. head.id \in Schedules /\ head.seen \in ScheduleRecords /\ t.left[head.id] \in Int
  BY <1>3, <1>4 DEF Entries
<1>6. Exists(head.id) /\ Known(sched[head.id], head.seen)
  BY <1>4 DEF StandInv, SeenInv
<1>7. ASSUME Advances(head.id, head.seen), Advanced(head.id, head.seen, t.now, plan)
      PROVE  /\ Advancing(head.id, t.now, plan) /\ head.seen = sched[head.id]
             /\ plan.scanned \in Int
  <2>1. head.seen = sched[head.id] /\ sched[head.id].status = "active"
    BY <1>6, <1>7 DEF Advances, Known
  <2>2. Ordered(head.seen, clock)
    BY <1>5, <1>6, <2>1 DEF StandInv, CursorInv
  <2> DEFINE cap == Smaller(t.share, t.budget)
  <2>3. cap \in Int /\ cap >= 1
    BY SMTT(20), <1>1, <1>2, <1>3 DEF Smaller
  <2> HIDE DEF cap
  <2>4. plan = Plan(head.seen, t.now, cap, t.left[head.id])
    BY DEF cap
  <2>5. /\ Moves(head.seen, plan, clock)
        /\ head.seen.spec.catchUp = "latest" => Catches(head.seen, plan, Window(head.seen, t.now))
    <3> DEFINE left == t.left[head.id]
               now == t.now
    <3>1. left \in Int /\ now \in Nat /\ now <= clock /\ clock \in Nat
      BY <1>1, <1>3, <1>5
    <3>2. plan = Plan(head.seen, now, cap, left) /\ plan # NoStep
      BY <1>2, <2>4
    <3> HIDE DEF left, now
    <3>3. /\ Moves(head.seen, Plan(head.seen, now, cap, left), clock)
          /\ head.seen.spec.catchUp = "latest" =>
               Catches(head.seen, Plan(head.seen, now, cap, left), Window(head.seen, now))
      BY <1>5, <2>2, <2>3, <3>1, <3>2, PlanIs
    <3> QED BY <3>2, <3>3 DEF now
  <2>6. plan.scanned \in Int
    BY <2>5 DEF Moves
  <2> QED BY <1>1, <1>3, <1>5, <1>7, <2>1, <2>5, <2>6 DEF Advancing
<1>8. \/ /\ Advances(head.id, head.seen)
         /\ Advanced(head.id, head.seen, t.now, plan)
         /\ Goes(x, Stepped(t, head, plan))
      \/ /\ ~Advances(head.id, head.seen)
         /\ Goes(x, Conflicted(t, head))
         /\ UNCHANGED <<sched, inbox, recorded, sent, caught>>
      \/ /\ \/ Advances(head.id, head.seen) /\ Advanced(head.id, head.seen, t.now, plan)
            \/ UNCHANGED <<sched, inbox, recorded, sent, caught>>
         /\ Goes(x, [t EXCEPT !.queue = Tail(@), !.waiting = @ \ {head.id}])
  BY DEF Steps
<1> QED BY <1>1, <1>2, <1>4, <1>7, <1>8 DEF StoresStay

(* What the store then holds. *)
LEMMA AdvancingIs ==
  ASSUME RecordsOK, NEW id, NEW now, NEW plan, Advancing(id, now, plan)
  PROVE  LET s == sched[id] IN
         LET r == Moved(s, s, plan) IN
         /\ s \in ScheduleRecords /\ r \in ScheduleRecords
         /\ sched' \in [Schedules -> {NoSchedule} \cup ScheduleRecords]
         /\ sched'[id] = r /\ \A i \in Schedules : i # id => sched'[i] = sched[i]
         /\ r.cursor = plan.toCursor /\ r.scanTo = plan.scanTo
         /\ r.opened = IF s.scanTo # NoTime THEN s.opened ELSE Start(s)
         /\ r.status = "active" /\ r.revision = s.revision
         /\ r.spec = s.spec /\ r.from = s.from /\ r.base = s.base
<1> DEFINE s == sched[id]
           r == Moved(s, s, plan)
<1>1. s \in ScheduleRecords /\ s.status = "active" /\ id \in Schedules
  BY Existing DEF Advancing, Statuses
<1>2. Start(s) \in Nat /\ plan.toCursor \in Nat /\ plan.scanTo \in Nat
  BY <1>1, StartIs DEF Advancing, Moves
<1>3. sched' = [sched EXCEPT ![id] = r]
  BY Zenon DEF Advancing, Advanced
<1> HIDE DEF s
<1>4. /\ r \in ScheduleRecords /\ r.cursor = plan.toCursor /\ r.scanTo = plan.scanTo
      /\ r.opened = (IF s.scanTo # NoTime THEN s.opened ELSE Start(s))
      /\ r.status = s.status /\ r.revision = s.revision
      /\ r.spec = s.spec /\ r.from = s.from /\ r.base = s.base
  BY <1>1, <1>2 DEF ScheduleRecords, Moved
<1> HIDE DEF r
<1>5. sched'[id] = r /\ \A i \in Schedules : i # id => sched'[i] = sched[i]
  BY <1>1, <1>3 DEF RecordsOK
<1>6. sched' \in [Schedules -> {NoSchedule} \cup ScheduleRecords]
  BY <1>3, <1>4 DEF RecordsOK
<1> QED BY <1>1, <1>4, <1>5, <1>6 DEF r, s

-----------------------------------------------------------------------------
(* What the store holds of a schedule and of its occurrences. *)

\* What no cursor has passed is untouched.
Untouched ==
  \A o \in Occurrences :
    ~Exists(o[1]) \/ o[2] > sched[o[1]].cursor =>
      recorded[o] = "none" /\ inbox[o] = "none" /\ sent[o] = 0

\* Of an open window nothing was delivered so far, and something is left in it
\* if anything was skipped.
Scanning(s, id) ==
  s.scanTo # NoTime /\ s.spec.catchUp = "latest" /\ Between(s.spec, s.opened, s.cursor) # {} =>
    /\ \A t \in Between(s.spec, s.opened, s.cursor) : recorded[<<id, t>>] = "skipped"
    /\ NextAfter(s.spec, Start(s)) <= s.scanTo
WindowInv == \A id \in Schedules : Exists(id) => Scanning(sched[id], id)

CaughtInv ==
  \A w \in caught :
    /\ w.to <= clock
    /\ \A t \in Between(w.spec, w.from, w.to) : recorded[<<w.id, t>>] # "none"

RecordInv ==
  /\ CursorInv /\ Untouched /\ DeliveredOnce /\ NothingForgotten
  /\ WindowInv /\ CaughtInv /\ LatestDeliversTheNewest /\ CancelledIsQuiet

\* The occurrences a step handles were untouched; the others stay.
LEMMA AdvancedIs ==
  ASSUME clock \in 0..MaxClock, SchedulerAssumption, RecordsOK, Untouched,
         NEW id, NEW now, NEW plan, Advancing(id, now, plan),
         NEW all, all = Between(sched[id].spec, Start(sched[id]), plan.toCursor)
  PROVE  /\ \A o \in Occurrences : o[1] # id \/ o[2] \notin all =>
               recorded'[o] = recorded[o] /\ inbox'[o] = inbox[o] /\ sent'[o] = sent[o]
         /\ \A t \in all :
               /\ <<id, t>> \in Occurrences /\ recorded[<<id, t>>] = "none"
               /\ recorded'[<<id, t>>] = (IF t \in plan.delivered THEN "delivered" ELSE "skipped")
               /\ sent'[<<id, t>>] = (IF t \in plan.delivered THEN 1 ELSE 0)
               /\ inbox'[<<id, t>>] = (IF t \in plan.delivered THEN "pending" ELSE "none")
         /\ plan.delivered \subseteq all
         /\ inbox' \in [Occurrences -> {"none", "pending", "applied", "cancelled"}]
         /\ recorded' \in [Occurrences -> {"none", "delivered", "skipped"}]
         /\ sent' \in [Occurrences -> Nat]
<1>1. sched[id] \in ScheduleRecords /\ id \in Schedules
  BY Existing DEF Advancing, Statuses
<1>2. /\ all = plan.delivered \cup plan.skipped
      /\ plan.toCursor \in Nat /\ plan.toCursor <= clock
  BY DEF Advancing, Moves
<1>3. ASSUME NEW t \in all
      PROVE  /\ <<id, t>> \in Occurrences
             /\ recorded[<<id, t>>] = "none" /\ inbox[<<id, t>>] = "none" /\ sent[<<id, t>>] = 0
  <2>1. t \in Nat /\ Start(sched[id]) < t /\ t <= plan.toCursor
    BY <1>1, <1>2, StartIs, BetweenIs
  <2>2. sched[id].cursor \in Nat /\ sched[id].cursor < t
    BY SMTT(20), <1>1, <2>1, StartIs DEF ScheduleRecords
  <2>3. t \in 1..MaxClock
    BY <1>2, <2>1, <2>2 DEF SchedulerAssumption
  <2>4. <<id, t>> \in Occurrences
    BY <1>1, <2>3 DEF Occurrences
  <2>5. <<id, t>>[1] = id /\ <<id, t>>[2] = t
    OBVIOUS
  <2> QED BY <2>2, <2>4, <2>5 DEF Untouched
<1> DEFINE delivers(o) == o[1] = id /\ o[2] \in plan.delivered
           handles(o) == o[1] = id /\ o[2] \in plan.delivered \cup plan.skipped
<1>4. /\ inbox' = [o \in Occurrences |-> IF delivers(o) /\ inbox[o] = "none" THEN "pending" ELSE inbox[o]]
      /\ sent' = [o \in Occurrences |-> IF delivers(o) /\ inbox[o] = "none" THEN sent[o] + 1 ELSE sent[o]]
      /\ recorded' = [o \in Occurrences |->
                       IF ~handles(o) \/ recorded[o] # "none" THEN recorded[o]
                       ELSE IF delivers(o) THEN "delivered" ELSE "skipped"]
  BY DEF Advancing, Advanced
<1>5. ASSUME NEW o \in Occurrences, o[1] # id \/ o[2] \notin all
      PROVE  recorded'[o] = recorded[o] /\ inbox'[o] = inbox[o] /\ sent'[o] = sent[o]
  <2>1. ~delivers(o) /\ ~handles(o)
    BY <1>2, <1>5
  <2> HIDE DEF delivers, handles
  <2> QED BY <1>4, <2>1
<1>6. ASSUME NEW t \in all
      PROVE  /\ recorded'[<<id, t>>] = (IF t \in plan.delivered THEN "delivered" ELSE "skipped")
             /\ sent'[<<id, t>>] = (IF t \in plan.delivered THEN 1 ELSE 0)
             /\ inbox'[<<id, t>>] = (IF t \in plan.delivered THEN "pending" ELSE "none")
  <2> DEFINE o == <<id, t>>
  <2>1. (delivers(o) <=> t \in plan.delivered) /\ handles(o)
    BY <1>2
  <2>2. o \in Occurrences /\ recorded[o] = "none" /\ inbox[o] = "none" /\ sent[o] = 0
    BY <1>3
  <2> HIDE DEF delivers, handles, o
  <2>3. /\ recorded'[o] = (IF t \in plan.delivered THEN "delivered" ELSE "skipped")
        /\ sent'[o] = (IF t \in plan.delivered THEN 1 ELSE 0)
        /\ inbox'[o] = (IF t \in plan.delivered THEN "pending" ELSE "none")
    BY <1>4, <2>1, <2>2
  <2> QED BY <2>3 DEF o
<1>7. /\ inbox' \in [Occurrences -> {"none", "pending", "applied", "cancelled"}]
      /\ recorded' \in [Occurrences -> {"none", "delivered", "skipped"}]
      /\ sent' \in [Occurrences -> Nat]
  <2> HIDE DEF delivers, handles
  <2> QED BY <1>4 DEF RecordsOK
<1> QED BY <1>2, <1>3, <1>5, <1>6, <1>7

\* Once a cursor is past the boundary it counts from the cursor; before, there
\* is nothing between where the window begins and the boundary.
LEMMA Passed ==
  ASSUME NEW s \in ScheduleRecords, NEW time \in Nat, Ordered(s, time)
  PROVE  /\ Start(s) = s.cursor \/ (s.cursor < Start(s) /\ s.base = Start(s) /\ s.opened = Start(s))
         /\ s.base \in Nat /\ s.opened \in Nat /\ s.base <= s.opened /\ s.opened <= Start(s)
         /\ \A t \in Nat : s.base < t /\ t <= Start(s) => t <= s.cursor
         /\ \A t \in Nat : s.opened < t /\ t <= Start(s) => t <= s.cursor
<1>1. s.from \in Nat /\ s.cursor \in Nat /\ s.base \in Nat /\ s.opened \in Nat
  BY DEF ScheduleRecords
<1>2. s.from <= s.base /\ s.base <= s.opened /\ s.opened <= Start(s)
  BY DEF Ordered
<1> QED BY <1>1, <1>2 DEF Start, Larger

\* A step leaves its schedule in order.
LEMMA AdvancingOrders ==
  ASSUME clock \in 0..MaxClock, SchedulerAssumption, RecordsOK, CursorInv,
         NEW id, NEW now, NEW plan, Advancing(id, now, plan)
  PROVE  /\ Start(sched'[id]) = plan.toCursor
         /\ \A i \in Schedules : sched'[i].status # "none" => Ordered(sched'[i], clock)
<1> DEFINE s == sched[id]
           r == Moved(s, s, plan)
<1>1. /\ s \in ScheduleRecords /\ r \in ScheduleRecords
      /\ sched'[id] = r /\ \A i \in Schedules : i # id => sched'[i] = sched[i]
      /\ r.cursor = plan.toCursor /\ r.scanTo = plan.scanTo
      /\ r.opened = (IF s.scanTo # NoTime THEN s.opened ELSE Start(s))
      /\ r.from = s.from /\ r.base = s.base
  BY AdvancingIs
<1>2. /\ id \in Schedules /\ Exists(id) /\ Ordered(s, clock)
      /\ plan.toCursor \in Nat /\ Start(s) <= plan.toCursor /\ plan.toCursor <= clock
      /\ plan.scanTo \in Nat /\ plan.scanTo <= clock
      /\ plan.scanTo # NoTime => plan.toCursor < plan.scanTo
  BY Existing DEF Advancing, Moves, Statuses, CursorInv
<1> HIDE DEF r, s
<1>3. Start(s) \in Nat /\ s.from \in Nat /\ s.base \in Nat /\ s.opened \in Nat /\ s.from <= Start(s)
  BY <1>1, StartIs DEF ScheduleRecords
<1>4. s.from <= s.base /\ s.base <= s.opened /\ s.opened <= Start(s) /\ s.from <= clock
  BY <1>2 DEF Ordered
<1>5. Start(r) = plan.toCursor
  BY SMTT(20), <1>1, <1>2, <1>3 DEF Start, Larger
<1>6. Ordered(r, clock)
  <2>1. r.from <= r.base
    BY <1>1, <1>4
  <2>2. r.base <= r.opened /\ r.opened <= Start(r)
    BY SMTT(20), <1>1, <1>2, <1>3, <1>4, <1>5
  <2> QED BY <1>1, <1>2, <1>4, <2>1, <2>2 DEF Ordered
<1>7. ASSUME NEW i \in Schedules, sched'[i].status # "none" PROVE Ordered(sched'[i], clock)
  <2>1. CASE i = id
    BY <1>1, <1>6, <2>1
  <2>2. CASE i # id
    BY <1>1, <1>7, <2>2 DEF CursorInv, Exists
  <2> QED BY <2>1, <2>2
<1> QED BY <1>1, <1>5, <1>7

\* Which occurrences since the window began were not handled before.
LEMMA DueSplits ==
  ASSUME NEW s \in ScheduleRecords, NEW time \in Nat, Ordered(s, time),
         NEW to \in Nat, Start(s) <= to
  PROVE  /\ Between(s.spec, s.opened, to)
              = Between(s.spec, s.opened, s.cursor) \cup Between(s.spec, Start(s), to)
         /\ Between(s.spec, s.opened, s.cursor) # {} => Start(s) = s.cursor
<1>1. /\ Start(s) \in Nat /\ s.cursor \in Nat /\ s.cursor <= Start(s)
      /\ s.opened \in Nat /\ s.opened <= Start(s)
  BY StartIs, Passed DEF ScheduleRecords
<1>2. CASE Start(s) = s.cursor
  <2>1. Between(s.spec, s.opened, to)
          = Between(s.spec, s.opened, Start(s)) \cup Between(s.spec, Start(s), to)
    BY <1>1, BetweenSplits
  <2> QED BY <1>2, <2>1
<1>3. CASE Start(s) # s.cursor
  <2>1. s.opened = Start(s) /\ s.cursor < Start(s)
    BY <1>3, Passed
  <2>2. Between(s.spec, s.opened, s.cursor) = {}
    BY <1>1, <2>1, BetweenNothing
  <2> QED BY <2>1, <2>2
<1> QED BY <1>2, <1>3

\* The greatest of two parts, one above the other.
LEMMA MaxOfLater ==
  ASSUME NEW D, NEW E, D \subseteq Nat, E \subseteq Nat, E # {}, NEW bound \in Nat,
         \A e \in E : e <= bound, \A d \in D, e \in E : d < e
  PROVE  Max(D \cup E) = Max(E)
<1>1. Max(E) \in E /\ \A e \in E : Max(E) >= e
  BY MaxIs
<1>2. \A u \in D \cup E : u <= bound
  <2> SUFFICES ASSUME NEW u \in D \cup E PROVE u <= bound
    OBVIOUS
  <2>1. PICK e \in E : TRUE
    OBVIOUS
  <2>2. u \in Nat /\ e \in Nat /\ e <= bound /\ (u \in D => u < e)
    OBVIOUS
  <2> QED BY <2>2
<1>3. Max(D \cup E) \in D \cup E /\ \A u \in D \cup E : Max(D \cup E) >= u
  <2> DEFINE B == D \cup E
  <2>1. B \subseteq Nat /\ B # {} /\ \A u \in B : u <= bound
    BY <1>2
  <2> HIDE DEF B
  <2>2. Max(B) \in B /\ \A u \in B : Max(B) >= u
    BY <2>1, MaxIs
  <2> QED BY <2>2 DEF B
<1>4. Max(D \cup E) >= Max(E) /\ Max(E) \in Nat /\ Max(D \cup E) \in Nat
  BY <1>1, <1>3
<1>5. Max(D \cup E) \in E
  BY <1>1, <1>3, <1>4
<1> QED BY <1>1, <1>4, <1>5

\* A step that advances keeps what is known of the records.
LEMMA AdvancingKeeps ==
  ASSUME SchedulerAssumption, clock \in 0..MaxClock, RecordsOK, RecordInv, UNCHANGED clock,
         NEW id, NEW now, NEW plan, Advancing(id, now, plan)
  PROVE  RecordsOK' /\ RecordInv'
<1> DEFINE s == sched[id]
           r == Moved(s, s, plan)
           all == Between(s.spec, Start(s), plan.toCursor)
           window == Window(s, now)
           won == window # NoTime /\ plan.scanTo = NoTime /\ plan.toCursor = window
           w == [id |-> id, spec |-> s.spec, to |-> window, from |-> r.opened]
<1>1. /\ s \in ScheduleRecords /\ r \in ScheduleRecords
      /\ sched' \in [Schedules -> {NoSchedule} \cup ScheduleRecords]
      /\ sched'[id] = r /\ \A i \in Schedules : i # id => sched'[i] = sched[i]
      /\ r.cursor = plan.toCursor /\ r.scanTo = plan.scanTo
      /\ r.opened = (IF s.scanTo # NoTime THEN s.opened ELSE Start(s))
      /\ r.status = "active" /\ r.spec = s.spec /\ r.base = s.base
  BY AdvancingIs
<1>2. /\ id \in Schedules /\ Exists(id) /\ Ordered(s, clock) /\ Scanning(s, id)
      /\ now \in Nat /\ now <= clock
      /\ plan.toCursor \in Nat /\ Start(s) <= plan.toCursor /\ plan.toCursor <= clock
      /\ s.cursor < plan.toCursor
      /\ plan.scanTo \in Nat /\ plan.scanTo <= clock
      /\ s.spec.catchUp = "latest" => Catches(s, plan, window)
  BY Existing DEF Advancing, Moves, Statuses, RecordInv, CursorInv, WindowInv
<1>3. /\ \A o \in Occurrences : o[1] # id \/ o[2] \notin all =>
               recorded'[o] = recorded[o] /\ inbox'[o] = inbox[o] /\ sent'[o] = sent[o]
      /\ \A t \in all :
               /\ <<id, t>> \in Occurrences /\ recorded[<<id, t>>] = "none"
               /\ recorded'[<<id, t>>] = (IF t \in plan.delivered THEN "delivered" ELSE "skipped")
               /\ sent'[<<id, t>>] = (IF t \in plan.delivered THEN 1 ELSE 0)
               /\ inbox'[<<id, t>>] = (IF t \in plan.delivered THEN "pending" ELSE "none")
      /\ plan.delivered \subseteq all
      /\ inbox' \in [Occurrences -> {"none", "pending", "applied", "cancelled"}]
      /\ recorded' \in [Occurrences -> {"none", "delivered", "skipped"}]
      /\ sent' \in [Occurrences -> Nat]
  BY AdvancedIs DEF RecordInv
<1>4. /\ Start(r) = plan.toCursor
      /\ \A i \in Schedules : sched'[i].status # "none" => Ordered(sched'[i], clock)
  BY <1>1, AdvancingOrders DEF RecordInv
<1>5. /\ Start(s) \in Nat /\ s.cursor \in Nat /\ s.cursor <= Start(s) /\ s.spec \in Specifications
      /\ s.scanTo \in Nat /\ s.base \in Nat /\ s.opened \in Nat
      /\ s.base <= s.opened /\ s.opened <= Start(s)
      /\ \A t \in Nat : s.base < t /\ t <= Start(s) => t <= s.cursor
      /\ \A t \in Nat : s.opened < t /\ t <= Start(s) => t <= s.cursor
      /\ s.scanTo # NoTime => s.cursor < s.scanTo
      /\ s.scanTo <= clock
  <2> HIDE DEF s
  <2>1. Start(s) \in Nat /\ s.cursor <= Start(s)
    BY <1>1, StartIs
  <2>2. clock \in Nat
    OBVIOUS
  <2>3. /\ s.base \in Nat /\ s.opened \in Nat /\ s.base <= s.opened /\ s.opened <= Start(s)
        /\ \A t \in Nat : s.base < t /\ t <= Start(s) => t <= s.cursor
        /\ \A t \in Nat : s.opened < t /\ t <= Start(s) => t <= s.cursor
    BY <1>1, <1>2, <2>2, Passed
  <2>4. s.cursor \in Nat /\ s.spec \in Specifications /\ s.scanTo \in Nat
    BY <1>1 DEF ScheduleRecords
  <2>5. (s.scanTo # NoTime => s.cursor < s.scanTo) /\ s.scanTo <= clock
    BY <1>2 DEF Ordered
  <2> QED BY <2>1, <2>3, <2>4, <2>5
<1>6. /\ window \in Nat /\ window <= clock
      /\ s.scanTo # NoTime => window = s.scanTo
  <2>1. s.scanTo <= clock /\ clock \in Nat /\ now \in Nat /\ now <= clock
    BY <1>2, <1>5
  <2> HIDE DEF s
  <2>2. /\ Window(s, now) \in Nat /\ Window(s, now) <= clock
        /\ s.scanTo # NoTime => Window(s, now) = s.scanTo
    BY <1>1, <2>1, WindowIs
  <2> QED BY <2>2
<1>7. caught' = IF won THEN caught \cup {w} ELSE caught
  BY <1>1 DEF Advancing, Advanced
<1>8. \A o : o \in Occurrences <=> o = <<o[1], o[2]>> /\ o[1] \in Schedules /\ o[2] \in 1..MaxClock
  BY DEF Occurrences
<1>9. \A t : t \in all <=> t \in Nat /\ Start(s) < t /\ t <= plan.toCursor /\ t % s.spec.every = 0
  BY <1>2, <1>5, BetweenIs
<1> HIDE DEF s, r, all, window
<1>10. RecordsOK'
  <2>1. won => w \in Windows
    BY <1>1, <1>2, <1>5, <1>6 DEF Windows
  <2> QED BY <1>1, <1>3, <1>7, <2>1 DEF RecordsOK
<1>11. CursorInv'
  BY <1>4 DEF CursorInv, Exists
<1>12. Untouched'
  <2> SUFFICES ASSUME NEW o \in Occurrences,
                      ~(sched'[o[1]].status # "none") \/ o[2] > sched'[o[1]].cursor
               PROVE  recorded'[o] = "none" /\ inbox'[o] = "none" /\ sent'[o] = 0
    BY DEF Untouched, Exists
  <2>1. o[1] \in Schedules /\ o[2] \in Nat
    BY <1>8
  <2>2. CASE o[1] = id
    <3>1. o[2] > plan.toCursor
      BY <1>1, <2>2
    <3>2. o[2] \notin all /\ o[2] > s.cursor
      BY SMTT(20), <1>2, <1>5, <1>9, <2>1, <3>1
    <3>3. recorded[o] = "none" /\ inbox[o] = "none" /\ sent[o] = 0
      BY <2>2, <3>2 DEF RecordInv, Untouched, s
    <3> QED BY <1>3, <3>2, <3>3
  <2>3. CASE o[1] # id
    <3>1. sched'[o[1]] = sched[o[1]]
      BY <1>1, <2>1, <2>3
    <3>2. recorded[o] = "none" /\ inbox[o] = "none" /\ sent[o] = 0
      BY <3>1 DEF RecordInv, Untouched, Exists
    <3> QED BY <1>3, <2>3, <3>2
  <2> QED BY <2>2, <2>3
<1>13. DeliveredOnce'
  <2> SUFFICES ASSUME NEW o \in Occurrences
               PROVE  sent'[o] <= 1 /\ (recorded'[o] = "delivered" => sent'[o] = 1)
    BY DEF DeliveredOnce
  <2>1. CASE o[1] = id /\ o[2] \in all
    BY <1>3, <1>8, <2>1
  <2>2. CASE ~(o[1] = id /\ o[2] \in all)
    BY <1>3, <2>2 DEF RecordInv, DeliveredOnce
  <2> QED BY <2>1, <2>2
\* What is recorded stays as it is.
<1>14. ASSUME NEW o \in Occurrences, recorded[o] # "none" PROVE recorded'[o] = recorded[o]
  <2>1. CASE o[1] = id /\ o[2] \in all
    BY <1>3, <1>8, <1>14, <2>1
  <2>2. CASE ~(o[1] = id /\ o[2] \in all)
    BY <1>3, <2>2
  <2> QED BY <2>1, <2>2
<1>15. ASSUME NEW i \in Schedules, NEW t \in Nat, 0 < t, t <= clock
       PROVE  <<i, t>> \in Occurrences
  <2>1. t \in 1..MaxClock
    BY <1>15 DEF SchedulerAssumption
  <2> QED BY <2>1 DEF Occurrences
\* What is due since the boundary was recorded before, or is handled now.
<1>16. ASSUME NEW t \in Nat, s.base < t, t <= plan.toCursor, t % s.spec.every = 0
       PROVE  t \in all \/ (<<id, t>> \in Occurrences /\ recorded[<<id, t>>] # "none")
  <2>1. CASE Start(s) < t
    BY <1>9, <1>16, <2>1
  <2>2. CASE ~(Start(s) < t)
    <3>1. t <= s.cursor
      BY <1>5, <1>16, <2>2
    <3>2. t \in Between(s.spec, s.base, s.cursor)
      BY <1>5, <1>16, <3>1, BetweenIs
    <3>3. recorded[<<id, t>>] # "none"
      <4>1. sched[id] # NoSchedule
        BY <1>2, Existing
      <4> QED BY <1>2, <3>2, <4>1 DEF RecordInv, NothingForgotten, s
    <3>4. 0 < t /\ t <= clock
      BY SMTT(20), <1>2, <1>5, <1>16, <3>1
    <3> QED BY <1>2, <1>15, <3>3, <3>4
  <2> QED BY <2>1, <2>2
<1>17. ASSUME NEW t \in Nat, s.base < t, t <= plan.toCursor, t % s.spec.every = 0
       PROVE  recorded'[<<id, t>>] # "none"
  <2>1. CASE t \in all
    BY <1>3, <2>1
  <2>2. CASE <<id, t>> \in Occurrences /\ recorded[<<id, t>>] # "none"
    BY <1>14, <2>2
  <2> QED BY <1>16, <1>17, <2>1, <2>2
<1>18. NothingForgotten'
  <2> SUFFICES ASSUME NEW i \in Schedules, sched'[i] # NoSchedule,
                      NEW t \in Between(sched'[i].spec, sched'[i].base, sched'[i].cursor)
               PROVE  recorded'[<<i, t>>] # "none"
    BY DEF NothingForgotten
  <2>1. CASE i = id
    <3>1. t \in Between(s.spec, s.base, plan.toCursor)
      BY <1>1, <2>1
    <3>2. t \in Nat /\ s.base < t /\ t <= plan.toCursor /\ t % s.spec.every = 0
      BY <1>2, <1>5, <3>1, BetweenIs
    <3> QED BY <1>17, <2>1, <3>2
  <2>2. CASE i # id
    <3>1. sched'[i] = sched[i]
      BY <1>1, <2>2
    <3>2. recorded[<<i, t>>] # "none"
      BY <3>1 DEF RecordInv, NothingForgotten
    <3>3. sched[i] \in ScheduleRecords /\ Ordered(sched[i], clock)
      BY <3>1, Existing DEF RecordInv, CursorInv
    <3>4. t \in Nat /\ sched[i].base < t /\ t <= sched[i].cursor
      BY <3>1, <3>3, BetweenIs DEF ScheduleRecords
    <3>5. 0 < t /\ t <= clock
      BY SMTT(20), <3>3, <3>4 DEF Ordered, ScheduleRecords
    <3>6. <<i, t>> \in Occurrences
      BY <1>15, <3>4, <3>5
    <3> QED BY <1>14, <3>2, <3>6
  <2> QED BY <2>1, <2>2
\* Under "latest" a window that stays open has only skipped so far.
<1>19. ASSUME s.spec.catchUp = "latest", r.scanTo # NoTime,
              NEW t \in Between(s.spec, r.opened, plan.toCursor)
       PROVE  recorded'[<<id, t>>] = "skipped"
  <2>1. plan.delivered = {}
    BY <1>1, <1>2, <1>19 DEF Catches
  <2>2. t \in Nat /\ r.opened < t /\ t <= plan.toCursor /\ t % s.spec.every = 0
    <3>1. r.opened \in Nat
      BY <1>1, <1>5
    <3> QED BY <1>2, <1>19, <3>1, BetweenIs
  <2>3. CASE t \in all
    BY <1>3, <2>1, <2>3
  <2>4. CASE t \notin all
    <3>0. ~(Start(s) < t)
      BY <1>9, <2>2, <2>4
    <3>1. t <= Start(s)
      BY <1>5, <2>2, <3>0
    <3>2. s.scanTo # NoTime /\ r.opened = s.opened
      BY <1>1, <1>5, <2>2, <3>1
    <3>3. t <= s.cursor
      BY <1>5, <2>2, <3>1, <3>2
    <3>4. t \in Between(s.spec, s.opened, s.cursor)
      BY <1>5, <2>2, <3>2, <3>3, BetweenIs
    <3>5. recorded[<<id, t>>] = "skipped"
      BY <1>2, <1>19, <3>2, <3>4 DEF Scanning
    <3>6. 0 < t /\ t <= clock
      BY <1>2, <1>5, <2>2, <3>2
    <3> QED BY <1>2, <1>14, <1>15, <2>2, <3>5, <3>6
  <2> QED BY <2>3, <2>4
<1>20. WindowInv'
  <2> SUFFICES ASSUME NEW i \in Schedules, sched'[i].status # "none",
                      sched'[i].scanTo # NoTime, sched'[i].spec.catchUp = "latest",
                      Between(sched'[i].spec, sched'[i].opened, sched'[i].cursor) # {}
               PROVE  /\ \A t \in Between(sched'[i].spec, sched'[i].opened, sched'[i].cursor) :
                           recorded'[<<i, t>>] = "skipped"
                      /\ NextAfter(sched'[i].spec, Start(sched'[i])) <= sched'[i].scanTo
    BY DEF WindowInv, Exists, Scanning
  <2>1. CASE i = id
    <3>1. \A t \in Between(s.spec, r.opened, plan.toCursor) : recorded'[<<id, t>>] = "skipped"
      BY <1>1, <1>19, <2>1
    <3>2. NextAfter(s.spec, plan.toCursor) <= plan.scanTo
      BY <1>1, <1>2, <2>1 DEF Catches
    <3> QED BY <1>1, <1>4, <2>1, <3>1, <3>2
  <2>2. CASE i # id
    <3>1. sched'[i] = sched[i]
      BY <1>1, <2>2
    <3>2. /\ \A t \in Between(sched[i].spec, sched[i].opened, sched[i].cursor) :
               recorded[<<i, t>>] = "skipped"
          /\ NextAfter(sched[i].spec, Start(sched[i])) <= sched[i].scanTo
      BY <3>1 DEF RecordInv, WindowInv, Exists, Scanning
    <3>3. sched[i] \in ScheduleRecords /\ Ordered(sched[i], clock)
      BY <3>1, Existing DEF RecordInv, CursorInv, Exists
    <3>4. ASSUME NEW t \in Between(sched[i].spec, sched[i].opened, sched[i].cursor)
          PROVE  recorded'[<<i, t>>] = "skipped"
      <4>1. t \in Nat /\ sched[i].opened < t /\ t <= sched[i].cursor
        BY <3>3, BetweenIs DEF ScheduleRecords
      <4>2. 0 < t /\ t <= clock
        BY SMTT(20), <3>3, <4>1 DEF Ordered, ScheduleRecords
      <4>3. recorded[<<i, t>>] = "skipped" /\ <<i, t>> \in Occurrences
        BY <1>15, <3>2, <4>1, <4>2
      <4> QED BY <1>14, <4>3
    <3> QED BY <3>1, <3>2, <3>4
  <2> QED BY <2>1, <2>2
<1>21. ASSUME won
       PROVE  /\ window \in Nat /\ window <= clock /\ window = plan.toCursor
              /\ w.id = id /\ w.spec = s.spec /\ w.to = window /\ w.from = r.opened
              /\ r.opened \in Nat /\ s.base <= r.opened /\ r.opened <= Start(s)
  BY SMTT(20), <1>1, <1>2, <1>5, <1>6, <1>21
<1> HIDE DEF w
<1>22. ASSUME NEW v \in caught
       PROVE  /\ v.to <= clock /\ v \in Windows
              /\ \A t \in Between(v.spec, v.from, v.to) :
                    <<v.id, t>> \in Occurrences /\ recorded[<<v.id, t>>] # "none"
  <2>1. v \in Windows /\ v.to <= clock
    BY DEF RecordsOK, RecordInv, CaughtInv
  <2>2. ASSUME NEW t \in Between(v.spec, v.from, v.to)
        PROVE  <<v.id, t>> \in Occurrences /\ recorded[<<v.id, t>>] # "none"
    <3>1. t \in Nat /\ v.from < t /\ t <= v.to /\ v.from \in Nat /\ v.to \in Nat
      BY <2>1, BetweenIs DEF Windows
    <3>2. 0 < t /\ t <= clock /\ v.id \in Schedules
      BY <2>1, <3>1 DEF Windows
    <3> QED BY <1>15, <3>1, <3>2 DEF RecordInv, CaughtInv
  <2> QED BY <2>1, <2>2
<1>23. CaughtInv'
  <2> SUFFICES ASSUME NEW v \in caught'
               PROVE  /\ v.to <= clock
                      /\ \A t \in Between(v.spec, v.from, v.to) : recorded'[<<v.id, t>>] # "none"
    BY DEF CaughtInv
  <2>1. CASE v \in caught
    BY <1>14, <1>22, <2>1
  <2>2. CASE won /\ v = w
    <3>1. ASSUME NEW t \in Between(s.spec, r.opened, plan.toCursor)
          PROVE  recorded'[<<id, t>>] # "none"
      <4>1. t \in Nat /\ r.opened < t /\ t <= plan.toCursor /\ t % s.spec.every = 0
        BY SMTT(20), <1>2, <1>21, <2>2, BetweenIs
      <4>2. s.base < t
        BY SMTT(20), <1>5, <1>21, <2>2, <4>1
      <4> QED BY <1>17, <4>1, <4>2
    <3> QED BY <1>21, <2>2, <3>1
  <2> QED BY <1>7, <2>1, <2>2
\* The newest occurrence of a window that ends now is handled now.
<1>24. ASSUME won, s.spec.catchUp = "latest",
              NEW due, due = Between(s.spec, r.opened, plan.toCursor), due # {}
       PROVE  {t \in due : recorded'[<<id, t>>] = "delivered"} = {Max(due)}
  <2>1. plan.delivered = IF all = {} THEN {} ELSE {Max(all)}
    BY <1>2, <1>21, <1>24 DEF Catches, all
  <2>2. all \subseteq Nat /\ \A t \in all : t <= plan.toCursor /\ Start(s) < t
    BY <1>9
  <2>3. CASE s.scanTo = NoTime
    <3>1. due = all
      BY <1>1, <1>24, <2>3 DEF all
    <3>2. Max(all) \in all
      BY <1>2, <1>24, <2>2, <3>1, MaxIs
    <3>3. \A t \in all : recorded'[<<id, t>>] = "delivered" <=> t = Max(all)
      BY <1>3, <1>24, <2>1, <3>1
    <3> QED BY <3>1, <3>2, <3>3
  <2>4. CASE s.scanTo # NoTime
    <3> DEFINE before == Between(s.spec, s.opened, s.cursor)
    <3>1. due = before \cup all /\ (before # {} => Start(s) = s.cursor)
      <4>1. clock \in Nat
        OBVIOUS
      <4>2. due = Between(s.spec, s.opened, plan.toCursor)
        BY <1>1, <1>24, <2>4
      <4>3. /\ Between(s.spec, s.opened, plan.toCursor)
                 = before \cup Between(s.spec, Start(s), plan.toCursor)
            /\ before # {} => Start(s) = s.cursor
        BY <1>1, <1>2, <4>1, DueSplits
      <4> QED BY <4>2, <4>3 DEF all
    <3>2. CASE before = {}
      <4>1. due = all
        BY <3>1, <3>2
      <4>2. Max(all) \in all
        BY <1>2, <1>24, <2>2, <4>1, MaxIs
      <4>3. \A t \in all : recorded'[<<id, t>>] = "delivered" <=> t = Max(all)
        BY <1>3, <1>24, <2>1, <4>1
      <4> QED BY <4>1, <4>2, <4>3
    <3>3. CASE before # {}
      <4>1. /\ \A t \in before : recorded[<<id, t>>] = "skipped"
            /\ NextAfter(s.spec, Start(s)) <= s.scanTo
        BY <1>2, <1>24, <2>4, <3>3 DEF Scanning
      <4>2. plan.toCursor = s.scanTo
        BY <1>6, <1>21, <1>24, <2>4
      <4>3. all # {}
        <5>1. NextAfter(s.spec, Start(s)) \in Nat
          BY <1>5, NextIsNext DEF Specifications
        <5>2. Between(s.spec, Start(s), plan.toCursor) = {}
                <=> NextAfter(s.spec, Start(s)) > plan.toCursor
          BY <1>2, <1>5, NothingBefore
        <5> QED BY <1>2, <4>1, <4>2, <5>1, <5>2 DEF all
      <4>4. Max(all) \in all /\ \A t \in all : Max(all) >= t
        BY <1>2, <2>2, <4>3, MaxIs
      <4>5. before \subseteq Nat /\ \A t \in before : t <= s.cursor /\ s.opened < t
        BY <1>5, BetweenIs
      <4>6. \A t \in before, u \in all : t < u
        <5> SUFFICES ASSUME NEW t \in before, NEW u \in all PROVE t < u
          OBVIOUS
        <5>1. t \in Nat /\ u \in Nat /\ t <= s.cursor /\ Start(s) < u
          BY <2>2, <4>5
        <5> QED BY <1>5, <5>1
      <4> HIDE DEF before
      <4>7. Max(due) = Max(all)
        BY <1>2, <2>2, <3>1, <4>3, <4>5, <4>6, MaxOfLater
      <4>8. \A t \in before : recorded'[<<id, t>>] = "skipped"
        <5> SUFFICES ASSUME NEW t \in before PROVE recorded'[<<id, t>>] = "skipped"
          OBVIOUS
        <5>1. t \in Nat /\ t <= s.cursor /\ s.opened < t
          BY <4>5
        <5>2. 0 < t /\ t <= clock
          BY SMTT(20), <1>2, <1>5, <5>1
        <5>3. <<id, t>> \in Occurrences
          BY <1>2, <1>15, <5>1, <5>2
        <5> QED BY <1>14, <4>1, <5>3
      <4>9. \A t \in all : recorded'[<<id, t>>] = "delivered" <=> t = Max(all)
        BY <1>3, <2>1, <4>3
      <4> QED BY <3>1, <4>4, <4>7, <4>8, <4>9
    <3> QED BY <3>2, <3>3
  <2> QED BY <2>3, <2>4
<1>25. LatestDeliversTheNewest'
  <2> SUFFICES ASSUME NEW v \in caught', v.spec.catchUp = "latest",
                      NEW due, due = Between(v.spec, v.from, v.to), due # {}
               PROVE  {t \in due : recorded'[<<v.id, t>>] = "delivered"} = {Max(due)}
    BY DEF LatestDeliversTheNewest
  <2>1. CASE v \in caught
    <3>1. {t \in due : recorded[<<v.id, t>>] = "delivered"} = {Max(due)}
      BY <2>1 DEF RecordInv, LatestDeliversTheNewest
    <3>2. \A t \in due : recorded'[<<v.id, t>>] = recorded[<<v.id, t>>]
      BY <1>14, <1>22, <2>1
    <3> QED BY <3>1, <3>2
  <2>2. CASE won /\ v = w
    BY <1>21, <1>24, <2>2
  <2> QED BY <1>7, <2>1, <2>2
<1>26. CancelledIsQuiet'
  <2> SUFFICES ASSUME NEW o \in Occurrences, sched'[o[1]].status = "cancelled"
               PROVE  inbox'[o] # "pending"
    BY DEF CancelledIsQuiet
  <2>1. o[1] # id /\ o[1] \in Schedules
    BY <1>1, <1>8
  <2>2. sched'[o[1]] = sched[o[1]]
    BY <1>1, <2>1
  <2> QED BY <1>3, <2>1, <2>2 DEF RecordInv, CancelledIsQuiet
<1> QED BY <1>10, <1>11, <1>12, <1>13, <1>18, <1>20, <1>23, <1>25, <1>26 DEF RecordInv

-----------------------------------------------------------------------------
(* A host's change lands. *)

LEMMA CreatedIs ==
  ASSUME NEW spec \in Specifications, NEW from \in Nat, NEW time \in Nat, from <= time
  PROVE  LET r == Created(spec, from)
         IN /\ r \in ScheduleRecords /\ Ordered(r, time)
            /\ r.status = "active" /\ r.scanTo = NoTime
            /\ r.cursor = from /\ r.base = from /\ r.opened = from
<1> DEFINE r == Created(spec, from)
<1>1. /\ r \in ScheduleRecords
      /\ r.status = "active" /\ r.scanTo = NoTime /\ r.from = from
      /\ r.cursor = from /\ r.base = from /\ r.opened = from
  BY DEF Created, ScheduleRecords, Statuses, NoTime
<1> HIDE DEF r
<1>2. Start(r) = from
  BY <1>1 DEF Start, Larger
<1>3. Ordered(r, time)
  BY <1>1, <1>2 DEF Ordered, NoTime
<1> QED BY <1>1, <1>3 DEF r

\* A change of status counts the revision on and keeps the rest.
LEMMA RevisedIs ==
  ASSUME NEW s \in ScheduleRecords, NEW status \in Statuses
  PROVE  LET r == Revised(s, status)
         IN /\ r \in ScheduleRecords /\ r.status = status /\ r.revision = s.revision + 1
            /\ r.spec = s.spec /\ r.from = s.from /\ r.cursor = s.cursor
            /\ r.scanTo = s.scanTo /\ r.base = s.base /\ r.opened = s.opened
<1> DEFINE next == s.revision + 1
           r == [s EXCEPT !.status = status, !.revision = next]
<1>1. next \in Nat \ {0}
  BY DEF ScheduleRecords
<1>2. r = Revised(s, status)
  BY DEF Revised
<1> HIDE DEF next
<1>3. /\ r \in ScheduleRecords /\ r.status = status /\ r.revision = next
      /\ r.spec = s.spec /\ r.from = s.from /\ r.cursor = s.cursor
      /\ r.scanTo = s.scanTo /\ r.base = s.base /\ r.opened = s.opened
  BY <1>1 DEF ScheduleRecords
<1> HIDE DEF r
<1> QED BY <1>2, <1>3 DEF next

\* A new interval or a resume counts from the change, never from before the cursor.
LEMMA RebasedIs ==
  ASSUME NEW s \in ScheduleRecords, NEW status \in Statuses, NEW spec \in Specifications,
         NEW from \in Nat, NEW time \in Nat, from <= time, Ordered(s, time)
  PROVE  LET r == Rebased(s, status, spec, from)
         IN /\ r \in ScheduleRecords /\ Ordered(r, time)
            /\ r.status = status /\ r.revision = s.revision + 1
            /\ r.cursor = s.cursor /\ r.cursor <= r.base /\ r.cursor <= r.opened
<1> DEFINE v == Revised(s, status)
           r == [v EXCEPT !.spec = spec, !.from = from, !.base = Larger(from, s.cursor),
                          !.opened = Larger(from, s.cursor)]
<1>1. /\ v \in ScheduleRecords /\ v.status = status /\ v.revision = s.revision + 1
      /\ v.cursor = s.cursor /\ v.scanTo = s.scanTo
  BY RevisedIs
<1>2. /\ s.cursor \in Nat /\ s.scanTo \in Nat /\ Larger(from, s.cursor) \in Nat
      /\ s.cursor <= Larger(from, s.cursor) /\ from <= Larger(from, s.cursor)
      /\ Larger(from, s.cursor) = Larger(s.cursor, from)
  BY DEF ScheduleRecords, Larger
<1> HIDE DEF v
<1>3. /\ r \in ScheduleRecords /\ r.status = status /\ r.revision = s.revision + 1
      /\ r.cursor = s.cursor /\ r.scanTo = s.scanTo /\ r.from = from
      /\ r.base = Larger(from, s.cursor) /\ r.opened = Larger(from, s.cursor)
  BY <1>1, <1>2 DEF ScheduleRecords
<1>4. r = Rebased(s, status, spec, from)
  BY DEF Rebased, v
<1> HIDE DEF r
<1>5. Start(r) = Larger(from, s.cursor)
  BY <1>2, <1>3 DEF Start
<1>6. Ordered(r, time)
  BY <1>2, <1>3, <1>5 DEF Ordered
<1> QED BY <1>2, <1>3, <1>4, <1>6

\* What a change keeps of the schedule, or where it begins to count anew.
Keeps(r, s) ==
  r.spec = s.spec /\ r.cursor = s.cursor /\ r.scanTo = s.scanTo
  /\ r.base = s.base /\ r.opened = s.opened /\ r.from = s.from

\* What a change of a host makes of a schedule and of its deliveries.
LEMMA LandsIs ==
  ASSUME SchedulerAssumption, SchedulerTypeOK, CursorInv, Lands, NEW id, id = host.id
  PROVE  /\ id \in Schedules /\ sched'[id] \in ScheduleRecords
         /\ sched' \in [Schedules -> {NoSchedule} \cup ScheduleRecords]
         /\ \A i \in Schedules : i # id => sched'[i] = sched[i]
         /\ Ordered(sched'[id], clock)
         /\ Exists(id) => /\ sched[id].status # "cancelled"
                          /\ sched'[id].revision = sched[id].revision + 1
                          /\ sched'[id].cursor = sched[id].cursor
         /\ \/ Exists(id) /\ Keeps(sched'[id], sched[id])
            \/ sched'[id].cursor <= sched'[id].base /\ sched'[id].cursor <= sched'[id].opened
         /\ \/ inbox' = inbox /\ sched'[id].status # "cancelled"
            \/ inbox' = Disposed(id)
<1> DEFINE s == sched[id]
<1>1. /\ host \in Changes /\ id \in Schedules /\ host.spec \in Specifications
      /\ host.from \in Nat /\ host.from <= clock /\ clock \in Nat
  <2>1. host \in Changes /\ host.from <= clock
    BY DEF Lands, SchedulerTypeOK
  <2> QED BY <2>1 DEF Changes, SchedulerTypeOK
<1>2. RecordsOK
  BY DEF SchedulerTypeOK
<1>3. ASSUME NEW r \in ScheduleRecords, Becomes(r)
      PROVE  /\ sched'[id] = r /\ sched' \in [Schedules -> {NoSchedule} \cup ScheduleRecords]
             /\ \A i \in Schedules : i # id => sched'[i] = sched[i]
  BY <1>1, <1>2, <1>3 DEF Becomes, RecordsOK
<1>4. Exists(id) => s \in ScheduleRecords /\ Ordered(s, clock)
  BY <1>1, <1>2, Existing DEF CursorInv
<1>5. s # NoSchedule => Exists(id)
  BY <1>1, <1>2, Existing
<1>6. s = NoSchedule => ~Exists(id)
  BY <1>1, <1>2, Existing
<1>7. \/ s = NoSchedule /\ Becomes(Created(host.spec, host.from)) /\ inbox' = inbox
      \/ /\ s # NoSchedule /\ s.status # "cancelled"
         /\ Becomes(Rebased(s, s.status, host.spec, host.from)) /\ inbox' = inbox
      \/ /\ s # NoSchedule /\ s.status # "cancelled"
         /\ Becomes(Revised(s, "paused")) /\ inbox' = inbox
      \/ /\ s # NoSchedule /\ s.status # "cancelled"
         /\ Becomes(Rebased(s, "active", s.spec, host.from)) /\ inbox' = inbox
      \/ /\ s # NoSchedule /\ s.status # "cancelled"
         /\ Becomes(Revised(s, "cancelled")) /\ inbox' = Disposed(id)
  BY DEF Lands, Changeable
<1> HIDE DEF s
<1>8. CASE s = NoSchedule /\ Becomes(Created(host.spec, host.from)) /\ inbox' = inbox
  <2> DEFINE r == Created(host.spec, host.from)
  <2>1. /\ r \in ScheduleRecords /\ Ordered(r, clock) /\ r.status = "active"
        /\ r.cursor = host.from /\ r.base = host.from /\ r.opened = host.from
    BY <1>1, CreatedIs
  <2>2. Becomes(r)
    BY <1>8
  <2> HIDE DEF r
  <2>3. r.cursor <= r.base /\ r.cursor <= r.opened
    BY <1>1, <2>1
  <2> QED BY <1>1, <1>3, <1>6, <1>8, <2>1, <2>2, <2>3
<1>9. ASSUME NEW status \in {"active", "paused"}, NEW spec \in Specifications,
             s # NoSchedule, s.status # "cancelled", inbox' = inbox,
             Becomes(Rebased(s, status, spec, host.from))
      PROVE  /\ sched'[id] \in ScheduleRecords
             /\ sched' \in [Schedules -> {NoSchedule} \cup ScheduleRecords]
             /\ \A i \in Schedules : i # id => sched'[i] = sched[i]
             /\ Ordered(sched'[id], clock)
             /\ sched'[id].revision = s.revision + 1 /\ sched'[id].cursor = s.cursor
             /\ sched'[id].cursor <= sched'[id].base /\ sched'[id].cursor <= sched'[id].opened
             /\ sched'[id].status # "cancelled"
  <2> DEFINE r == Rebased(s, status, spec, host.from)
  <2>1. s \in ScheduleRecords /\ Ordered(s, clock) /\ status \in Statuses
    BY <1>4, <1>5, <1>9 DEF Statuses
  <2>2. /\ r \in ScheduleRecords /\ Ordered(r, clock) /\ r.status = status
        /\ r.revision = s.revision + 1
        /\ r.cursor = s.cursor /\ r.cursor <= r.base /\ r.cursor <= r.opened
    BY <1>1, <2>1, RebasedIs
  <2>3. Becomes(r)
    BY <1>9
  <2> HIDE DEF r
  <2> QED BY <1>3, <2>2, <2>3
<1>10. CASE \/ /\ s # NoSchedule /\ s.status # "cancelled"
               /\ Becomes(Rebased(s, s.status, host.spec, host.from)) /\ inbox' = inbox
            \/ /\ s # NoSchedule /\ s.status # "cancelled"
               /\ Becomes(Rebased(s, "active", s.spec, host.from)) /\ inbox' = inbox
  <2>1. s \in ScheduleRecords
    BY <1>4, <1>5, <1>10
  <2>2. s.status \in {"active", "paused"} /\ s.spec \in Specifications
    BY <1>10, <2>1 DEF ScheduleRecords, Statuses
  <2>3. /\ sched'[id] \in ScheduleRecords
        /\ sched' \in [Schedules -> {NoSchedule} \cup ScheduleRecords]
        /\ \A i \in Schedules : i # id => sched'[i] = sched[i]
        /\ Ordered(sched'[id], clock)
        /\ sched'[id].revision = s.revision + 1 /\ sched'[id].cursor = s.cursor
        /\ sched'[id].cursor <= sched'[id].base /\ sched'[id].cursor <= sched'[id].opened
        /\ sched'[id].status # "cancelled"
    BY <1>1, <1>9, <1>10, <2>2
  <2> QED BY <1>1, <1>10, <2>3 DEF s
<1>11. CASE \E status \in {"paused", "cancelled"} :
              /\ s # NoSchedule /\ s.status # "cancelled" /\ Becomes(Revised(s, status))
              /\ inbox' = IF status = "paused" THEN inbox ELSE Disposed(id)
  <2>1. PICK status \in {"paused", "cancelled"} :
              /\ s # NoSchedule /\ s.status # "cancelled" /\ Becomes(Revised(s, status))
              /\ inbox' = IF status = "paused" THEN inbox ELSE Disposed(id)
    BY <1>11
  <2> DEFINE r == Revised(s, status)
  <2>2. s \in ScheduleRecords /\ Ordered(s, clock) /\ status \in Statuses
    BY <1>4, <1>5, <2>1 DEF Statuses
  <2>3. /\ r \in ScheduleRecords /\ r.status = status /\ r.revision = s.revision + 1
        /\ Keeps(r, s)
    BY <2>2, RevisedIs DEF Keeps
  <2>4. Becomes(r)
    BY <2>1
  <2> HIDE DEF r
  <2>5. Ordered(r, clock)
    <3>1. Start(r) = Start(s)
      BY <2>3 DEF Keeps, Start
    <3> QED BY <2>2, <2>3, <3>1 DEF Keeps, Ordered
  <2>6. sched'[id] = r /\ sched' \in [Schedules -> {NoSchedule} \cup ScheduleRecords]
        /\ \A i \in Schedules : i # id => sched'[i] = sched[i]
    BY <1>3, <2>3, <2>4
  <2> QED BY <1>1, <1>5, <2>1, <2>3, <2>5, <2>6 DEF Keeps, s
<1> QED BY <1>7, <1>8, <1>10, <1>11

\* A change of a host keeps what is known of the records.
LEMMA LandsKeeps ==
  ASSUME SchedulerAssumption, SchedulerTypeOK, RecordInv, Lands
  PROVE  RecordsOK' /\ RecordInv'
<1> DEFINE id == host.id
           s == sched[id]
           r == sched'[id]
<1>1. /\ id \in Schedules /\ r \in ScheduleRecords
      /\ sched' \in [Schedules -> {NoSchedule} \cup ScheduleRecords]
      /\ \A i \in Schedules : i # id => sched'[i] = sched[i]
      /\ Ordered(r, clock)
      /\ Exists(id) => s.status # "cancelled" /\ r.cursor = s.cursor
      /\ \/ Exists(id) /\ Keeps(r, s)
         \/ r.cursor <= r.base /\ r.cursor <= r.opened
      /\ \/ inbox' = inbox /\ r.status # "cancelled"
         \/ inbox' = Disposed(id)
  BY LandsIs DEF RecordInv
<1>2. UNCHANGED <<clock, recorded, sent, caught>>
  BY DEF Lands
<1>3. RecordsOK
  BY DEF SchedulerTypeOK
<1>4. \A o : o \in Occurrences <=> o = <<o[1], o[2]>> /\ o[1] \in Schedules /\ o[2] \in 1..MaxClock
  BY DEF Occurrences
<1> HIDE DEF id, s, r
<1>5. ASSUME NEW o \in Occurrences
      PROVE  inbox'[o] = inbox[o] \/ (o[1] = id /\ inbox[o] = "pending" /\ inbox'[o] = "cancelled")
  BY <1>1, <1>3 DEF Disposed
<1>6. RecordsOK'
  <2>1. inbox' \in [Occurrences -> {"none", "pending", "applied", "cancelled"}]
    BY <1>1, <1>3 DEF Disposed, RecordsOK
  <2> QED BY <1>1, <1>2, <1>3, <2>1 DEF RecordsOK
<1>7. r.cursor \in Nat /\ r.base \in Nat /\ r.opened \in Nat
  BY <1>1 DEF ScheduleRecords
<1>8. CursorInv'
  <2> SUFFICES ASSUME NEW i \in Schedules, sched'[i].status # "none"
               PROVE  Ordered(sched'[i], clock)
    BY <1>2 DEF CursorInv, Exists
  <2>1. CASE i = id
    BY <1>1, <2>1 DEF r
  <2>2. CASE i # id
    BY <1>1, <2>2 DEF RecordInv, CursorInv, Exists
  <2> QED BY <2>1, <2>2
<1>9. Untouched'
  <2> SUFFICES ASSUME NEW o \in Occurrences,
                      ~(sched'[o[1]].status # "none") \/ o[2] > sched'[o[1]].cursor
               PROVE  recorded[o] = "none" /\ inbox'[o] = "none" /\ sent[o] = 0
    BY <1>2 DEF Untouched, Exists
  <2>1. ~Exists(o[1]) \/ o[2] > sched[o[1]].cursor
    <3>1. CASE o[1] = id
      <4>1. sched'[o[1]].status # "none"
        BY <1>1, <3>1 DEF r, ScheduleRecords, Statuses
      <4> QED BY <1>1, <3>1, <4>1 DEF r, s
    <3>2. CASE o[1] # id
      BY <1>1, <1>4, <3>2 DEF Exists
    <3> QED BY <3>1, <3>2
  <2>2. recorded[o] = "none" /\ inbox[o] = "none" /\ sent[o] = 0
    BY <2>1 DEF RecordInv, Untouched
  <2> QED BY <1>5, <2>2
<1>10. DeliveredOnce'
  BY <1>2 DEF RecordInv, DeliveredOnce
<1>11. NothingForgotten'
  <2> SUFFICES ASSUME NEW i \in Schedules, sched'[i] # NoSchedule,
                      NEW t \in Between(sched'[i].spec, sched'[i].base, sched'[i].cursor)
               PROVE  recorded[<<i, t>>] # "none"
    BY <1>2 DEF NothingForgotten
  <2>1. CASE i = id /\ Exists(id) /\ Keeps(r, s)
    <3>1. sched[i] # NoSchedule
      BY <1>1, <1>3, <2>1, Existing
    <3>2. t \in Between(sched[i].spec, sched[i].base, sched[i].cursor)
      BY <2>1 DEF Keeps, r, s
    <3> QED BY <3>1, <3>2 DEF RecordInv, NothingForgotten
  <2>2. CASE i = id /\ r.cursor <= r.base
    <3>1. Between(r.spec, r.base, r.cursor) = {}
      BY <1>7, <2>2, BetweenNothing
    <3> QED BY <2>2, <3>1 DEF r
  <2>3. CASE i # id
    BY <1>1, <2>3 DEF RecordInv, NothingForgotten
  <2> QED BY <1>1, <2>1, <2>2, <2>3
<1>12. WindowInv'
  <2> SUFFICES ASSUME NEW i \in Schedules, sched'[i].status # "none",
                      sched'[i].scanTo # NoTime, sched'[i].spec.catchUp = "latest",
                      Between(sched'[i].spec, sched'[i].opened, sched'[i].cursor) # {}
               PROVE  /\ \A t \in Between(sched'[i].spec, sched'[i].opened, sched'[i].cursor) :
                           recorded[<<i, t>>] = "skipped"
                      /\ NextAfter(sched'[i].spec, Start(sched'[i])) <= sched'[i].scanTo
    BY <1>2 DEF WindowInv, Exists, Scanning
  <2>1. CASE i = id /\ Exists(id) /\ Keeps(r, s)
    <3>1. /\ sched'[i].spec = sched[i].spec /\ sched'[i].opened = sched[i].opened
          /\ sched'[i].cursor = sched[i].cursor /\ sched'[i].scanTo = sched[i].scanTo
          /\ Start(sched'[i]) = Start(sched[i])
      BY <2>1 DEF Keeps, r, s, Start
    <3> QED BY <2>1, <3>1 DEF RecordInv, WindowInv, Scanning, Exists
  <2>2. CASE i = id /\ r.cursor <= r.opened
    <3>1. Between(r.spec, r.opened, r.cursor) = {}
      BY <1>7, <2>2, BetweenNothing
    <3> QED BY <2>2, <3>1 DEF r
  <2>3. CASE i # id
    BY <1>1, <2>3 DEF RecordInv, WindowInv, Scanning, Exists
  <2> QED BY <1>1, <2>1, <2>2, <2>3
<1>13. CaughtInv' /\ LatestDeliversTheNewest'
  BY <1>2 DEF RecordInv, CaughtInv, LatestDeliversTheNewest
<1>14. CancelledIsQuiet'
  <2> SUFFICES ASSUME NEW o \in Occurrences, sched'[o[1]].status = "cancelled"
               PROVE  inbox'[o] # "pending"
    BY DEF CancelledIsQuiet
  <2>1. CASE o[1] = id
    <3>1. inbox' = Disposed(id)
      BY <1>1, <2>1 DEF r
    <3> QED BY <2>1, <3>1 DEF Disposed
  <2>2. CASE o[1] # id
    <3>1. sched[o[1]].status = "cancelled"
      BY <1>1, <1>4, <2>2
    <3> QED BY <1>5, <2>2, <3>1 DEF RecordInv, CancelledIsQuiet
  <2> QED BY <2>1, <2>2
<1> QED BY <1>6, <1>8, <1>9, <1>10, <1>11, <1>12, <1>13, <1>14 DEF RecordInv

\* What a goal does with an entry of its inbox, or retention: the entry was there.
LEMMA EntryMoves ==
  ASSUME RecordsOK, RecordInv, NEW o \in Occurrences, NEW to \in {"none", "applied"},
         inbox[o] # "none", inbox' = [inbox EXCEPT ![o] = to],
         UNCHANGED <<clock, sched, recorded, sent, caught>>
  PROVE  RecordsOK' /\ RecordInv'
<1>1. RecordsOK'
  BY DEF RecordsOK
<1>2. \A q \in Occurrences : inbox'[q] = inbox[q] \/ (q = o /\ inbox'[q] = to)
  BY DEF RecordsOK
<1>3. Untouched'
  BY <1>2 DEF RecordInv, Untouched, Exists
<1>4. CancelledIsQuiet'
  BY <1>2 DEF RecordInv, CancelledIsQuiet
<1>5. CursorInv' /\ DeliveredOnce' /\ NothingForgotten' /\ WindowInv' /\ CaughtInv'
  BY DEF RecordInv, CursorInv, Exists, DeliveredOnce, NothingForgotten, WindowInv, Scanning, CaughtInv
<1>6. LatestDeliversTheNewest'
  BY DEF RecordInv, LatestDeliversTheNewest
<1> QED BY <1>1, <1>3, <1>4, <1>5, <1>6 DEF RecordInv

\* Time passes.
LEMMA TimePasses ==
  ASSUME clock \in Nat, RecordsOK, RecordInv, StoresStay, clock' \in Nat, clock <= clock'
  PROVE  RecordsOK' /\ RecordInv'
<1>1. RecordsOK' /\ Untouched' /\ DeliveredOnce' /\ NothingForgotten' /\ WindowInv'
  BY ZenonT(30) DEF RecordsOK, RecordInv, StoresStay, Untouched, Exists, DeliveredOnce, NothingForgotten,
         WindowInv, Scanning
<1>2. LatestDeliversTheNewest' /\ CancelledIsQuiet'
  BY DEF RecordInv, StoresStay, LatestDeliversTheNewest, CancelledIsQuiet
<1>3. CursorInv'
  <2> SUFFICES ASSUME NEW i \in Schedules, Exists(i) PROVE Ordered(sched[i], clock')
    BY DEF CursorInv, StoresStay, Exists
  <2>1. sched[i] \in ScheduleRecords /\ Ordered(sched[i], clock)
    BY Existing DEF RecordInv, CursorInv
  <2>2. sched[i].from \in Nat /\ sched[i].cursor \in Nat /\ sched[i].scanTo \in Nat
    BY <2>1 DEF ScheduleRecords
  <2> QED BY <2>1, <2>2 DEF Ordered
<1>4. CaughtInv'
  <2> SUFFICES ASSUME NEW w \in caught PROVE w.to <= clock'
    BY DEF CaughtInv, StoresStay, RecordInv
  <2>1. w.to \in Nat /\ w.to <= clock
    BY DEF RecordsOK, Windows, RecordInv, CaughtInv
  <2> QED BY <2>1
<1> QED BY <1>1, <1>2, <1>3, <1>4 DEF RecordInv

-----------------------------------------------------------------------------
(* A scheduler's queue. *)

LEMMA TailIs ==
  ASSUME NEW S, NEW q \in Seq(S), q # <<>>
  PROVE  /\ Tail(q) \in Seq(S) /\ Len(q) \in Nat /\ Len(Tail(q)) = Len(q) - 1 /\ Len(q) >= 1
         /\ q[1] \in S
         /\ \A i \in 1..(Len(q) - 1) : Tail(q)[i] = q[i + 1]
  OBVIOUS

\* A queue with one more.
LEMMA AppendIs ==
  ASSUME NEW S, NEW q \in Seq(S), NEW e \in S
  PROVE  /\ Append(q, e) \in Seq(S) /\ Len(Append(q, e)) = Len(q) + 1
         /\ \A i \in 1..Len(q) : Append(q, e)[i] = q[i]
         /\ Append(q, e)[Len(q) + 1] = e
  OBVIOUS

\* A share is a delivery at least.
LEMMA ShareIs ==
  ASSUME NEW budget \in Int, NEW S, NEW q \in Seq(S), q # <<>>
  PROVE  Share(budget, q) \in Int /\ Share(budget, q) >= 1
<1>1. Len(q) \in Nat /\ Len(q) >= 1
  BY TailIs
<1>2. budget \div Len(q) \in Int
  BY <1>1
<1> QED BY <1>2 DEF Share, Larger

\* The tick of x with its round begun, or going on.
LEMMA GoesIs ==
  ASSUME tick \in [Schedulers -> TickRecords], NEW x \in Schedulers,
         NEW t \in TickRecords, t.queue # <<>> => t.share >= 1, Goes(x, t)
  PROVE  LET v == tick'[x]
         IN /\ tick' \in [Schedulers -> TickRecords] /\ hungry' = hungry
            /\ \A y \in Schedulers : y # x => tick'[y] = tick[y]
            /\ v \in TickRecords /\ v.now = t.now /\ v.pc = t.pc /\ v.last = t.last
            /\ v.waiting = t.waiting /\ v.left = t.left /\ v.budget = t.budget
            /\ Waits(v) = Waits(t)
            /\ v.queue # <<>> => v.share >= 1
            /\ t.queue # <<>> => v = t
<1> DEFINE share == IF t.again = <<>> THEN 0 ELSE Share(t.budget, t.again)
           again == t.again
           nobody == <<>>
           u == [t EXCEPT !.queue = again, !.again = nobody, !.share = share]
           v == IF t.queue # <<>> THEN t ELSE u
<1>1. again \in Seq(Entries) /\ t.queue \in Seq(Entries) /\ t.budget \in Int
  BY DEF TickRecords
<1>2. share \in Int /\ (again # <<>> => share >= 1)
  BY <1>1, ShareIs
<1>3. tick' = [tick EXCEPT ![x] = v] /\ hungry' = hungry
  BY Zenon DEF Goes
<1>0. nobody \in Seq(Entries)
  OBVIOUS
<1> HIDE DEF share, again, nobody
<1>4. /\ u \in TickRecords /\ u.now = t.now /\ u.pc = t.pc /\ u.last = t.last
      /\ u.waiting = t.waiting /\ u.left = t.left /\ u.budget = t.budget
      /\ u.queue = again /\ u.again = nobody /\ u.share = share
  BY <1>0, <1>1, <1>2 DEF TickRecords
<1> HIDE DEF u
<1>5. t.queue = <<>> => Waits(u) = Waits(t)
  <2> SUFFICES ASSUME t.queue = <<>> PROVE Waits(u) = Waits(t)
    OBVIOUS
  <2>1. 1..Len(t.queue) = {} /\ 1..Len(u.again) = {}
    BY <1>4 DEF nobody
  <2>2. u.queue = t.again
    BY <1>4 DEF again
  <2>3. Waits(u) = {t.again[i] : i \in 1..Len(t.again)}
    BY <2>1, <2>2 DEF Waits
  <2>4. Waits(t) = {t.again[i] : i \in 1..Len(t.again)}
    BY <2>1 DEF Waits
  <2> QED BY <2>3, <2>4
<1>6. tick'[x] = v /\ \A y \in Schedulers : y # x => tick'[y] = tick[y]
  BY <1>3
<1>7. v \in TickRecords
  BY <1>4
<1>8. tick' \in [Schedulers -> TickRecords]
  BY <1>3, <1>7
<1>9. CASE t.queue # <<>>
  BY <1>3, <1>6, <1>7, <1>8, <1>9
<1>10. CASE t.queue = <<>>
  BY <1>2, <1>3, <1>4, <1>5, <1>6, <1>7, <1>8, <1>10
<1> QED BY <1>9, <1>10

\* The tick after the head of the queue had its turn.
Turned(t, v, head) ==
  /\ v \in TickRecords /\ v.queue = Tail(t.queue)
  /\ v.pc = t.pc /\ v.now = t.now /\ v.share = t.share
  /\ \A id \in Schedules : id # head.id => v.left[id] = t.left[id]

TurnTaken(t, v, head, s) ==
  /\ Turned(t, v, head) /\ v.last = head.id /\ v.waiting = t.waiting \ {head.id}
  /\ v.again = t.again \/ v.again = Append(t.again, [id |-> head.id, seen |-> s])
TurnLost(t, v, head, waiting) ==
  /\ Turned(t, v, head) /\ v.last = t.last /\ v.waiting = waiting
  /\ v.budget = t.budget /\ v.again = t.again /\ v.left = t.left

\* The head had a step.
LEMMA SteppedIs ==
  ASSUME NEW t \in TickRecords, t.queue # <<>>, NEW head \in Entries,
         NEW plan, plan.scanned \in Int, IsFiniteSet(plan.delivered),
         NEW s \in ScheduleRecords, s = Moved(head.seen, head.seen, plan),
         NEW v, v = Stepped(t, head, plan)
  PROVE  TurnTaken(t, v, head, s)
<1> DEFINE left == t.left[head.id] - plan.scanned
           again == IF Due(s, t.now) /\ left > 0
                    THEN Append(t.again, [id |-> head.id, seen |-> s]) ELSE t.again
           lefts == [t.left EXCEPT ![head.id] = left]
           queue == Tail(t.queue)
           waiting == t.waiting \ {head.id}
           budget == t.budget - Cardinality(plan.delivered)
           last == head.id
           u == [t EXCEPT !.queue = queue, !.last = last, !.left = lefts,
                          !.waiting = waiting, !.budget = budget, !.again = again]
<1>1. /\ t.queue \in Seq(Entries) /\ t.again \in Seq(Entries) /\ t.budget \in Int
      /\ t.left \in [Schedules -> Int] /\ t.waiting \subseteq Schedules
  BY DEF TickRecords
<1>2. queue \in Seq(Entries)
  BY <1>1, TailIs
<1>3. head.id \in Schedules /\ head.id \in 0..NumSchedules
  BY DEF Entries, Schedules
<1>4. left \in Int /\ lefts \in [Schedules -> Int]
      /\ \A id \in Schedules : id # head.id => lefts[id] = t.left[id]
  BY <1>1, <1>3
<1>5. [id |-> head.id, seen |-> s] \in Entries
  BY <1>3 DEF Entries
<1>6. again \in Seq(Entries)
  BY <1>1, <1>5, AppendIs
<1>7. Cardinality(plan.delivered) \in Nat
  BY FS_CardinalityType
<1>8. v = u
  BY DEF Stepped
<1>9. budget \in Int /\ waiting \in SUBSET Schedules
  BY <1>1, <1>7
<1>10. again = t.again \/ again = Append(t.again, [id |-> head.id, seen |-> s])
  OBVIOUS
<1> HIDE DEF left, again, lefts, queue, waiting, budget, last
<1>11. /\ u \in TickRecords /\ u.queue = queue /\ u.last = last /\ u.left = lefts
       /\ u.waiting = waiting /\ u.again = again
       /\ u.pc = t.pc /\ u.now = t.now /\ u.share = t.share
  <2>1. last \in 0..NumSchedules
    BY <1>3 DEF last
  <2> QED BY <1>2, <1>4, <1>6, <1>9, <2>1 DEF TickRecords
<1> HIDE DEF u
<1> QED BY <1>4, <1>8, <1>10, <1>11 DEF TurnTaken, Turned, queue, last, waiting

\* The head was advanced by another.
LEMMA ConflictedIs ==
  ASSUME RecordsOK, NEW t \in TickRecords, t.queue # <<>>, NEW head \in Entries,
         Exists(head.id), NEW v, v = Conflicted(t, head)
  PROVE  TurnTaken(t, v, head, sched[head.id])
<1> DEFINE s == sched[head.id]
           n == t.conflicts[head.id] + 1
           conflicts == [t.conflicts EXCEPT ![head.id] = n]
           again == IF s.status = "active" /\ n < MaxConflicts
                    THEN Append(t.again, [id |-> head.id, seen |-> s]) ELSE t.again
           queue == Tail(t.queue)
           waiting == t.waiting \ {head.id}
           last == head.id
           u == [t EXCEPT !.queue = queue, !.last = last, !.conflicts = conflicts,
                          !.waiting = waiting, !.again = again]
<1>1. /\ t.queue \in Seq(Entries) /\ t.again \in Seq(Entries)
      /\ t.conflicts \in [Schedules -> Nat] /\ t.waiting \subseteq Schedules
  BY DEF TickRecords
<1>2. queue \in Seq(Entries)
  BY <1>1, TailIs
<1>3. head.id \in Schedules /\ head.id \in 0..NumSchedules
  BY DEF Entries, Schedules
<1>4. s \in ScheduleRecords
  BY <1>3, Existing
<1>5. [id |-> head.id, seen |-> s] \in Entries
  BY <1>3, <1>4 DEF Entries
<1>6. again \in Seq(Entries)
  BY <1>1, <1>5, AppendIs
<1>7. conflicts \in [Schedules -> Nat]
  BY <1>1, <1>3
<1>8. v = u
  BY DEF Conflicted
<1>9. waiting \in SUBSET Schedules
  BY <1>1
<1>10. again = t.again \/ again = Append(t.again, [id |-> head.id, seen |-> s])
  OBVIOUS
<1> HIDE DEF n, again, conflicts, queue, waiting, last
<1>11. /\ u \in TickRecords /\ u.queue = queue /\ u.last = last /\ u.left = t.left
       /\ u.waiting = waiting /\ u.again = again /\ u.budget = t.budget
       /\ u.pc = t.pc /\ u.now = t.now /\ u.share = t.share
  <2>1. last \in 0..NumSchedules
    BY <1>3 DEF last
  <2> QED BY <1>2, <1>6, <1>7, <1>9, <2>1 DEF TickRecords
<1> HIDE DEF u
<1> QED BY <1>8, <1>10, <1>11 DEF TurnTaken, Turned, queue, last, waiting

\* The head of the queue is passed over, or its step failed.
LEMMA DroppedIs ==
  ASSUME NEW t \in TickRecords, t.queue # <<>>, NEW head \in Entries,
         NEW waiting \in SUBSET Schedules,
         NEW v, v = [t EXCEPT !.queue = Tail(t.queue), !.waiting = waiting]
  PROVE  TurnLost(t, v, head, waiting)
<1> DEFINE queue == Tail(t.queue)
<1>1. queue \in Seq(Entries)
  <2>1. t.queue \in Seq(Entries)
    BY DEF TickRecords
  <2> QED BY <2>1, TailIs
<1> HIDE DEF queue
<1>2. v = [t EXCEPT !.queue = queue, !.waiting = waiting]
  BY DEF queue
<1>3. /\ v \in TickRecords /\ v.queue = queue /\ v.last = t.last /\ v.left = t.left
      /\ v.waiting = waiting /\ v.again = t.again /\ v.budget = t.budget
      /\ v.pc = t.pc /\ v.now = t.now /\ v.share = t.share
  BY <1>1, <1>2 DEF TickRecords
<1> QED BY <1>3 DEF TurnLost, Turned, queue

\* Who then waits had waited, or is the head with the schedule as it is now.
LEMMA TurnedWaits ==
  ASSUME NEW t \in TickRecords, t.queue # <<>>, NEW head, NEW v, Turned(t, v, head),
         NEW e, v.again = t.again \/ (e \in Entries /\ v.again = Append(t.again, e))
  PROVE  Waits(v) \subseteq Waits(t) \cup {e}
<1>1. t.queue \in Seq(Entries) /\ t.again \in Seq(Entries)
  BY DEF TickRecords
<1>2. /\ v.queue = Tail(t.queue) /\ Len(t.queue) \in Nat /\ Len(v.queue) = Len(t.queue) - 1
      /\ \A i \in 1..(Len(t.queue) - 1) : v.queue[i] = t.queue[i + 1]
  BY <1>1, TailIs DEF Turned
<1>3. ASSUME NEW i \in 1..Len(v.queue) PROVE v.queue[i] \in Waits(t)
  <2> DEFINE j == i + 1
  <2>1. j \in 1..Len(t.queue) /\ v.queue[i] = t.queue[j]
    BY <1>2
  <2> HIDE DEF j
  <2> QED BY <2>1 DEF Waits
<1>4. ASSUME NEW i \in 1..Len(v.again) PROVE v.again[i] \in Waits(t) \cup {e}
  <2>1. CASE v.again = t.again
    BY <2>1 DEF Waits
  <2>2. CASE e \in Entries /\ v.again = Append(t.again, e)
    <3>1. Len(t.again) \in Nat /\ Len(v.again) = Len(t.again) + 1
      BY <1>1, <2>2, AppendIs
    <3>2. CASE i = Len(t.again) + 1
      BY <1>1, <2>2, <3>2, AppendIs
    <3>3. CASE i # Len(t.again) + 1
      <4>1. i \in 1..Len(t.again)
        BY <3>1, <3>3
      <4>2. v.again[i] = t.again[i]
        BY <1>1, <2>2, <4>1, AppendIs
      <4> QED BY <4>1, <4>2 DEF Waits
    <3> QED BY <3>2, <3>3
  <2> QED BY <2>1, <2>2
<1> QED BY <1>3, <1>4 DEF Waits

-----------------------------------------------------------------------------
(* What a scheduler saw stays known, whoever moves the schedule on. *)

Onward ==
  \A i \in Schedules, seen \in ScheduleRecords :
    Exists(i) /\ Known(sched[i], seen) =>
      sched'[i].status # "none" /\ Known(sched'[i], seen)

\* Nothing stored moved.
LEMMA Standing ==
  ASSUME UNCHANGED sched
  PROVE  Onward
  BY DEF Onward, Exists

\* A step moves the cursor on.
LEMMA AdvancingOnward ==
  ASSUME RecordsOK, NEW id, NEW now, NEW plan, Advancing(id, now, plan)
  PROVE  Onward
<1> DEFINE s == sched[id]
           r == Moved(s, s, plan)
<1>1. /\ s \in ScheduleRecords /\ r \in ScheduleRecords
      /\ sched'[id] = r /\ \A i \in Schedules : i # id => sched'[i] = sched[i]
      /\ r.cursor = plan.toCursor /\ r.status = "active" /\ r.revision = s.revision
  BY AdvancingIs
<1>2. s.cursor < plan.toCursor
  BY DEF Advancing, Moves
<1> HIDE DEF r, s
<1> SUFFICES ASSUME NEW i \in Schedules, NEW seen \in ScheduleRecords, Exists(i),
                    Known(sched[i], seen)
             PROVE  sched'[i].status # "none" /\ Known(sched'[i], seen)
  BY DEF Onward
<1>3. CASE i = id
  <2>1. Known(s, seen)
    BY <1>3 DEF s
  <2>2. /\ seen.revision \in Nat /\ seen.cursor \in Nat /\ s.cursor \in Nat /\ r.cursor \in Nat
        /\ s.revision \in Nat
    BY <1>1 DEF ScheduleRecords
  <2>3. Known(r, seen)
    BY <1>1, <1>2, <2>1, <2>2 DEF Known
  <2> QED BY <1>1, <1>3, <2>3
<1>4. CASE i # id
  BY <1>1, <1>4 DEF Exists
<1> QED BY <1>3, <1>4

\* A change of a host counts the revision on.
LEMMA LandsOnward ==
  ASSUME SchedulerAssumption, SchedulerTypeOK, CursorInv, Lands
  PROVE  Onward
<1> DEFINE id == host.id
           s == sched[id]
           r == sched'[id]
<1>1. /\ id \in Schedules /\ r \in ScheduleRecords
      /\ \A i \in Schedules : i # id => sched'[i] = sched[i]
      /\ Exists(id) => r.revision = s.revision + 1
  BY LandsIs
<1> HIDE DEF id
<1> SUFFICES ASSUME NEW i \in Schedules, NEW seen \in ScheduleRecords, Exists(i),
                    Known(sched[i], seen)
             PROVE  sched'[i].status # "none" /\ Known(sched'[i], seen)
  BY DEF Onward
<1>2. CASE i = id
  <2>1. s \in ScheduleRecords /\ Known(s, seen) /\ r.revision = s.revision + 1
    BY <1>1, <1>2, Existing DEF SchedulerTypeOK
  <2> HIDE DEF r, s
  <2>2. seen.revision \in Nat /\ s.revision \in Nat /\ r.status # "none"
    BY <1>1, <2>1 DEF ScheduleRecords, Statuses
  <2>3. Known(r, seen)
    BY <2>1, <2>2 DEF Known
  <2> QED BY <1>2, <2>2, <2>3 DEF r
<1>3. CASE i # id
  BY <1>1, <1>3 DEF Exists
<1> QED BY <1>2, <1>3

\* Who waits in a queue is a schedule, as it was seen.
LEMMA WaitsAre ==
  ASSUME NEW t \in TickRecords
  PROVE  \A entry \in Waits(t) : entry.id \in Schedules /\ entry.seen \in ScheduleRecords
<1>1. t.queue \in Seq(Entries) /\ t.again \in Seq(Entries)
  BY DEF TickRecords
<1>2. ASSUME NEW entry \in Waits(t) PROVE entry \in Entries
  BY <1>1 DEF Waits
<1> QED BY <1>2 DEF Entries

\* A scheduler's round goes on: it keeps what it saw, or saw what is stored.
LEMMA RoundKeeps ==
  ASSUME SchedulerTypeOK, SeenInv, RecordsOK', Onward, UNCHANGED clock,
         NEW x \in Schedulers, NEW t \in TickRecords, Goes(x, t),
         t.now <= clock, t.queue # <<>> => t.share >= 1,
         \A entry \in Waits(t) : entry \in Waits(tick[x]) \/ entry.seen = sched'[entry.id]
  PROVE  TicksOK' /\ SeenInv'
<1>1. tick \in [Schedulers -> TickRecords] /\ TicksOK
  BY DEF SchedulerTypeOK, TicksOK
<1>2. /\ tick' \in [Schedulers -> TickRecords] /\ hungry' = hungry
      /\ \A y \in Schedulers : y # x => tick'[y] = tick[y]
      /\ tick'[x].now = t.now /\ Waits(tick'[x]) = Waits(t)
      /\ tick'[x].queue # <<>> => tick'[x].share >= 1
  BY <1>1, GoesIs
<1>3. TicksOK'
  <2>1. ASSUME NEW y \in Schedulers
        PROVE  tick'[y].now <= clock /\ (tick'[y].queue # <<>> => tick'[y].share >= 1)
    BY <1>1, <1>2 DEF TicksOK
  <2> QED BY <1>1, <1>2, <2>1 DEF TicksOK
<1>4. ASSUME NEW y \in Schedulers, NEW entry \in Waits(tick[y])
      PROVE  /\ entry.id \in Schedules /\ entry.seen \in ScheduleRecords
             /\ sched'[entry.id].status # "none" /\ Known(sched'[entry.id], entry.seen)
  <2>1. entry.id \in Schedules /\ entry.seen \in ScheduleRecords
    BY <1>1, <1>4, WaitsAre
  <2>2. Exists(entry.id) /\ Known(sched[entry.id], entry.seen)
    BY <1>4 DEF SeenInv
  <2> QED BY <2>1, <2>2 DEF Onward
<1>5. ASSUME NEW entry \in Waits(t)
      PROVE  sched'[entry.id].status # "none" /\ Known(sched'[entry.id], entry.seen)
  <2>1. CASE entry \in Waits(tick[x])
    BY <1>4, <2>1
  <2>2. CASE entry.seen = sched'[entry.id]
    <3> DEFINE r == entry.seen
    <3>1. r \in ScheduleRecords /\ entry.id \in Schedules
      BY WaitsAre
    <3> HIDE DEF r
    <3>2. r.status # "none" /\ r.revision \in Nat /\ r.cursor \in Nat
      BY <3>1 DEF ScheduleRecords, Statuses
    <3>3. Known(r, r)
      BY <3>2 DEF Known
    <3> QED BY <2>2, <3>2, <3>3 DEF r
  <2> QED BY <2>1, <2>2
<1>6. SeenInv'
  <2> SUFFICES ASSUME NEW y \in Schedulers, NEW entry \in Waits(tick'[y])
               PROVE  sched'[entry.id].status # "none" /\ Known(sched'[entry.id], entry.seen)
    BY DEF SeenInv, Exists
  <2>1. CASE y = x
    BY <1>2, <1>5, <2>1
  <2>2. CASE y # x
    <3>1. entry \in Waits(tick[y])
      BY <1>2, <2>2
    <3> QED BY <1>4, <3>1
  <2> QED BY <2>1, <2>2
<1> QED BY <1>3, <1>6

\* Nothing is waiting for a turn: the tick ended, or did not begin.
LEMMA NoneWait ==
  ASSUME NEW t, t.queue = <<>>, t.again = <<>>
  PROVE  Waits(t) = {}
<1>1. 1..Len(t.queue) = {} /\ 1..Len(t.again) = {}
  OBVIOUS
<1> QED BY <1>1 DEF Waits

\* A scheduler between its ticks.
LEMMA IdleIs ==
  ASSUME NEW last \in 0..NumSchedules
  PROVE  /\ Idle(last) \in TickRecords /\ Idle(last).pc = "idle" /\ Idle(last).now = 0
         /\ Idle(last).queue = <<>> /\ Idle(last).again = <<>> /\ Idle(last).last = last
         /\ Idle(last).waiting = {}
<1>1. <<>> \in Seq(Entries)
  OBVIOUS
<1>2. [s \in Schedules |-> 0] \in [Schedules -> Nat] /\ [s \in Schedules |-> 0] \in [Schedules -> Int]
  OBVIOUS
<1> QED BY <1>1, <1>2 DEF Idle, TickRecords

\* What the ticks keep, when only they change and nobody new waits.
LEMMA TicksChange ==
  ASSUME SchedulerTypeOK, SeenInv, Onward, clock' \in Nat, clock <= clock',
         tick' \in [Schedulers -> TickRecords],
         hungry' \in [Schedulers -> [Schedules -> Nat]],
         \A y \in Schedulers :
           /\ tick'[y].now <= clock' /\ (tick'[y].queue # <<>> => tick'[y].share >= 1)
           /\ Waits(tick'[y]) \subseteq Waits(tick[y])
  PROVE  TicksOK' /\ SeenInv'
<1>1. TicksOK'
  BY DEF TicksOK
<1>2. ASSUME NEW y \in Schedulers, NEW entry \in Waits(tick'[y])
      PROVE  sched'[entry.id].status # "none" /\ Known(sched'[entry.id], entry.seen)
  <2>1. entry \in Waits(tick[y]) /\ tick[y] \in TickRecords
    BY DEF SchedulerTypeOK, TicksOK
  <2>2. entry.id \in Schedules /\ entry.seen \in ScheduleRecords
    BY <2>1, WaitsAre
  <2>3. Exists(entry.id) /\ Known(sched[entry.id], entry.seen)
    BY <2>1 DEF SeenInv
  <2> QED BY <2>2, <2>3 DEF Onward
<1> QED BY <1>1, <1>2 DEF SeenInv, Exists

-----------------------------------------------------------------------------
(* The actions of a scheduler. *)

SchedulerInv == SchedulerTypeOK /\ RecordInv /\ SeenInv

\* The tick t goes on as v after a step of the head, or after it passed.
StepsTo(x, t, head, v) ==
  /\ Goes(x, v) /\ Turned(t, v, head)
  /\ v.waiting = t.waiting \ {head.id}
  /\ v.last = head.id \/ (v.last = t.last /\ v.budget = t.budget)
  /\ \/ v.again = t.again
     \/ v.again = Append(t.again, [id |-> head.id, seen |-> sched'[head.id]])
PassesTo(x, t, head, v) ==
  /\ Goes(x, v) /\ Turned(t, v, head) /\ v.waiting = t.waiting
  /\ v.last = t.last /\ v.budget = t.budget /\ v.again = t.again /\ v.left = t.left

\* A step is a turn of the head of the queue, and advances the head if anything.
LEMMA StepTurns ==
  ASSUME SchedulerAssumption, SchedulerInv, NEW x \in Schedulers, Steps(x),
         NEW t, t = tick[x], NEW head, head = t.queue[1]
  PROVE  /\ t \in TickRecords /\ t.queue # <<>> /\ t.pc = "round"
         /\ head \in Entries /\ Exists(head.id)
         /\ StoresStay \/ \E now, plan : Advancing(head.id, now, plan)
         /\ UNCHANGED <<clock, host>>
         /\ \E v : StepsTo(x, t, head, v)
<1> DEFINE plan == Plan(head.seen, t.now, Smaller(t.share, t.budget), t.left[head.id])
<1>1. StandInv /\ RecordsOK
  BY DEF SchedulerInv, StandInv, RecordInv, SchedulerTypeOK
<1>2. /\ t \in TickRecords /\ head \in Entries /\ head \in Waits(t)
      /\ t.queue # <<>> /\ t.pc = "round"
      /\ \/ /\ Advancing(head.id, t.now, plan) /\ head.seen = sched[head.id]
            /\ plan.scanned \in Int
            /\ Goes(x, Stepped(t, head, plan))
         \/ /\ ~Advances(head.id, head.seen) /\ StoresStay /\ Goes(x, Conflicted(t, head))
         \/ /\ StoresStay \/ (Advancing(head.id, t.now, plan) /\ head.seen = sched[head.id])
            /\ Goes(x, [t EXCEPT !.queue = Tail(@), !.waiting = @ \ {head.id}])
  BY ZenonT(30), <1>1, StepsAre
<1>3. UNCHANGED <<clock, host>>
  BY DEF Steps
<1>8. t \in TickRecords /\ t.queue # <<>> /\ head \in Entries
  BY <1>2
<1>4. head.id \in Schedules /\ Exists(head.id)
  BY <1>2 DEF SchedulerInv, SeenInv, Entries
<1> HIDE DEF plan
<1>5. CASE /\ Advancing(head.id, t.now, plan) /\ head.seen = sched[head.id]
           /\ plan.scanned \in Int
           /\ Goes(x, Stepped(t, head, plan))
  <2>0. PICK s, v : s = Moved(head.seen, head.seen, plan) /\ v = Stepped(t, head, plan)
    OBVIOUS
  <2>1. s \in ScheduleRecords /\ s = sched'[head.id] /\ sched[head.id] \in ScheduleRecords
    <3>1. Advancing(head.id, t.now, plan) /\ head.seen = sched[head.id]
      BY <1>5
    <3>2. /\ sched[head.id] \in ScheduleRecords
          /\ Moved(sched[head.id], sched[head.id], plan) \in ScheduleRecords
          /\ sched'[head.id] = Moved(sched[head.id], sched[head.id], plan)
      BY <1>1, <3>1, AdvancingIs
    <3> QED BY <2>0, <3>1, <3>2
  <2>2. IsFiniteSet(plan.delivered)
    <3> DEFINE spec == sched[head.id].spec
               from == Start(sched[head.id])
               to == plan.toCursor
    <3>1. plan.delivered \cup plan.skipped = Between(spec, from, to) /\ to \in Nat
      BY <1>5 DEF Advancing, Moves
    <3>2. from \in Nat
      BY <2>1, StartIs
    <3> HIDE DEF spec, from, to
    <3>3. IsFiniteSet(Between(spec, from, to))
      BY <3>1, <3>2, BetweenIs
    <3>4. plan.delivered \subseteq Between(spec, from, to)
      BY <3>1
    <3> QED BY <3>3, <3>4, FS_Subset
  <2>3. TurnTaken(t, v, head, s)
    <3>1. plan.scanned \in Int
      BY <1>5
    <3>2. s \in ScheduleRecords
      BY <2>1
    <3> QED BY <1>8, <2>0, <2>2, <3>1, <3>2, SteppedIs
  <2>4. Goes(x, v)
    BY <1>5, <2>0
  <2>5. StepsTo(x, t, head, v)
    BY <2>1, <2>3, <2>4 DEF StepsTo, TurnTaken
  <2> QED BY <1>2, <1>3, <1>4, <1>5, <2>5
<1>6. CASE ~Advances(head.id, head.seen) /\ StoresStay /\ Goes(x, Conflicted(t, head))
  <2>0. PICK v : v = Conflicted(t, head)
    OBVIOUS
  <2>1. TurnTaken(t, v, head, sched[head.id])
    <3>1. RecordsOK /\ Exists(head.id)
      BY <1>1, <1>4
    <3> QED BY <1>8, <2>0, <3>1, ConflictedIs
  <2>2. Goes(x, v) /\ sched' = sched
    BY <1>6, <2>0 DEF StoresStay
  <2>3. StepsTo(x, t, head, v)
    BY <2>1, <2>2 DEF StepsTo, TurnTaken
  <2> QED BY <1>2, <1>3, <1>4, <1>6, <2>3
<1>7. CASE /\ StoresStay \/ (Advancing(head.id, t.now, plan) /\ head.seen = sched[head.id])
           /\ Goes(x, [t EXCEPT !.queue = Tail(@), !.waiting = @ \ {head.id}])
  <2>0. PICK waiting, v : /\ waiting = t.waiting \ {head.id}
                          /\ v = [t EXCEPT !.queue = Tail(t.queue), !.waiting = waiting]
    OBVIOUS
  <2>1. waiting \in SUBSET Schedules
    BY <1>2, <2>0 DEF TickRecords
  <2>2. Goes(x, v)
    BY <1>7, <2>0
  <2>3. TurnLost(t, v, head, waiting)
    BY <1>8, <2>0, <2>1, DroppedIs
  <2>4. StepsTo(x, t, head, v)
    BY <2>0, <2>2, <2>3 DEF StepsTo, TurnLost
  <2> QED BY <1>2, <1>3, <1>4, <1>7, <2>4
<1> QED BY <1>2, <1>5, <1>6, <1>7

\* Where the stores stay, so does what is known of the records.
LEMMA StaysKeeps ==
  ASSUME clock \in Nat, RecordsOK, RecordInv, StoresStay, UNCHANGED clock
  PROVE  RecordsOK' /\ RecordInv'
  BY TimePasses

LEMMA StepsKeeps ==
  ASSUME SchedulerAssumption, SchedulerInv, NEW x \in Schedulers, Steps(x)
  PROVE  RecordsOK' /\ RecordInv' /\ TicksOK' /\ SeenInv' /\ UNCHANGED <<clock, host>>
<1>1. PICK t, head : t = tick[x] /\ head = t.queue[1]
  OBVIOUS
<1>2. /\ t \in TickRecords /\ t.queue # <<>> /\ head \in Entries /\ Exists(head.id)
      /\ StoresStay \/ \E now, plan : Advancing(head.id, now, plan)
      /\ UNCHANGED <<clock, host>>
  BY <1>1, StepTurns
<1>9. PICK v : StepsTo(x, t, head, v)
  BY <1>1, StepTurns
<1>3. /\ Goes(x, v) /\ Turned(t, v, head)
      /\ \/ v.again = t.again
         \/ v.again = Append(t.again, [id |-> head.id, seen |-> sched'[head.id]])
  BY <1>9 DEF StepsTo
<1>4. SchedulerTypeOK /\ SeenInv /\ RecordsOK /\ RecordInv /\ clock \in 0..MaxClock /\ clock \in Nat
  BY DEF SchedulerInv, SchedulerTypeOK
<1>5. RecordsOK' /\ RecordInv' /\ Onward
  <2>1. CASE StoresStay
    BY <1>2, <1>4, <2>1, StaysKeeps, Standing DEF StoresStay
  <2>2. CASE \E now, plan : Advancing(head.id, now, plan)
    <3>1. PICK now, plan : Advancing(head.id, now, plan)
      BY <2>2
    <3> QED BY <1>2, <1>4, <3>1, AdvancingKeeps, AdvancingOnward
  <2> QED BY <1>2, <2>1, <2>2
<1>6. v \in TickRecords /\ v.now <= clock /\ (v.queue # <<>> => v.share >= 1)
  <2>1. t.now <= clock /\ t.share >= 1
    BY <1>1, <1>2, <1>4 DEF SchedulerTypeOK, TicksOK
  <2> QED BY <1>3, <2>1 DEF Turned
<1>7. \A entry \in Waits(v) : entry \in Waits(tick[x]) \/ entry.seen = sched'[entry.id]
  <2> DEFINE s == sched'[head.id]
             e == [id |-> head.id, seen |-> s]
  <2>1. head.id \in Schedules
    BY <1>2 DEF Entries
  <2>2. s \in ScheduleRecords
    <3>1. s.status # "none"
      <4>1. Known(sched[head.id], head.seen) /\ head.seen \in ScheduleRecords
        <5>1. head \in Waits(t)
          <6>1. t.queue \in Seq(Entries)
            BY <1>2 DEF TickRecords
          <6>2. 1 \in 1..Len(t.queue)
            BY <1>2, <6>1, TailIs
          <6> QED BY <1>1, <6>2 DEF Waits
        <5> QED BY <1>1, <1>2, <1>4, <5>1 DEF SeenInv, Entries
      <4> QED BY <1>2, <1>5, <2>1, <4>1 DEF Onward
    <3>2. s \in {NoSchedule} \cup ScheduleRecords
      BY <1>5, <2>1 DEF RecordsOK
    <3> QED BY <3>1, <3>2 DEF NoSchedule
  <2>3. e \in Entries
    BY <2>1, <2>2 DEF Entries
  <2>4. e.id = head.id /\ e.seen = s
    OBVIOUS
  <2>5. v.again = t.again \/ v.again = Append(t.again, e)
    BY <1>3
  <2> HIDE DEF e
  <2>6. Waits(v) \subseteq Waits(t) \cup {e}
    BY <1>2, <1>3, <2>3, <2>5, TurnedWaits
  <2> QED BY <1>1, <2>4, <2>6
<1>8. TicksOK' /\ SeenInv'
  BY <1>2, <1>3, <1>4, <1>5, <1>6, <1>7, RoundKeeps
<1> QED BY <1>2, <1>5, <1>8

\* Who passes had nothing to do.
LEMMA PassTurns ==
  ASSUME SchedulerInv, NEW x \in Schedulers, Passes(x),
         NEW t, t = tick[x], NEW head, head = t.queue[1]
  PROVE  /\ t \in TickRecords /\ t.queue # <<>> /\ t.pc = "round" /\ head \in Entries
         /\ \/ ~HasWork(head.seen, t.now)
            \/ \E cap : Plan(head.seen, t.now, cap, t.left[head.id]) = NoStep
         /\ StoresStay /\ UNCHANGED <<clock, host>>
         /\ \E v : PassesTo(x, t, head, v)
<1>1. t \in TickRecords
  BY DEF SchedulerInv, SchedulerTypeOK, TicksOK
<1>2. /\ t.pc = "round" /\ t.queue # <<>>
      /\ \/ ~HasWork(head.seen, t.now)
         \/ Plan(head.seen, t.now, Smaller(t.share, t.budget), t.left[head.id]) = NoStep
      /\ Goes(x, [t EXCEPT !.queue = Tail(@)])
      /\ StoresStay /\ UNCHANGED <<clock, host>>
  BY DEF Passes, StoresStay
<1>3. head \in Entries
  <2>1. t.queue \in Seq(Entries)
    BY <1>1 DEF TickRecords
  <2> QED BY <1>2, <2>1, TailIs
<1>0. PICK waiting, v : /\ waiting = t.waiting
                        /\ v = [t EXCEPT !.queue = Tail(t.queue), !.waiting = waiting]
  OBVIOUS
<1>4. waiting \in SUBSET Schedules
  BY <1>0, <1>1 DEF TickRecords
<1>5. [t EXCEPT !.queue = Tail(@)] = v
  <2> DEFINE queue == Tail(t.queue)
  <2> HIDE DEF queue
  <2>1. [t EXCEPT !.queue = queue] = [t EXCEPT !.queue = queue, !.waiting = t.waiting]
    BY <1>1 DEF TickRecords
  <2> QED BY <1>0, <2>1 DEF queue
<1>6. Goes(x, v)
  BY <1>2, <1>5
<1>7. TurnLost(t, v, head, waiting)
  <2>1. t.queue # <<>> /\ head \in Entries
    BY <1>2, <1>3
  <2> QED BY <1>0, <1>1, <1>4, <2>1, DroppedIs
<1>8. PassesTo(x, t, head, v)
  BY <1>0, <1>6, <1>7 DEF PassesTo, TurnLost
<1> QED BY <1>1, <1>2, <1>3, <1>8

LEMMA PassesKeeps ==
  ASSUME SchedulerInv, NEW x \in Schedulers, Passes(x)
  PROVE  RecordsOK' /\ RecordInv' /\ TicksOK' /\ SeenInv' /\ UNCHANGED <<clock, host>>
<1>1. PICK t, head : t = tick[x] /\ head = t.queue[1]
  OBVIOUS
<1>2. /\ t \in TickRecords /\ t.queue # <<>>
      /\ StoresStay /\ UNCHANGED <<clock, host>>
  BY <1>1, PassTurns
<1>9. PICK v : PassesTo(x, t, head, v)
  BY <1>1, PassTurns
<1>3. Goes(x, v) /\ Turned(t, v, head) /\ v.again = t.again
  BY <1>9 DEF PassesTo
<1>4. SchedulerTypeOK /\ SeenInv /\ RecordsOK /\ RecordInv /\ clock \in Nat
  BY DEF SchedulerInv, SchedulerTypeOK
<1>5. RecordsOK' /\ RecordInv' /\ Onward
  BY <1>2, <1>4, StaysKeeps, Standing DEF StoresStay
<1>6. v \in TickRecords /\ v.now <= clock /\ (v.queue # <<>> => v.share >= 1)
  <2>1. t.now <= clock /\ t.share >= 1
    BY <1>1, <1>2, <1>4 DEF SchedulerTypeOK, TicksOK
  <2> QED BY <1>3, <2>1 DEF Turned
<1>7. \A entry \in Waits(v) : entry \in Waits(tick[x])
  <2>1. PICK e : e \in Waits(t)
    <3>1. t.queue \in Seq(Entries)
      BY <1>2 DEF TickRecords
    <3>2. 1 \in 1..Len(t.queue)
      BY <1>2, <3>1, TailIs
    <3> QED BY <3>2 DEF Waits
  <2>2. Waits(v) \subseteq Waits(t) \cup {e}
    BY <1>2, <1>3, TurnedWaits
  <2> QED BY <1>1, <2>1, <2>2
<1>8. TicksOK' /\ SeenInv'
  BY <1>2, <1>3, <1>4, <1>5, <1>6, <1>7, RoundKeeps
<1> QED BY <1>2, <1>5, <1>8

\* A listing: every active schedule as it is stored, in turn.
Listed(t, v) ==
  LET ids == Rotated(t.last)
  IN /\ v \in TickRecords /\ v.pc = "round" /\ v.now = t.now /\ v.last = t.last
     /\ v.budget = MaxDeliveries /\ v.again = t.again
     /\ \A id \in Schedules : v.left[id] = MaxScan
     /\ Len(v.queue) = Len(ids)
     /\ \A i \in 1..Len(ids) : v.queue[i].id = ids[i] /\ v.queue[i].seen = sched[ids[i]]
     /\ \A id \in v.waiting : sched[id].status = "active" /\ Due(sched[id], t.now)
     /\ v.queue # <<>> => v.share >= 1

\* A listing queues every active schedule, in turn.
LEMMA ListIs ==
  ASSUME SchedulerAssumption, SchedulerInv, NEW x \in Schedulers, List(x),
         NEW t, t = tick[x]
  PROVE  /\ t \in TickRecords /\ t.pc = "listing" /\ StoresStay /\ UNCHANGED <<clock, host>>
         /\ \E v : Goes(x, v) /\ Listed(t, v)
<1> DEFINE ids == Rotated(t.last)
           queue == [i \in DOMAIN ids |-> [id |-> ids[i], seen |-> sched[ids[i]]]]
           share == IF queue = <<>> THEN 0 ELSE Share(MaxDeliveries, queue)
           left == [s \in Schedules |-> MaxScan]
           waiting == {id \in Range(ids) : Due(sched[id], t.now)}
           v == [t EXCEPT !.pc = "round", !.budget = MaxDeliveries, !.queue = queue,
                          !.share = share, !.left = left, !.waiting = waiting]
<1>1. t \in TickRecords /\ RecordsOK
  BY DEF SchedulerInv, SchedulerTypeOK, TicksOK
<1>2. t.pc = "listing" /\ Goes(x, v) /\ StoresStay /\ UNCHANGED <<clock, host>>
  BY DEF List, StoresStay
<1>3. t.last \in 0..NumSchedules
  BY <1>1 DEF TickRecords
<1>4. ids \in Seq(Schedules) /\ \A i \in 1..Len(ids) : sched[ids[i]].status = "active"
  BY <1>3, RotatedIs DEF Turns
<1> HIDE DEF ids
<1>5. DOMAIN ids = 1..Len(ids) /\ Len(ids) \in Nat /\ \A i \in 1..Len(ids) : ids[i] \in Schedules
  BY <1>4
<1>6. ASSUME NEW i \in 1..Len(ids) PROVE [id |-> ids[i], seen |-> sched[ids[i]]] \in Entries
  <2>1. sched[ids[i]] \in ScheduleRecords
    BY <1>1, <1>4, <1>5, Existing DEF Statuses
  <2> QED BY <1>5, <2>1 DEF Entries
<1>7. queue \in [1..Len(ids) -> Entries]
  BY <1>5, <1>6
<1>8. /\ queue \in Seq(Entries) /\ Len(queue) = Len(ids)
      /\ \A i \in 1..Len(ids) : queue[i].id = ids[i] /\ queue[i].seen = sched[ids[i]]
  <2>1. \A i \in 1..Len(ids) : queue[i].id = ids[i] /\ queue[i].seen = sched[ids[i]]
    BY <1>5
  <2> HIDE DEF queue
  <2> DEFINE n == Len(ids)
  <2>2. n \in Nat /\ queue \in [1..n -> Entries]
    BY <1>5, <1>7
  <2> HIDE DEF n
  <2>3. queue \in Seq(Entries)
    BY <2>2
  <2>4. Len(queue) = n
    BY <2>2
  <2> QED BY <2>1, <2>3, <2>4 DEF n
<1>9. MaxDeliveries \in Int /\ MaxScan \in Int
  BY DEF SchedulerAssumption
<1> HIDE DEF queue
<1>10. share \in Int /\ (queue # <<>> => share >= 1)
  BY <1>8, <1>9, ShareIs
<1>11. /\ waiting \in SUBSET Schedules
       /\ \A id \in waiting : sched[id].status = "active" /\ Due(sched[id], t.now)
  BY <1>4, <1>5 DEF Range
<1>12. left \in [Schedules -> Int] /\ \A id \in Schedules : left[id] = MaxScan
  BY <1>9
<1> HIDE DEF share, left, waiting
<1>13. /\ v \in TickRecords /\ v.pc = "round" /\ v.now = t.now /\ v.last = t.last
       /\ v.budget = MaxDeliveries /\ v.again = t.again /\ v.left = left
       /\ v.queue = queue /\ v.waiting = waiting /\ v.share = share
  BY <1>1, <1>8, <1>9, <1>10, <1>11, <1>12 DEF TickRecords
<1> HIDE DEF v
<1>14. Listed(t, v)
  BY <1>8, <1>10, <1>11, <1>12, <1>13 DEF Listed, ids
<1> QED BY <1>1, <1>2, <1>14

LEMMA ListKeeps ==
  ASSUME SchedulerAssumption, SchedulerInv, NEW x \in Schedulers, List(x)
  PROVE  RecordsOK' /\ RecordInv' /\ TicksOK' /\ SeenInv' /\ UNCHANGED <<clock, host>>
<1>1. PICK t : t = tick[x]
  OBVIOUS
<1>2. t \in TickRecords /\ StoresStay /\ UNCHANGED <<clock, host>>
  BY <1>1, ListIs
<1>3. PICK v : Goes(x, v) /\ Listed(t, v)
  BY <1>1, ListIs
<1>4. SchedulerTypeOK /\ SeenInv /\ RecordsOK /\ RecordInv /\ clock \in Nat
  BY DEF SchedulerInv, SchedulerTypeOK
<1>5. RecordsOK' /\ RecordInv' /\ Onward
  BY <1>2, <1>4, StaysKeeps, Standing DEF StoresStay
<1>6. v \in TickRecords /\ v.now <= clock /\ (v.queue # <<>> => v.share >= 1)
  <2>1. t.now <= clock
    BY <1>1, <1>4 DEF SchedulerTypeOK, TicksOK
  <2> QED BY <1>3, <2>1 DEF Listed
<1>7. \A entry \in Waits(v) : entry \in Waits(tick[x]) \/ entry.seen = sched'[entry.id]
  <2>1. /\ v.again = t.again
        /\ \A i \in 1..Len(v.queue) : v.queue[i].seen = sched[v.queue[i].id]
    BY <1>3 DEF Listed
  <2> QED BY <1>1, <1>2, <2>1 DEF Waits, StoresStay
<1>8. TicksOK' /\ SeenInv'
  BY <1>2, <1>3, <1>4, <1>5, <1>6, <1>7, RoundKeeps
<1> QED BY <1>2, <1>5, <1>8

LEMMA BeginKeeps ==
  ASSUME SchedulerInv, NEW x \in Schedulers, Begin(x)
  PROVE  RecordsOK' /\ RecordInv' /\ TicksOK' /\ SeenInv' /\ UNCHANGED <<clock, host>>
<1>1. SchedulerTypeOK /\ SeenInv /\ RecordsOK /\ RecordInv /\ clock \in Nat /\ TicksOK
  BY DEF SchedulerInv, SchedulerTypeOK
<1>2. StoresStay /\ UNCHANGED <<clock, host, hungry>>
  BY DEF Begin, StoresStay
<1>3. RecordsOK' /\ RecordInv' /\ Onward
  BY <1>1, <1>2, StaysKeeps, Standing DEF StoresStay
<1> DEFINE t == tick[x]
           v == [t EXCEPT !.pc = "listing", !.now = clock]
<1>4. t \in TickRecords
  BY <1>1 DEF TicksOK
<1>5. tick' = [tick EXCEPT ![x] = v]
  BY DEF Begin
<1> HIDE DEF t
<1>6. /\ v \in TickRecords /\ v.now = clock /\ v.queue = t.queue /\ v.again = t.again
      /\ v.share = t.share
  BY <1>1, <1>4 DEF TickRecords
<1>7. Waits(v) = Waits(t)
  BY <1>6 DEF Waits
<1> HIDE DEF v
<1>8. tick' \in [Schedulers -> TickRecords]
  BY <1>1, <1>5, <1>6 DEF TicksOK
<1>9. \A y \in Schedulers :
        /\ tick'[y].now <= clock' /\ (tick'[y].queue # <<>> => tick'[y].share >= 1)
        /\ Waits(tick'[y]) \subseteq Waits(tick[y])
  BY <1>1, <1>2, <1>5, <1>6, <1>7 DEF TicksOK, t
<1>10. hungry' \in [Schedulers -> [Schedules -> Nat]]
  BY <1>1, <1>2 DEF TicksOK
<1>11. TicksOK' /\ SeenInv'
  <2>1. clock' \in Nat /\ clock <= clock'
    BY <1>1, <1>2
  <2> QED BY <1>1, <1>3, <1>8, <1>9, <1>10, <2>1, TicksChange
<1> QED BY <1>2, <1>3, <1>11

\* A tick ends, or its process dies.
LEMMA IdleKeeps ==
  ASSUME SchedulerInv, NEW x \in Schedulers, NEW last \in 0..NumSchedules,
         tick' = [tick EXCEPT ![x] = Idle(last)], StoresStay, UNCHANGED <<clock, host>>,
         hungry' \in [Schedulers -> [Schedules -> Nat]]
  PROVE  RecordsOK' /\ RecordInv' /\ TicksOK' /\ SeenInv'
<1>1. SchedulerTypeOK /\ SeenInv /\ RecordsOK /\ RecordInv /\ clock \in Nat /\ TicksOK
  BY DEF SchedulerInv, SchedulerTypeOK
<1>2. RecordsOK' /\ RecordInv' /\ Onward
  BY <1>1, StaysKeeps, Standing DEF StoresStay
<1> DEFINE v == Idle(last)
<1>3. v \in TickRecords /\ v.now = 0 /\ v.queue = <<>> /\ v.again = <<>>
  BY IdleIs
<1> HIDE DEF v
<1>4. Waits(v) = {}
  BY <1>3, NoneWait
<1>5. tick' \in [Schedulers -> TickRecords]
  BY <1>1, <1>3 DEF TicksOK, v
<1>6. \A y \in Schedulers : tick'[y] = IF y = x THEN v ELSE tick[y]
  BY <1>1 DEF TicksOK, v
<1>7. ASSUME NEW y \in Schedulers
      PROVE  /\ tick'[y].now <= clock' /\ (tick'[y].queue # <<>> => tick'[y].share >= 1)
             /\ Waits(tick'[y]) \subseteq Waits(tick[y])
  <2>1. CASE y = x
    BY <1>1, <1>3, <1>4, <1>6, <2>1
  <2>2. CASE y # x
    BY <1>1, <1>6, <2>2 DEF TicksOK
  <2> QED BY <2>1, <2>2
<1>8. clock' \in Nat /\ clock <= clock'
  BY <1>1
<1>9. TicksOK' /\ SeenInv'
  BY <1>1, <1>2, <1>5, <1>7, <1>8, TicksChange
<1> QED BY <1>2, <1>9

LEMMA FinishKeeps ==
  ASSUME SchedulerInv, NEW x \in Schedulers, Finish(x)
  PROVE  RecordsOK' /\ RecordInv' /\ TicksOK' /\ SeenInv' /\ UNCHANGED <<clock, host>>
<1>1. StoresStay /\ UNCHANGED <<clock, host>> /\ Ended(x)
  BY DEF Finish, StoresStay
<1>2. tick[x] \in TickRecords /\ hungry \in [Schedulers -> [Schedules -> Nat]]
  BY DEF SchedulerInv, SchedulerTypeOK, TicksOK
<1>3. PICK last : last = tick[x].last
  OBVIOUS
<1>4. last \in 0..NumSchedules /\ tick' = [tick EXCEPT ![x] = Idle(last)]
  BY <1>1, <1>2, <1>3 DEF TickRecords, Ended
<1>5. hungry' \in [Schedulers -> [Schedules -> Nat]]
  <2> DEFINE h == [s \in Schedules |-> IF s \in tick[x].waiting /\ sched[s].status = "active"
                                       THEN hungry[x][s] + 1 ELSE 0]
  <2>1. h \in [Schedules -> Nat]
    BY <1>2
  <2>2. hungry' = [hungry EXCEPT ![x] = h]
    BY <1>1 DEF Ended
  <2> QED BY <1>2, <2>1, <2>2
<1> QED BY <1>1, <1>4, <1>5, IdleKeeps

LEMMA CrashKeeps ==
  ASSUME SchedulerAssumption, SchedulerInv, NEW x \in Schedulers, Crash(x)
  PROVE  RecordsOK' /\ RecordInv' /\ TicksOK' /\ SeenInv' /\ UNCHANGED <<clock, host>>
<1>1. StoresStay /\ UNCHANGED <<clock, host>> /\ tick' = [tick EXCEPT ![x] = Idle(0)]
      /\ hungry' = [hungry EXCEPT ![x] = [id \in Schedules |-> 0]]
  BY DEF Crash, StoresStay
<1>2. hungry' \in [Schedulers -> [Schedules -> Nat]]
  <2>1. hungry \in [Schedulers -> [Schedules -> Nat]]
    BY DEF SchedulerInv, SchedulerTypeOK, TicksOK
  <2> QED BY <1>1, <2>1
<1>3. 0 \in 0..NumSchedules
  BY DEF SchedulerAssumption
<1> QED BY <1>1, <1>2, <1>3, IdleKeeps

\* The ticks with nobody waiting, for a change that begins the turns anew.
LEMMA ReorderedIs ==
  ASSUME tick \in [Schedulers -> TickRecords], NEW y \in Schedulers, Reordered
  PROVE  /\ tick' \in [Schedulers -> TickRecords]
         /\ tick'[y].pc = tick[y].pc /\ tick'[y].now = tick[y].now
         /\ tick'[y].queue = tick[y].queue /\ tick'[y].again = tick[y].again
         /\ tick'[y].share = tick[y].share /\ tick'[y].last = tick[y].last
         /\ tick'[y].waiting = {} /\ hungry'[y] = [id \in Schedules |-> 0]
<1>1. ASSUME NEW t \in TickRecords
      PROVE  LET v == [t EXCEPT !.waiting = {}]
             IN /\ v \in TickRecords /\ v.pc = t.pc /\ v.now = t.now /\ v.queue = t.queue
                /\ v.again = t.again /\ v.share = t.share /\ v.last = t.last /\ v.waiting = {}
  BY DEF TickRecords
<1>2. /\ tick' = [x \in Schedulers |-> [tick[x] EXCEPT !.waiting = {}]]
      /\ hungry' = [x \in Schedulers |-> [id \in Schedules |-> 0]]
  BY DEF Reordered
<1>3. \A x \in Schedulers : tick'[x] = [tick[x] EXCEPT !.waiting = {}] /\ tick[x] \in TickRecords
  BY <1>2
<1>4. \A x \in Schedulers : tick'[x] \in TickRecords
  BY ZenonT(30), <1>1, <1>3
<1>5. tick' \in [Schedulers -> TickRecords]
  BY <1>2, <1>4
<1>6. PICK t : t = tick[y]
  OBVIOUS
<1>7. t \in TickRecords /\ tick'[y] = [t EXCEPT !.waiting = {}]
  BY <1>3, <1>6
<1> QED BY <1>1, <1>2, <1>5, <1>6, <1>7

\* A change of a host leaves the ticks well formed, and what they saw known.
LEMMA LandsTicks ==
  ASSUME SchedulerAssumption, SchedulerInv, Lands
  PROVE  TicksOK' /\ SeenInv'
<1>1. SchedulerTypeOK /\ SeenInv /\ CursorInv /\ TicksOK /\ clock \in Nat
  BY DEF SchedulerInv, SchedulerTypeOK, RecordInv
<1>2. Onward
  BY <1>1, LandsOnward
<1>3. clock' = clock /\ (Reordered \/ UNCHANGED <<tick, hungry>>)
  BY DEF Lands
<1>4. CASE Reordered
  <2>1. \A y \in Schedulers :
          /\ tick' \in [Schedulers -> TickRecords]
          /\ tick'[y].now = tick[y].now
          /\ tick'[y].queue = tick[y].queue /\ tick'[y].again = tick[y].again
          /\ tick'[y].share = tick[y].share
    BY <1>1, <1>4, ReorderedIs DEF TicksOK
  <2>2. tick' \in [Schedulers -> TickRecords]
    <3>1. CASE Schedulers = {}
      BY <1>4, <3>1 DEF Reordered
    <3>2. CASE Schedulers # {}
      BY <2>1, <3>2
    <3> QED BY <3>1, <3>2
  <2>3. hungry' \in [Schedulers -> [Schedules -> Nat]]
    BY <1>4 DEF Reordered
  <2>4. \A y \in Schedulers :
          /\ tick'[y].now <= clock' /\ (tick'[y].queue # <<>> => tick'[y].share >= 1)
          /\ Waits(tick'[y]) \subseteq Waits(tick[y])
    BY <1>1, <1>3, <2>1 DEF TicksOK, Waits
  <2> QED BY <1>1, <1>2, <1>3, <2>2, <2>3, <2>4, TicksChange
<1>5. CASE UNCHANGED <<tick, hungry>>
  <2>1. \A y \in Schedulers :
          /\ tick'[y].now <= clock' /\ (tick'[y].queue # <<>> => tick'[y].share >= 1)
          /\ Waits(tick'[y]) \subseteq Waits(tick[y])
    BY <1>1, <1>3, <1>5 DEF TicksOK
  <2>2. tick' \in [Schedulers -> TickRecords] /\ hungry' \in [Schedulers -> [Schedules -> Nat]]
    BY <1>1, <1>5 DEF TicksOK
  <2> QED BY <1>1, <1>2, <1>3, <2>1, <2>2, TicksChange
<1> QED BY <1>3, <1>4, <1>5

LEMMA LandsStep ==
  ASSUME SchedulerAssumption, SchedulerInv, Lands
  PROVE  SchedulerInv'
<1>1. RecordsOK' /\ RecordInv'
  BY LandsKeeps DEF SchedulerInv
<1>2. TicksOK' /\ SeenInv'
  BY LandsTicks
<1>3. clock' = clock /\ host' = NoChange
  BY DEF Lands
<1> QED BY <1>1, <1>2, <1>3 DEF SchedulerInv, SchedulerTypeOK

\* A host reads a schedule and means to change it.
LEMMA IntendsStep ==
  ASSUME SchedulerInv, NEW kind \in {"put", "pause", "resume", "cancel"}, NEW id \in Schedules,
         NEW spec \in Specifications, Intends(kind, id, spec)
  PROVE  SchedulerInv'
<1>1. SchedulerTypeOK /\ SeenInv /\ RecordsOK /\ RecordInv /\ clock \in Nat /\ TicksOK
  BY DEF SchedulerInv, SchedulerTypeOK
<1>2. StoresStay /\ UNCHANGED <<clock, tick, hungry>>
  <2>1. UNCHANGED <<clock, sched, inbox, recorded, tick, sent, caught, hungry>>
    BY DEF Intends
  <2> QED BY <2>1 DEF StoresStay
<1>3. RecordsOK' /\ RecordInv'
  BY <1>1, <1>2, StaysKeeps
<1>4. TicksOK' /\ SeenInv'
  BY <1>1, <1>2 DEF TicksOK, SeenInv, StoresStay, Exists
<1>5. RevisionOf(id) \in Nat
  BY <1>1, Existing DEF RevisionOf, ScheduleRecords
<1>6. host' = [kind |-> kind, id |-> id, spec |-> spec, from |-> clock, expected |-> RevisionOf(id)]
  BY DEF Intends
<1>7. host' \in Changes /\ host'.from = clock
  BY <1>1, <1>5, <1>6 DEF Changes
<1> QED BY <1>1, <1>2, <1>3, <1>4, <1>7 DEF SchedulerInv, SchedulerTypeOK

\* A host intends a change.
LEMMA HostStep ==
  ASSUME SchedulerAssumption, SchedulerInv, NEW id \in Schedules,
         (\E spec \in Specs[id] : Put(id, spec)) \/ Pause(id) \/ Resume(id) \/ Cancel(id)
  PROVE  SchedulerInv'
<1>1. RecordsOK
  BY DEF SchedulerInv, SchedulerTypeOK
<1>2. sched[id].status \in {"active", "paused"} => sched[id].spec \in Specifications
  BY <1>1, Existing DEF Statuses, ScheduleRecords
<1>3. CASE \E spec \in Specs[id] : Put(id, spec)
  <2>1. PICK spec \in Specs[id] : Put(id, spec)
    BY <1>3
  <2>2. spec \in Specifications
    BY DEF SchedulerAssumption, Specifications, Schedules
  <2> QED BY <2>1, <2>2, IntendsStep DEF Put
<1>4. CASE Pause(id)
  BY <1>2, <1>4, IntendsStep DEF Pause
<1>5. CASE Resume(id)
  BY <1>2, <1>5, IntendsStep DEF Resume
<1>6. CASE Cancel(id)
  BY <1>2, <1>6, IntendsStep DEF Cancel
<1> QED BY <1>3, <1>4, <1>5, <1>6

\* An inbox entry moves.
LEMMA InboxStep ==
  ASSUME SchedulerInv, NEW o \in Occurrences, Apply(o) \/ PruneInbox(o)
  PROVE  SchedulerInv'
<1>1. SchedulerTypeOK /\ SeenInv /\ RecordsOK /\ RecordInv /\ TicksOK
  BY DEF SchedulerInv, SchedulerTypeOK
<1>2. /\ UNCHANGED <<clock, sched, recorded, tick, host, sent, caught, hungry>>
      /\ inbox[o] # "none"
      /\ inbox' = [inbox EXCEPT ![o] = "applied"] \/ inbox' = [inbox EXCEPT ![o] = "none"]
  BY DEF Apply, PruneInbox
<1>3. RecordsOK' /\ RecordInv'
  BY <1>1, <1>2, EntryMoves
<1>4. TicksOK' /\ SeenInv'
  BY <1>1, <1>2 DEF TicksOK, SeenInv, Exists
<1> QED BY <1>1, <1>2, <1>3, <1>4 DEF SchedulerInv, SchedulerTypeOK

\* The clock moves.
LEMMA ClockStep ==
  ASSUME SchedulerAssumption, SchedulerInv, Tick
  PROVE  SchedulerInv'
<1>1. SchedulerTypeOK /\ SeenInv /\ RecordsOK /\ RecordInv /\ TicksOK /\ clock \in Nat
  BY DEF SchedulerInv, SchedulerTypeOK
<1>2. StoresStay /\ UNCHANGED <<tick, host, hungry>>
  <2>1. UNCHANGED <<sched, inbox, recorded, tick, host, counts, sent, caught, hungry>>
    BY DEF Tick
  <2> QED BY <2>1 DEF StoresStay
<1>3. clock' \in 0..MaxClock /\ clock' \in Nat /\ clock <= clock'
  BY <1>1 DEF Tick, SchedulerAssumption
<1>4. RecordsOK' /\ RecordInv'
  BY <1>1, <1>2, <1>3, TimePasses
<1>5. TicksOK' /\ SeenInv'
  <2>1. \A y \in Schedulers :
          /\ tick'[y].now <= clock' /\ (tick'[y].queue # <<>> => tick'[y].share >= 1)
          /\ Waits(tick'[y]) \subseteq Waits(tick[y])
    <3> SUFFICES ASSUME NEW y \in Schedulers PROVE tick[y].now <= clock'
      BY <1>1, <1>2 DEF TicksOK
    <3>1. tick[y].now \in Nat /\ tick[y].now <= clock
      BY <1>1 DEF TicksOK, TickRecords
    <3> QED BY <1>1, <1>3, <3>1
  <2>2. tick' \in [Schedulers -> TickRecords] /\ hungry' \in [Schedulers -> [Schedules -> Nat]]
    BY <1>1, <1>2 DEF TicksOK
  <2> QED BY <1>1, <1>2, <1>3, <2>1, <2>2, TicksChange, Standing DEF StoresStay
<1>6. host' # NoChange => host'.from <= clock'
  <2> SUFFICES ASSUME host # NoChange PROVE host.from <= clock'
    BY <1>2
  <2>1. host.from \in Nat /\ host.from <= clock
    BY <1>1 DEF SchedulerTypeOK, Changes
  <2> QED BY <1>1, <1>3, <2>1
<1> QED BY <1>1, <1>2, <1>3, <1>4, <1>5, <1>6 DEF SchedulerInv, SchedulerTypeOK

\* A scheduler moves.
LEMMA TickStep ==
  ASSUME SchedulerAssumption, SchedulerInv, NEW x \in Schedulers, Ticks(x) \/ Crash(x)
  PROVE  SchedulerInv'
<1>1. RecordsOK' /\ RecordInv' /\ TicksOK' /\ SeenInv' /\ UNCHANGED <<clock, host>>
  BY BeginKeeps, ListKeeps, PassesKeeps, StepsKeeps, FinishKeeps, CrashKeeps DEF Ticks
<1> QED BY <1>1 DEF SchedulerInv, SchedulerTypeOK

\* Every step keeps the invariant.
LEMMA SchedulerStep ==
  ASSUME SchedulerAssumption, SchedulerInv, [Next]_vars
  PROVE  SchedulerInv'
<1>1. CASE UNCHANGED vars
  <2>1. /\ UNCHANGED <<clock, tick, host, hungry>> /\ StoresStay
    BY <1>1 DEF vars, StoresStay
  <2>2. SchedulerTypeOK /\ SeenInv /\ RecordsOK /\ RecordInv /\ TicksOK /\ clock \in Nat
    BY DEF SchedulerInv, SchedulerTypeOK
  <2>3. RecordsOK' /\ RecordInv'
    BY <2>1, <2>2, StaysKeeps
  <2>4. TicksOK' /\ SeenInv'
    BY <2>1, <2>2 DEF TicksOK, SeenInv, StoresStay, Exists
  <2> QED BY <2>1, <2>2, <2>3, <2>4 DEF SchedulerInv, SchedulerTypeOK
<1>2. CASE \E x \in Schedulers : Ticks(x) \/ Crash(x)
  BY <1>2, TickStep
<1>3. CASE \E id \in Schedules :
             (\E spec \in Specs[id] : Put(id, spec)) \/ Pause(id) \/ Resume(id) \/ Cancel(id)
  BY <1>3, HostStep
<1>4. CASE Lands
  BY <1>4, LandsStep
<1>5. CASE \E o \in Occurrences : Apply(o) \/ PruneInbox(o)
  BY <1>5, InboxStep
<1>6. CASE Tick
  BY <1>6, ClockStep
<1> QED BY <1>1, <1>2, <1>3, <1>4, <1>5, <1>6 DEF Next

\* A schedule that was cancelled long ago.
LEMMA CancelledIs ==
  ASSUME SchedulerAssumption, NEW id \in Schedules
  PROVE  LET r == CancelledBefore(id)
         IN /\ r \in ScheduleRecords /\ r.status = "cancelled" /\ Ordered(r, 0)
            /\ r.scanTo = NoTime /\ r.cursor = 0 /\ r.base = 0
<1> DEFINE spec == CHOOSE s \in Specs[id] : TRUE
           c == Created(spec, 0)
           r == [c EXCEPT !.status = "cancelled"]
<1>1. spec \in Specifications
  <2>1. Specs[id] # {} /\ Specs[id] \subseteq Specifications
    BY DEF SchedulerAssumption, Schedules, Specifications
  <2> QED BY <2>1
<1>2. r = CancelledBefore(id)
  BY DEF CancelledBefore
<1> HIDE DEF spec
<1>3. /\ c \in ScheduleRecords /\ Ordered(c, 0) /\ c.scanTo = NoTime
      /\ c.cursor = 0 /\ c.base = 0 /\ c.opened = 0
  BY <1>1, CreatedIs
<1> HIDE DEF c
<1>4. /\ r \in ScheduleRecords /\ r.status = "cancelled" /\ r.scanTo = c.scanTo
      /\ r.cursor = c.cursor /\ r.base = c.base /\ r.opened = c.opened /\ r.from = c.from
  BY <1>3 DEF ScheduleRecords, Statuses
<1> HIDE DEF r
<1>5. Ordered(r, 0)
  <2>1. Start(r) = Start(c)
    BY <1>4 DEF Start
  <2> QED BY <1>3, <1>4, <2>1 DEF Ordered
<1> QED BY <1>2, <1>3, <1>4, <1>5

\* The invariant holds at first.
LEMMA SchedulerInit ==
  ASSUME SchedulerAssumption, Init
  PROVE  SchedulerInv
<1>1. PICK S \in SUBSET Schedulers, I \in SUBSET Schedules :
        /\ sched = [id \in Schedules |-> IF id \in I THEN NoSchedule ELSE CancelledBefore(id)]
        /\ tick = [x \in Schedulers |-> IF x \in S THEN Idle(0) ELSE NotRunning]
  BY DEF Init
<1>2. /\ clock = 0 /\ inbox = [o \in Occurrences |-> "none"]
      /\ recorded = [o \in Occurrences |-> "none"] /\ sent = [o \in Occurrences |-> 0]
      /\ host = NoChange /\ caught = {} /\ hungry = [x \in Schedulers |-> [id \in Schedules |-> 0]]
  BY DEF Init
<1>3. ASSUME NEW id \in Schedules
      PROVE  sched[id] = NoSchedule
               \/ (/\ sched[id] \in ScheduleRecords /\ sched[id].status = "cancelled"
                   /\ Ordered(sched[id], 0) /\ sched[id].scanTo = NoTime
                   /\ sched[id].cursor = 0 /\ sched[id].base = 0)
  <2>1. PICK r : r = CancelledBefore(id)
    OBVIOUS
  <2>2. /\ r \in ScheduleRecords /\ r.status = "cancelled" /\ Ordered(r, 0)
        /\ r.scanTo = NoTime /\ r.cursor = 0 /\ r.base = 0
    BY <2>1, CancelledIs
  <2>3. sched[id] = NoSchedule \/ sched[id] = r
    BY <1>1, <2>1
  <2> QED BY <2>2, <2>3
<1>4. RecordsOK
  <2>1. sched \in [Schedules -> {NoSchedule} \cup ScheduleRecords]
    BY <1>1, <1>3
  <2> QED BY <1>2, <2>1 DEF RecordsOK
<1>5. ASSUME NEW x \in Schedulers
      PROVE  /\ tick[x] \in TickRecords /\ tick[x].now = 0
             /\ tick[x].queue = <<>> /\ tick[x].again = <<>>
  <2> DEFINE t == Idle(0)
  <2>1. 0 \in 0..NumSchedules
    BY DEF SchedulerAssumption
  <2>2. t \in TickRecords /\ t.now = 0 /\ t.queue = <<>> /\ t.again = <<>>
    BY <2>1, IdleIs
  <2> HIDE DEF t
  <2>3. LET u == [t EXCEPT !.pc = "off"]
        IN u \in TickRecords /\ u.now = t.now /\ u.queue = t.queue /\ u.again = t.again
    BY <2>2 DEF TickRecords
  <2>4. tick[x] = t \/ tick[x] = [t EXCEPT !.pc = "off"]
    BY <1>1 DEF NotRunning, t
  <2> QED BY <2>2, <2>3, <2>4
<1>6. TicksOK
  <2>1. tick \in [Schedulers -> TickRecords]
    BY <1>1, <1>5
  <2> QED BY <1>2, <1>5, <2>1 DEF TicksOK
<1>7. SeenInv
  <2>1. \A x \in Schedulers : Waits(tick[x]) = {}
    BY <1>5, NoneWait
  <2> QED BY <2>1 DEF SeenInv
<1>8. SchedulerTypeOK
  <2>1. clock \in 0..MaxClock
    BY <1>2 DEF SchedulerAssumption
  <2> QED BY <1>2, <1>4, <1>6, <2>1 DEF SchedulerTypeOK
<1>9. NoSchedule.status = "none"
  BY DEF NoSchedule
<1>10. CursorInv
  BY <1>2, <1>3, <1>9 DEF CursorInv, Exists
<1>11. Untouched
  BY <1>2 DEF Untouched
<1>12. DeliveredOnce
  BY <1>2 DEF DeliveredOnce
<1>13. NothingForgotten
  <2> SUFFICES ASSUME NEW id \in Schedules, sched[id] # NoSchedule
               PROVE  Between(sched[id].spec, sched[id].base, sched[id].cursor) = {}
    BY DEF NothingForgotten
  <2>1. sched[id].base = 0 /\ sched[id].cursor = 0
    BY <1>3
  <2> QED BY <2>1, BetweenNothing
<1>14. WindowInv
  BY <1>3, <1>9 DEF WindowInv, Exists, Scanning
<1>15. CaughtInv /\ LatestDeliversTheNewest
  BY <1>2 DEF CaughtInv, LatestDeliversTheNewest
<1>16. CancelledIsQuiet
  BY <1>2 DEF CancelledIsQuiet
<1> QED BY <1>7, <1>8, <1>10, <1>11, <1>12, <1>13, <1>14, <1>15, <1>16 DEF SchedulerInv, RecordInv

-----------------------------------------------------------------------------
\* Whatever is stored, and whatever a scheduler knows of it, stays well formed:
\* cursors, boundaries and windows in order, nothing past a cursor touched
\* (store-shared.ts, scheduler.ts).
THEOREM SchedulesStand == Spec => []SchedulerInv
<1>1. Init => SchedulerInv
  BY SchedulerAssumption, SchedulerInit
<1>2. SchedulerInv /\ [Next]_vars => SchedulerInv'
  BY SchedulerAssumption, SchedulerStep
<1> QED BY <1>1, <1>2, PTL DEF Spec

\* However many schedulers tick, whatever fails and is retried, whatever a goal
\* applied or retention pruned: an occurrence enters the inbox once at most.
THEOREM OnceDelivered == Spec => []DeliveredOnce
<1>1. SchedulerInv => DeliveredOnce
  BY DEF SchedulerInv, RecordInv
<1> QED BY <1>1, SchedulesStand, PTL

\* No occurrence a cursor has passed since the last change is without a record.
THEOREM NoneForgotten == Spec => []NothingForgotten
<1>1. SchedulerInv => NothingForgotten
  BY DEF SchedulerInv, RecordInv
<1> QED BY <1>1, SchedulesStand, PTL

\* However many steps and ticks a catch-up took, "latest" delivers the newest
\* occurrence of its window and no other.
THEOREM NewestDelivered == Spec => []LatestDeliversTheNewest
<1>1. SchedulerInv => LatestDeliversTheNewest
  BY DEF SchedulerInv, RecordInv
<1> QED BY <1>1, SchedulesStand, PTL

\* A step planned before a cancel puts nothing into the inbox after it.
THEOREM QuietOnceCancelled == Spec => []CancelledIsQuiet
<1>1. SchedulerInv => CancelledIsQuiet
  BY DEF SchedulerInv, RecordInv
<1> QED BY <1>1, SchedulesStand, PTL

-----------------------------------------------------------------------------
(* Turns. *)

Active == {id \in Schedules : sched[id].status = "active"}

\* Who waits is queued with its turn to come: whoever is before it, or was
\* served in its stead, is nearer to it than its waits so far leave room for.
Near(e, id, h, A) == e \in A /\ h + 1 + Ahead(e, id) <= NumSchedules - 1
Queued(t, j, id, h, A) ==
  /\ t.queue[j].id = id /\ Due(t.queue[j].seen, t.now)
  /\ \A i \in 1..(j - 1) : t.queue[i].id # id /\ Near(t.queue[i].id, id, h, A)
Queues(t, id, h, A) ==
  /\ \E j \in 1..Len(t.queue) : Queued(t, j, id, h, A)
  /\ t.left[id] = MaxScan
  /\ t.budget < MaxDeliveries => Near(t.last, id, h, A)
Fair(t, h, A) ==
  /\ t.pc # "round" => t.waiting = {}
  /\ \A id \in Schedules :
       /\ h[id] <= NumSchedules - 1
       /\ t.pc # "round" /\ h[id] > 0 => Near(t.last, id, h[id] - 1, A)
       /\ id \in t.waiting => Queues(t, id, h[id], A)
TurnInv == \A x \in Schedulers : Fair(tick[x], hungry[x], Active)

\* The more schedules are active, the fairer.
LEMMA FairStays ==
  ASSUME NEW t, NEW h, NEW A, NEW B, A \subseteq B, Fair(t, h, A)
  PROVE  Fair(t, h, B)
<1>1. \A e, id, n : Near(e, id, n, A) => Near(e, id, n, B)
  BY DEF Near
<1>2. \A id, n : Queues(t, id, n, A) => Queues(t, id, n, B)
  BY <1>1 DEF Queues, Queued
<1> QED BY <1>1, <1>2 DEF Fair

\* Nobody waits, and nobody waited.
LEMMA FairAnew ==
  ASSUME SchedulerAssumption, NEW t, NEW h, NEW A, t.waiting = {}, h = [id \in Schedules |-> 0]
  PROVE  Fair(t, h, A)
<1>1. \A id \in Schedules : h[id] = 0
  OBVIOUS
<1>2. NumSchedules \in Nat
  BY DEF SchedulerAssumption
<1>3. Schedules # {} => NumSchedules >= 1
  BY <1>2 DEF Schedules
<1>4. \A id \in Schedules : h[id] <= NumSchedules - 1
  BY <1>1, <1>2, <1>3
<1> QED BY <1>1, <1>4 DEF Fair

\* The head had its turn: those behind it are one nearer.
LEMMA QueuesOn ==
  ASSUME NEW t \in TickRecords, t.queue # <<>>, NEW head, head = t.queue[1],
         NEW v, Turned(t, v, head), NEW id \in Schedules, id # head.id, NEW h, NEW A,
         Queues(t, id, h, A), v.last = head.id \/ (v.last = t.last /\ v.budget = t.budget)
  PROVE  Queues(v, id, h, A) /\ v.queue # <<>>
<1>1. t.queue \in Seq(Entries)
  BY DEF TickRecords
<1>2. /\ v.queue = Tail(t.queue) /\ v.queue \in Seq(Entries)
      /\ Len(t.queue) \in Nat /\ Len(v.queue) = Len(t.queue) - 1
      /\ \A i \in 1..(Len(t.queue) - 1) : v.queue[i] = t.queue[i + 1]
  BY <1>1, TailIs DEF Turned
<1>3. PICK j \in 1..Len(t.queue) : Queued(t, j, id, h, A)
  BY DEF Queues
<1>4. j # 1 /\ j \in Nat /\ j >= 2
  <2>1. j # 1
    BY <1>3 DEF Queued
  <2> QED BY <1>2, <2>1
<1>5. Near(head.id, id, h, A)
  BY <1>3, <1>4 DEF Queued
<1> DEFINE k == j - 1
<1>6. k \in 1..Len(v.queue) /\ j = k + 1 /\ v.queue[k] = t.queue[j]
  BY <1>2, <1>4
<1>7. ASSUME NEW i \in 1..(k - 1)
      PROVE  v.queue[i].id # id /\ Near(v.queue[i].id, id, h, A)
  <2> DEFINE m == i + 1
  <2>1. m \in 1..(j - 1) /\ v.queue[i] = t.queue[m]
    BY <1>2, <1>6
  <2> HIDE DEF m
  <2> QED BY <1>3, <2>1 DEF Queued
<1> HIDE DEF k
<1>8. Queued(v, k, id, h, A)
  <2>1. v.now = t.now
    BY DEF Turned
  <2> QED BY <1>3, <1>6, <1>7, <2>1 DEF Queued
<1>9. v.left[id] = MaxScan
  BY DEF Queues, Turned
<1>10. v.budget < MaxDeliveries => Near(v.last, id, h, A)
  BY <1>5 DEF Queues
<1>11. v.queue # <<>>
  <2>1. Len(v.queue) >= 1
    BY <1>2, <1>3, <1>4
  <2> QED BY <2>1
<1>12. \E n \in 1..Len(v.queue) : Queued(v, n, id, h, A)
  BY <1>6, <1>8
<1> QED BY <1>9, <1>10, <1>11, <1>12 DEF Queues

\* Who is due does not pass.
LEMMA DueNeverPasses ==
  ASSUME SchedulerAssumption, NEW t \in TickRecords, t.queue # <<>>,
         NEW head \in Entries, head = t.queue[1], NEW h, NEW A, Queues(t, head.id, h, A)
  PROVE  /\ HasWork(head.seen, t.now)
         /\ \A cap : Plan(head.seen, t.now, cap, t.left[head.id]) # NoStep
<1>1. PICK j \in 1..Len(t.queue) : Queued(t, j, head.id, h, A)
  BY DEF Queues
<1>2. j = 1
  <2>1. ~(1 \in 1..(j - 1))
    BY <1>1 DEF Queued
  <2>2. t.queue \in Seq(Entries)
    BY DEF TickRecords
  <2> QED BY <2>1, <2>2
<1>3. Due(head.seen, t.now) /\ t.left[head.id] = MaxScan
  BY <1>1, <1>2 DEF Queued, Queues
<1>4. head.seen \in ScheduleRecords /\ t.now \in Nat
  BY DEF Entries, TickRecords
<1> QED BY <1>3, <1>4, DueSteps

\* The tick of x goes on as v does.
LEMMA FairGoes ==
  ASSUME tick \in [Schedulers -> TickRecords], NEW x \in Schedulers,
         NEW v \in TickRecords, v.queue # <<>> => v.share >= 1, Goes(x, v), v.pc = "round",
         NEW h, NEW A, \A id \in Schedules : h[id] <= NumSchedules - 1,
         \A id \in v.waiting : Queues(v, id, h[id], A) /\ v.queue # <<>>
  PROVE  Fair(tick'[x], h, A)
<1>1. /\ tick'[x].pc = "round" /\ tick'[x].waiting = v.waiting
      /\ v.queue # <<>> => tick'[x] = v
  BY GoesIs
<1>2. ASSUME NEW id \in tick'[x].waiting PROVE Queues(tick'[x], id, h[id], A)
  BY <1>1, <1>2
<1> QED BY <1>1, <1>2 DEF Fair

\* The turns of another scheduler.
LEMMA Others ==
  ASSUME TurnInv, Active \subseteq Active', NEW y \in Schedulers,
         tick'[y] = tick[y], hungry'[y] = hungry[y]
  PROVE  Fair(tick'[y], hungry'[y], Active')
<1>1. PICK t, h, A, B : t = tick[y] /\ h = hungry[y] /\ A = Active /\ B = Active'
  OBVIOUS
<1>2. Fair(t, h, A) /\ A \subseteq B
  BY <1>1 DEF TurnInv
<1>3. Fair(t, h, B)
  BY <1>2, FairStays
<1> QED BY <1>1, <1>3

LEMMA StepsFair ==
  ASSUME SchedulerAssumption, SchedulerInv, TurnInv, NEW x \in Schedulers, Steps(x)
  PROVE  TurnInv'
<1>1. PICK t, head : t = tick[x] /\ head = t.queue[1]
  OBVIOUS
<1>2. /\ t \in TickRecords /\ t.queue # <<>> /\ t.pc = "round" /\ head \in Entries
      /\ StoresStay \/ \E now, plan : Advancing(head.id, now, plan)
  BY <1>1, StepTurns
<1>3. PICK v : StepsTo(x, t, head, v)
  BY <1>1, StepTurns
<1>4. /\ Goes(x, v) /\ Turned(t, v, head) /\ v.waiting = t.waiting \ {head.id}
      /\ v.last = head.id \/ (v.last = t.last /\ v.budget = t.budget)
      /\ v \in TickRecords /\ v.pc = "round" /\ (v.queue # <<>> => v.share >= 1)
  <2>1. t.share >= 1
    BY <1>1, <1>2 DEF SchedulerInv, SchedulerTypeOK, TicksOK
  <2> QED BY <1>2, <1>3, <2>1 DEF StepsTo, Turned
<1>5. RecordsOK /\ tick \in [Schedulers -> TickRecords]
  BY DEF SchedulerInv, SchedulerTypeOK, TicksOK
<1>6. Active' = Active
  <2>1. CASE StoresStay
    BY <2>1 DEF StoresStay, Active
  <2>2. CASE \E now, plan : Advancing(head.id, now, plan)
    <3>1. PICK now, plan : Advancing(head.id, now, plan)
      BY <2>2
    <3>2. PICK r : /\ sched'[head.id] = r /\ r.status = "active"
                   /\ \A i \in Schedules : i # head.id => sched'[i] = sched[i]
      BY <1>5, <3>1, AdvancingIs
    <3>3. sched[head.id].status = "active"
      BY <3>1 DEF Advancing
    <3>4. \A i \in Schedules : sched'[i].status = "active" <=> sched[i].status = "active"
      BY <3>2, <3>3
    <3> QED BY <3>4 DEF Active
  <2> QED BY <1>2, <2>1, <2>2
<1>7. PICK h, A : h = hungry[x] /\ A = Active
  OBVIOUS
<1>8. Fair(t, h, A)
  BY <1>1, <1>7 DEF TurnInv
<1>9. hungry' = hungry /\ \A y \in Schedulers : y # x => tick'[y] = tick[y]
  BY <1>4, <1>5, GoesIs
<1>10. ASSUME NEW id \in v.waiting PROVE Queues(v, id, h[id], A) /\ v.queue # <<>>
  <2>1. id \in t.waiting /\ id # head.id /\ id \in Schedules
    BY <1>2, <1>4 DEF TickRecords
  <2>2. Queues(t, id, h[id], A)
    BY <1>8, <2>1 DEF Fair
  <2> QED BY <1>1, <1>2, <1>4, <2>1, <2>2, QueuesOn
<1>11. Fair(tick'[x], h, A)
  <2>1. \A id \in Schedules : h[id] <= NumSchedules - 1
    BY <1>8 DEF Fair
  <2> QED BY <1>4, <1>5, <1>10, <2>1, FairGoes
<1>12. ASSUME NEW y \in Schedulers PROVE Fair(tick'[y], hungry'[y], Active')
  <2>1. CASE y = x
    BY <1>6, <1>7, <1>9, <1>11, <2>1
  <2>2. CASE y # x
    BY <1>6, <1>9, <2>2, Others
  <2> QED BY <2>1, <2>2
<1> QED BY <1>12 DEF TurnInv

LEMMA PassesFair ==
  ASSUME SchedulerAssumption, SchedulerInv, TurnInv, NEW x \in Schedulers, Passes(x)
  PROVE  TurnInv'
<1>1. PICK t, head : t = tick[x] /\ head = t.queue[1]
  OBVIOUS
<1>2. /\ t \in TickRecords /\ t.queue # <<>> /\ t.pc = "round" /\ head \in Entries /\ StoresStay
      /\ \/ ~HasWork(head.seen, t.now)
         \/ \E cap : Plan(head.seen, t.now, cap, t.left[head.id]) = NoStep
  BY <1>1, PassTurns
<1>3. PICK v : PassesTo(x, t, head, v)
  BY <1>1, PassTurns
<1>4. /\ Goes(x, v) /\ Turned(t, v, head) /\ v.waiting = t.waiting
      /\ v.last = t.last /\ v.budget = t.budget
      /\ v \in TickRecords /\ v.pc = "round" /\ (v.queue # <<>> => v.share >= 1)
  <2>1. t.share >= 1
    BY <1>1, <1>2 DEF SchedulerInv, SchedulerTypeOK, TicksOK
  <2> QED BY <1>2, <1>3, <2>1 DEF PassesTo, Turned
<1>5. RecordsOK /\ tick \in [Schedulers -> TickRecords]
  BY DEF SchedulerInv, SchedulerTypeOK, TicksOK
<1>6. Active' = Active
  BY <1>2 DEF StoresStay, Active
<1>7. PICK h, A : h = hungry[x] /\ A = Active
  OBVIOUS
<1>8. Fair(t, h, A)
  BY <1>1, <1>7 DEF TurnInv
<1>9. hungry' = hungry /\ \A y \in Schedulers : y # x => tick'[y] = tick[y]
  BY <1>4, <1>5, GoesIs
<1>10. ASSUME NEW id \in v.waiting PROVE Queues(v, id, h[id], A) /\ v.queue # <<>>
  <2>1. id \in t.waiting /\ id \in Schedules
    BY <1>2, <1>4 DEF TickRecords
  <2>2. Queues(t, id, h[id], A)
    BY <1>8, <2>1 DEF Fair
  <2>3. id # head.id
    BY ZenonT(30), <1>1, <1>2, <2>2, DueNeverPasses
  <2> QED BY <1>1, <1>2, <1>4, <2>1, <2>2, <2>3, QueuesOn
<1>11. Fair(tick'[x], h, A)
  <2>1. \A id \in Schedules : h[id] <= NumSchedules - 1
    BY <1>8 DEF Fair
  <2> QED BY <1>4, <1>5, <1>10, <2>1, FairGoes
<1>12. ASSUME NEW y \in Schedulers PROVE Fair(tick'[y], hungry'[y], Active')
  <2>1. CASE y = x
    BY <1>6, <1>7, <1>9, <1>11, <2>1
  <2>2. CASE y # x
    BY <1>6, <1>9, <2>2, Others
  <2> QED BY <2>1, <2>2
<1> QED BY <1>12 DEF TurnInv

LEMMA ListFair ==
  ASSUME SchedulerAssumption, SchedulerInv, TurnInv, NEW x \in Schedulers, List(x)
  PROVE  TurnInv'
<1>1. PICK t : t = tick[x]
  OBVIOUS
<1>2. t \in TickRecords /\ t.pc = "listing" /\ StoresStay
  BY <1>1, ListIs
<1>3. PICK v : Goes(x, v) /\ Listed(t, v)
  BY <1>1, ListIs
<1>4. PICK h, A, ids : h = hungry[x] /\ A = Active /\ ids = Rotated(t.last)
  OBVIOUS
<1>5. /\ v \in TickRecords /\ v.pc = "round" /\ v.now = t.now
      /\ v.budget = MaxDeliveries /\ (v.queue # <<>> => v.share >= 1)
      /\ \A id \in Schedules : v.left[id] = MaxScan
      /\ Len(v.queue) = Len(ids)
      /\ \A i \in 1..Len(ids) : v.queue[i].id = ids[i] /\ v.queue[i].seen = sched[ids[i]]
      /\ \A id \in v.waiting : sched[id].status = "active" /\ Due(sched[id], t.now)
  BY <1>3, <1>4 DEF Listed
<1>6. /\ tick \in [Schedulers -> TickRecords] /\ h \in [Schedules -> Nat]
      /\ t.last \in 0..NumSchedules /\ NumSchedules \in Nat /\ MaxDeliveries \in Nat
  BY <1>2, <1>4 DEF SchedulerInv, SchedulerTypeOK, TicksOK, TickRecords, SchedulerAssumption
<1>7. Active' = Active
  BY <1>2 DEF StoresStay, Active
<1>8. Fair(t, h, A)
  BY <1>1, <1>4 DEF TurnInv
<1>9. hungry' = hungry /\ \A y \in Schedulers : y # x => tick'[y] = tick[y]
  BY <1>3, <1>5, <1>6, GoesIs
<1>10. Turns(ids, t.last)
  BY <1>4, <1>6, RotatedIs
<1>11. ASSUME NEW id \in v.waiting PROVE Queues(v, id, h[id], A) /\ v.queue # <<>>
  <2>1. id \in Schedules /\ sched[id].status = "active" /\ Due(sched[id], t.now)
    BY <1>5 DEF TickRecords
  <2>2. PICK j \in 1..Len(ids) :
          /\ ids[j] = id
          /\ \A i \in 1..(j - 1) :
               /\ ids[i] # id /\ Ahead(ids[i], id) <= NumSchedules - 2
               /\ Served(t.last) => Ahead(ids[i], id) < Ahead(t.last, id)
    BY <1>10, <2>1 DEF Turns, Before
  <2>3. ids \in Seq(Schedules) /\ Len(ids) \in Nat /\ \A i \in 1..Len(ids) : ids[i] \in A
    BY <1>4, <1>10 DEF Turns, Active
  <2>4. ASSUME NEW i \in 1..(j - 1)
        PROVE  v.queue[i].id # id /\ Near(v.queue[i].id, id, h[id], A)
    <3>1. i \in 1..Len(ids)
      BY <2>2, <2>3
    <3>2. /\ v.queue[i].id = ids[i] /\ ids[i] \in A /\ ids[i] # id
          /\ ids[i] \in Schedules /\ Ahead(ids[i], id) <= NumSchedules - 2
      BY <1>5, <2>2, <2>3, <3>1
    <3>3. Ahead(ids[i], id) \in Nat
      BY <1>6, <2>1, <3>2, Nearer
    <3>4. h[id] \in Nat
      BY <1>6, <2>1
    <3>5. h[id] + 1 + Ahead(ids[i], id) <= NumSchedules - 1
      <4>1. CASE h[id] = 0
        BY <1>6, <3>2, <3>3, <4>1
      <4>2. CASE h[id] > 0
        <5>1. Near(t.last, id, h[id] - 1, A)
          BY <1>2, <1>8, <2>1, <4>2 DEF Fair
        <5>2. Served(t.last) /\ t.last \in Schedules
          BY <1>4, <5>1 DEF Near, Active, Served
        <5>3. Ahead(t.last, id) \in Int
          BY SMTT(20), <1>6, <2>1, <5>2 DEF Ahead, Schedules
        <5>4. Ahead(ids[i], id) < Ahead(t.last, id)
          BY <2>2, <5>2
        <5>5. h[id] - 1 + 1 + Ahead(t.last, id) <= NumSchedules - 1
          BY <5>1 DEF Near
        <5> QED BY SMTT(20), <1>6, <3>3, <3>4, <5>3, <5>4, <5>5
      <4> QED BY <3>4, <4>1, <4>2
    <3> QED BY <3>2, <3>5 DEF Near
  <2>5. v.queue[j].id = id /\ Due(v.queue[j].seen, v.now) /\ j \in 1..Len(v.queue)
    BY <1>5, <2>1, <2>2
  <2>6. Queued(v, j, id, h[id], A)
    BY <2>4, <2>5 DEF Queued
  <2>7. v.queue # <<>>
    BY <1>5, <2>3, <2>5
  <2>8. ~(v.budget < MaxDeliveries)
    BY <1>5, <1>6
  <2> QED BY <1>5, <2>1, <2>5, <2>6, <2>7, <2>8 DEF Queues
<1>12. Fair(tick'[x], h, A)
  <2>1. \A id \in Schedules : h[id] <= NumSchedules - 1
    BY <1>8 DEF Fair
  <2> QED BY <1>3, <1>5, <1>6, <1>11, <2>1, FairGoes
<1>13. ASSUME NEW y \in Schedulers PROVE Fair(tick'[y], hungry'[y], Active')
  <2>1. CASE y = x
    BY <1>4, <1>7, <1>9, <1>12, <2>1
  <2>2. CASE y # x
    BY <1>7, <1>9, <2>2, Others
  <2> QED BY <2>1, <2>2
<1> QED BY <1>13 DEF TurnInv

LEMMA BeginFair ==
  ASSUME SchedulerInv, TurnInv, NEW x \in Schedulers, Begin(x)
  PROVE  TurnInv'
<1>1. PICK t, h, A : t = tick[x] /\ h = hungry[x] /\ A = Active
  OBVIOUS
<1>2. t \in TickRecords /\ tick \in [Schedulers -> TickRecords] /\ clock \in Nat
  BY <1>1 DEF SchedulerInv, SchedulerTypeOK, TicksOK
<1>3. hungry' = hungry /\ sched' = sched /\ t.pc = "idle"
  BY <1>1 DEF Begin
<1>4. Active' = Active
  BY <1>3 DEF Active
<1> DEFINE v == [t EXCEPT !.pc = "listing", !.now = clock]
<1>5. tick' = [tick EXCEPT ![x] = v]
  BY <1>1 DEF Begin
<1>6. v.pc = "listing" /\ v.waiting = t.waiting /\ v.last = t.last
  BY <1>2 DEF TickRecords
<1> HIDE DEF v
<1>7. tick'[x] = v /\ \A y \in Schedulers : y # x => tick'[y] = tick[y]
  BY <1>2, <1>5
<1>8. Fair(t, h, A)
  BY <1>1 DEF TurnInv
<1>9. t.waiting = {}
  BY <1>3, <1>8 DEF Fair
<1>10. Fair(v, h, A)
  BY <1>3, <1>6, <1>8, <1>9 DEF Fair
<1>11. ASSUME NEW y \in Schedulers PROVE Fair(tick'[y], hungry'[y], Active')
  <2>1. CASE y = x
    BY <1>1, <1>3, <1>4, <1>7, <1>10, <2>1
  <2>2. CASE y # x
    BY <1>3, <1>4, <1>7, <2>2, Others
  <2> QED BY <2>1, <2>2
<1> QED BY <1>11 DEF TurnInv

\* Who waited to the end of a tick is one tick hungrier, and one turn nearer.
LEMMA FinishFair ==
  ASSUME SchedulerAssumption, SchedulerInv, TurnInv, NEW x \in Schedulers, Finish(x)
  PROVE  TurnInv'
<1>1. PICK t, h, A : t = tick[x] /\ h = hungry[x] /\ A = Active
  OBVIOUS
<1>2. /\ t \in TickRecords /\ tick \in [Schedulers -> TickRecords]
      /\ hungry \in [Schedulers -> [Schedules -> Nat]] /\ h \in [Schedules -> Nat]
  BY <1>1 DEF SchedulerInv, SchedulerTypeOK, TicksOK
<1>3. /\ sched' = sched /\ t.pc = "round" /\ (t.queue = <<>> \/ t.budget = 0)
  BY <1>1 DEF Finish
<1>4. Active' = Active
  BY <1>3 DEF Active
<1>5. PICK last : last = t.last
  OBVIOUS
<1> DEFINE v == Idle(last)
           g == [s \in Schedules |-> IF s \in t.waiting /\ sched[s].status = "active"
                                     THEN h[s] + 1 ELSE 0]
<1>6. tick' = [tick EXCEPT ![x] = v] /\ hungry' = [hungry EXCEPT ![x] = g]
  BY <1>1, <1>5 DEF Finish, Ended
<1>7. v.pc = "idle" /\ v.waiting = {} /\ v.last = t.last
  <2>1. last \in 0..NumSchedules
    BY <1>2, <1>5 DEF TickRecords
  <2> QED BY <1>5, <2>1, IdleIs
<1>8. \A id \in Schedules : g[id] = IF id \in t.waiting /\ sched[id].status = "active"
                                    THEN h[id] + 1 ELSE 0
  OBVIOUS
<1> HIDE DEF v, g
<1>9. /\ tick'[x] = v /\ hungry'[x] = g
      /\ \A y \in Schedulers : y # x => tick'[y] = tick[y] /\ hungry'[y] = hungry[y]
  BY <1>2, <1>6
<1>10. Fair(t, h, A)
  BY <1>1 DEF TurnInv
<1>11. ASSUME NEW id \in Schedules
       PROVE  /\ g[id] <= NumSchedules - 1
              /\ g[id] > 0 => Near(t.last, id, g[id] - 1, A)
  <2>1. NumSchedules \in Nat /\ NumSchedules >= 1 /\ MaxDeliveries \in Nat \ {0} /\ h[id] \in Nat
    BY <1>2 DEF SchedulerAssumption, Schedules
  <2>2. CASE id \in t.waiting /\ sched[id].status = "active"
    <3>1. g[id] = h[id] + 1
      BY <1>8, <2>2
    <3>2. Queues(t, id, h[id], A)
      BY <1>10, <2>2 DEF Fair
    <3>3. t.queue # <<>>
      BY <3>2 DEF Queues
    <3>4. t.budget < MaxDeliveries
      BY <1>3, <2>1, <3>3
    <3>5. PICK e, n : e = t.last /\ n = h[id]
      OBVIOUS
    <3>6. Near(e, id, n, A)
      BY <3>2, <3>4, <3>5 DEF Queues
    <3>7. e \in Schedules /\ n + 1 + Ahead(e, id) <= NumSchedules - 1
      BY <1>1, <3>6 DEF Near, Active
    <3>8. Ahead(e, id) \in Nat
      <4>1. e \in Nat /\ e <= NumSchedules /\ id \in Nat /\ id >= 1
        BY <2>1, <3>7 DEF Schedules
      <4> QED BY <2>1, <4>1 DEF Ahead
    <3>9. n \in Nat /\ g[id] = n + 1
      BY <2>1, <3>1, <3>5
    <3>10. g[id] <= NumSchedules - 1 /\ g[id] - 1 = n
      BY <2>1, <3>7, <3>8, <3>9
    <3>11. Near(e, id, g[id] - 1, A)
      BY <3>6, <3>10
    <3> QED BY <3>5, <3>10, <3>11
  <2>3. CASE ~(id \in t.waiting /\ sched[id].status = "active")
    BY <1>8, <2>1, <2>3
  <2> QED BY <2>2, <2>3
<1>12. Fair(v, g, A)
  BY <1>7, <1>11 DEF Fair
<1>13. ASSUME NEW y \in Schedulers PROVE Fair(tick'[y], hungry'[y], Active')
  <2>1. CASE y = x
    BY <1>1, <1>4, <1>9, <1>12, <2>1
  <2>2. CASE y # x
    BY <1>4, <1>9, <2>2, Others
  <2> QED BY <2>1, <2>2
<1> QED BY <1>13 DEF TurnInv

LEMMA CrashFair ==
  ASSUME SchedulerAssumption, SchedulerInv, TurnInv, NEW x \in Schedulers, Crash(x)
  PROVE  TurnInv'
<1>1. /\ sched' = sched /\ tick' = [tick EXCEPT ![x] = Idle(0)]
      /\ hungry' = [hungry EXCEPT ![x] = [id \in Schedules |-> 0]]
  BY DEF Crash
<1>2. /\ tick \in [Schedulers -> TickRecords]
      /\ hungry \in [Schedulers -> [Schedules -> Nat]]
  BY DEF SchedulerInv, SchedulerTypeOK, TicksOK
<1>3. PICK v, h : v = Idle(0) /\ h = [id \in Schedules |-> 0]
  OBVIOUS
<1>4. v.waiting = {}
  <2>1. 0 \in 0..NumSchedules
    BY DEF SchedulerAssumption
  <2> QED BY <1>3, <2>1, IdleIs
<1>5. /\ tick'[x] = v /\ hungry'[x] = h
      /\ \A y \in Schedulers : y # x => tick'[y] = tick[y] /\ hungry'[y] = hungry[y]
  BY <1>1, <1>2, <1>3
<1>6. Active' = Active
  BY <1>1 DEF Active
<1>7. \A A : Fair(v, h, A)
  BY <1>3, <1>4, FairAnew
<1>8. ASSUME NEW y \in Schedulers PROVE Fair(tick'[y], hungry'[y], Active')
  <2>1. CASE y = x
    BY <1>5, <1>6, <1>7, <2>1
  <2>2. CASE y # x
    BY <1>5, <1>6, <2>2, Others
  <2> QED BY <2>1, <2>2
<1> QED BY <1>8 DEF TurnInv

LEMMA LandsFair ==
  ASSUME SchedulerAssumption, SchedulerInv, TurnInv, Lands
  PROVE  TurnInv'
<1>1. PICK id : id = host.id
  OBVIOUS
<1>2. /\ id \in Schedules /\ \A i \in Schedules : i # id => sched'[i] = sched[i]
  BY <1>1, LandsIs DEF SchedulerInv, RecordInv
<1>3. IF sched[id].status = "active" /\ sched'[id].status # "active" THEN Reordered
      ELSE UNCHANGED <<tick, hungry>>
  BY <1>1 DEF Lands
<1>4. CASE Reordered
  <2>1. ASSUME NEW y \in Schedulers PROVE Fair(tick'[y], hungry'[y], Active')
    <3>1. tick \in [Schedulers -> TickRecords]
      BY DEF SchedulerInv, SchedulerTypeOK, TicksOK
    <3>2. PICK v, h, A : v = tick'[y] /\ h = hungry'[y] /\ A = Active'
      OBVIOUS
    <3>3. v.waiting = {} /\ h = [i \in Schedules |-> 0]
      BY <1>4, <3>1, <3>2, ReorderedIs
    <3>4. Fair(v, h, A)
      BY <3>3, FairAnew
    <3> QED BY <3>2, <3>4
  <2> QED BY <2>1 DEF TurnInv
<1>5. CASE ~Reordered
  <2>1. UNCHANGED <<tick, hungry>> /\ ~(sched[id].status = "active" /\ sched'[id].status # "active")
    BY <1>3, <1>5
  <2>2. Active \subseteq Active'
    BY <1>2, <2>1 DEF Active
  <2>3. ASSUME NEW y \in Schedulers PROVE Fair(tick'[y], hungry'[y], Active')
    <3>1. tick'[y] = tick[y] /\ hungry'[y] = hungry[y]
      BY <2>1
    <3> QED BY <2>2, <3>1, Others
  <2> QED BY <2>3 DEF TurnInv
<1> QED BY <1>4, <1>5

\* Every step keeps turns fair.
LEMMA TurnStep ==
  ASSUME SchedulerAssumption, SchedulerInv, TurnInv, [Next]_vars
  PROVE  TurnInv'
<1>1. CASE UNCHANGED <<sched, tick, hungry>>
  BY <1>1 DEF TurnInv, Active
<1>2. CASE \E x \in Schedulers : Ticks(x) \/ Crash(x)
  BY <1>2, BeginFair, ListFair, PassesFair, StepsFair, FinishFair, CrashFair DEF Ticks
<1>3. CASE Lands
  BY <1>3, LandsFair
<1>4. [Next]_vars => \/ UNCHANGED <<sched, tick, hungry>>
                     \/ \E x \in Schedulers : Ticks(x) \/ Crash(x)
                     \/ Lands
  BY DEF Next, Put, Pause, Resume, Cancel, Intends, Apply, PruneInbox, Tick, vars
<1> QED BY <1>1, <1>2, <1>3, <1>4

\* Turns are fair at first.
LEMMA TurnInit ==
  ASSUME SchedulerAssumption, Init
  PROVE  TurnInv
<1>1. PICK S \in SUBSET Schedulers :
        tick = [x \in Schedulers |-> IF x \in S THEN Idle(0) ELSE NotRunning]
  BY DEF Init
<1>2. hungry = [x \in Schedulers |-> [id \in Schedules |-> 0]]
  BY DEF Init
<1> SUFFICES ASSUME NEW x \in Schedulers PROVE Fair(tick[x], hungry[x], Active)
  BY DEF TurnInv
<1>3. PICK t, h, A : t = tick[x] /\ h = hungry[x] /\ A = Active
  OBVIOUS
<1>4. t.waiting = {}
  <2> DEFINE v == Idle(0)
  <2>1. 0 \in 0..NumSchedules
    BY DEF SchedulerAssumption
  <2>2. v.waiting = {} /\ v \in TickRecords
    BY <2>1, IdleIs
  <2> HIDE DEF v
  <2>3. [v EXCEPT !.pc = "off"].waiting = {}
    BY <2>2 DEF TickRecords
  <2> QED BY <1>1, <1>3, <2>2, <2>3 DEF NotRunning, v
<1>5. h = [id \in Schedules |-> 0]
  BY <1>2, <1>3
<1>6. Fair(t, h, A)
  BY <1>4, <1>5, FairAnew
<1> QED BY <1>3, <1>6

\* However the other schedules are behind: a schedule that is due has its turn
\* within as many ticks as there are schedules, while none stops being active
\* (scheduler.ts:256-257).
THEOREM FairTurns == Spec => []TurnsAreFair
<1>1. Init => SchedulerInv /\ TurnInv
  BY SchedulerAssumption, SchedulerInit, TurnInit
<1>2. SchedulerInv /\ TurnInv /\ [Next]_vars => SchedulerInv' /\ TurnInv'
  BY SchedulerAssumption, SchedulerStep, TurnStep
<1>3. SchedulerInv /\ TurnInv => TurnsAreFair
  <2> SUFFICES ASSUME SchedulerInv, TurnInv, NEW x \in Schedulers, NEW id \in Schedules
               PROVE  hungry[x][id] < NumSchedules
    BY DEF TurnsAreFair
  <2>1. hungry[x][id] \in Nat /\ hungry[x][id] <= NumSchedules - 1
    BY DEF SchedulerInv, SchedulerTypeOK, TicksOK, TurnInv, Fair
  <2>2. NumSchedules \in Nat
    BY SchedulerAssumption DEF SchedulerAssumption
  <2> QED BY <2>1, <2>2
<1> QED BY <1>1, <1>2, <1>3, PTL DEF Spec

=============================================================================
