------------------------ MODULE GoalSupervisorProofs ------------------------
(***************************************************************************)
(* Proofs about GoalSupervisor, for any supervisors, runs, events, faults  *)
(* and bounds: the goal its host sees behaves as GoalContract says, and a  *)
(* run on its way is always named by an open intent.                       *)
(*                                                                         *)
(* A drive writes what it decided on what it read before.  The invariant   *)
(* says of every drive what still holds of what it read: without           *)
(* conditions, what never changes back; as long as nothing was written     *)
(* since, what its next checked write relies on.                           *)
(***************************************************************************)
EXTENDS GoalSupervisor, FiniteSetTheorems, SequenceTheorems, WellFoundedInduction, TLAPS

GoalStatuses == {"active", "waiting", "completed", "failed", "cancelled"}
Goals ==
  {g \in [status : GoalStatuses, waiting : {"none", "user", "event"}, waits : Nat,
          accepted : BOOLEAN, run : Nat, spent : Nat] :
     g.waiting = "none" <=> g.status # "waiting"}
States ==
  [phase : {"idle", "dispatching", "running", "draining", "retrying", "done"},
   runs : 0..MaxRuns, retries : Nat, cancel : {"none", "asked", "applied"}, active : Nat]
Intents ==
  [kind : {"start", "retry", "resume", "none"}, run : Runs,
   status : OpenStatuses \cup {"closed"}, token : Nat]
Dispositions == {"applied", "unmatched", "stale", "terminal"}
Deliveries == [as : Dispositions \cup {"none", "pending"}, dated : Nat]

StepPlans ==
  {"cancel", "time", "settle", "ended", "link", "retry", "resume", "auto", "supersede"}
HoldPlans == {"cancel", "ended", "stray", "launch"}
LegPlans ==
  {"cancel", "ended", "elsewhere", "retrying", "drained", "verdict", "stopped", "done",
   "suspended"}
Ways ==
  {"completed", "suspended", "failed", "stopped", "threw", "drained", "cancelled", "elsewhere"}
ReadPcs == {"reading", "weighing"}
HoldPcs == {"claiming", "held"}
LegPcs ==
  {"saved", "running", "charging", "marking", "advancing", "settling", "weighing", "noting",
   "settled"}
PlannedPcs == HoldPcs \cup {"writing", "saved", "noting", "settled"}
Pcs == {"idle", "top", "reading", "writing", "ending"} \cup HoldPcs \cup LegPcs
Plans == StepPlans \cup HoldPlans \cup LegPlans \cup {"none"}
SomeGoal == Goals \cup {NoGoal}
SomeIntent == Intents \cup {NoIntent}
SomeEntry == Entries \cup {0}
Answers == Dispositions \cup {"none"}
Legs == Ways \cup {"none"}
Judgements == Verdicts \cup {"unasked"}
Drives ==
  [pc : Pcs, token : Nat, lost : BOOLEAN,
   seen : SomeGoal, goalFresh : BOOLEAN, rtFresh : BOOLEAN,
   plan : Plans, at : Nat, copy : SomeIntent, next : SomeGoal, last : BOOLEAN,
   copyFresh : BOOLEAN, entry : SomeEntry, as : Answers,
   starts : BOOLEAN, leg : Legs, verdict : Judgements,
   totals : Nat, markFresh : BOOLEAN,
   tries : Nat, past : BOOLEAN, gaveUp : BOOLEAN]

RecordsOK ==
  /\ goal \in Goals /\ rt \in States /\ intents \in Seq(Intents)
  /\ inbox \in [Entries -> Deliveries] /\ mark \in [Runs -> Nat] /\ ledger \in [Runs -> Nat]
  /\ drive \in [Supervisors -> Drives] /\ lease.token \in Nat

-----------------------------------------------------------------------------
(* What stands of a drive y, whatever the records are: the goal g, its     *)
(* runtime state r, the intents I, the watermarks m and the ledgers l.     *)

OpenIn(I, i) == i \in DOMAIN I /\ I[i].status \in OpenStatuses

\* An open intent names the active run, or the goal is over or about to be.
Named(g, r, I) == OpenIn(I, r.active) \/ r.cancel # "none" \/ Terminal(g)

\* What a drive does, by where it is.
PlanFits(y) ==
  /\ y.pc \in {"claiming", "held"} => y.plan \in HoldPlans
  /\ y.pc = "writing" => y.plan \in StepPlans
  /\ y.pc = "saved" => y.plan = "launch"
  /\ y.pc = "noting" => y.plan = "drained"
  /\ y.pc = "settled" => y.plan \in LegPlans
  /\ y.pc \notin PlannedPcs => y.plan = "none"
  /\ y.pc \in LegPcs \ {"saved", "running"} => y.leg # "none"
  /\ y.pc \in ReadPcs => y.seen # NoGoal
  /\ y.starts => y.plan = "settle" /\ y.as # "terminal"
  /\ y.as # "none" <=> y.plan = "settle"
  /\ y.plan = "settle" => y.entry \in Entries /\ (y.as = "applied" <=> y.next # NoGoal)

\* The intent a drive is about is there, and is as it was copied.
AtFits(y, r, I) ==
  /\ y.at # 0 => y.at \in DOMAIN I
  /\ y.pc \in HoldPcs \cup LegPcs => y.at # 0
  /\ y.pc \in HoldPcs \cup {"noting", "settled"} =>
       y.copy # NoIntent /\ y.copy.status \in OpenStatuses
  /\ y.plan = "supersede" => y.copy # NoIntent
  /\ y.plan = "stray" => y.at # 0 /\ r.active # y.at
  /\ y.copy # NoIntent => y.copy.run <= r.runs
  /\ y.plan # "none" /\ y.at # 0 /\ y.copyFresh => y.copy = I[y.at]

\* What a goal may become under a plan.
NextStatuses(plan) ==
  CASE plan = "cancel" -> {"failed", "cancelled"}
    [] plan = "time" -> {"failed"}
    [] plan \in {"settle", "link", "auto"} -> {"active"}
    [] plan = "verdict" -> {"active", "waiting", "failed"}
    [] plan \in {"stopped", "suspended"} -> {"waiting", "failed"}
    [] plan = "done" -> {"completed", "failed"}
    [] OTHER -> {}
Follows(plan, g, next) ==
  /\ ~Terminal(g) /\ next.spent = g.spent
  /\ plan = "settle" => g.status = "waiting"
  /\ plan \in {"link", "auto"} => g.status = "active"
  /\ plan = "verdict" => next.status \in {g.status, "failed"}

GoalFits(y, g) ==
  /\ Terminal(y.seen) => Terminal(g)
  /\ y.pc \in ReadPcs /\ y.goalFresh => y.seen = g
  /\ y.plan = "ended" => Terminal(g)
  /\ y.plan = "cancel" /\ y.next = NoGoal => Terminal(g)
  /\ y.as = "terminal" => Terminal(g)
  /\ y.next # NoGoal => y.next.status \in NextStatuses(y.plan)
  /\ y.next # NoGoal /\ y.goalFresh => Follows(y.plan, g, y.next)

StateFits(y, g, r, I) ==
  /\ y.plan = "cancel" /\ y.pc # "settled" => r.cancel # "none"
  /\ y.rtFresh =>
       /\ y.plan = "cancel" /\ (y.pc # "settled" \/ y.next = NoGoal) => r.cancel = "asked"
       /\ y.starts \/ y.plan = "auto" => r.cancel = "none" /\ r.runs < MaxRuns
       /\ y.plan \in {"retry", "resume"} => r.active # 0
       /\ y.plan = "launch" => r.active = y.at /\ Named(g, r, I)
                                   /\ \A j \in DOMAIN I : OpenIn(I, j) => j = y.at
       /\ y.plan \in {"elsewhere", "drained"} => Named(g, r, I)

ChargeFits(y, I, m, l) ==
  /\ y.pc \in {"marking", "advancing"} => y.totals <= l[I[y.at].run]
  /\ y.pc = "advancing" /\ y.markFresh => m[I[y.at].run] < y.totals

Fits(y, g, r, I, m, l) ==
  /\ PlanFits(y) /\ AtFits(y, r, I) /\ GoalFits(y, g) /\ StateFits(y, g, r, I)
  /\ ChargeFits(y, I, m, l)

-----------------------------------------------------------------------------
\* The records refer to each other.
Refers(g, r, I) ==
  /\ r.cancel = "applied" => Terminal(g)
  /\ r.active # 0 => r.active \in DOMAIN I
  /\ \A i \in DOMAIN I : I[i].run <= r.runs
  /\ r.phase \in {"dispatching", "running", "draining"} => Named(g, r, I)

InLeg(y) == y.pc \in LegPcs
\* The drives with a leg are about one open intent, and then the active run is
\* named.
LegsAgree(d, g, r, I) ==
  \A s, t \in Supervisors :
    InLeg(d[s]) /\ OpenIn(I, d[s].at) =>
      /\ Named(g, r, I)
      /\ InLeg(d[t]) /\ OpenIn(I, d[t].at) => d[t].at = d[s].at

AllFit ==
  /\ Refers(goal, rt, intents) /\ LegsAgree(drive, goal, rt, intents)
  /\ \A s \in Supervisors : Fits(drive[s], goal, rt, intents, mark, ledger)
DriveInv == RecordsOK /\ AllFit

-----------------------------------------------------------------------------
(* Numbers and drives. *)

(* A set of numbers that has one has an oldest one. *)
LEMMA OldestIn ==
  ASSUME NEW S, S \subseteq Nat, S # {}
  PROVE  Oldest(S) \in S /\ \A j \in S : Oldest(S) <= j
<1> DEFINE R == {d \in Nat \X Nat : d[1] < d[2]}
<1>1. IsWellFoundedOn(R, Nat)
  BY NatLessThanWellFounded DEF OpToRel
<1> HIDE DEF R
<1>2. PICK n \in S : \A m \in S : ~(<<m, n>> \in R)
  BY <1>1, WFMin
<1>3. \A m \in S : n <= m
  <2> TAKE m \in S
  <2>1. ~(<<m, n>> \in R) /\ m \in Nat /\ n \in Nat
    BY <1>2
  <2> QED BY <2>1 DEF R
<1>4. \E i \in S : \A j \in S : i <= j
  BY <1>2, <1>3
<1> QED BY <1>4, Zenon DEF Oldest

LEMMA NoRecord ==
  /\ NoGoal \notin Goals /\ ~Terminal(NoGoal) /\ NoIntent \notin Intents
  /\ \A g \in Goals : g # NoGoal
  /\ \A i \in Intents : i # NoIntent
<1>1. NoGoal.status = "none" /\ NoIntent.status = "none"
  BY DEF NoGoal, NoIntent
<1>2. \A g \in Goals : g.status # "none"
  BY DEF Goals, GoalStatuses
<1>3. \A i \in Intents : i.status # "none"
  BY DEF Intents, OpenStatuses
<1> QED BY <1>1, <1>2, <1>3 DEF Terminal

LEMMA IdleDrive ==
  /\ Idle \in Drives /\ Idle.pc = "idle" /\ Idle.seen = NoGoal /\ Idle.plan = "none"
  /\ Idle.at = 0 /\ Idle.copy = NoIntent /\ Idle.next = NoGoal /\ Idle.as = "none"
  /\ Idle.starts = FALSE /\ Idle.leg = "none"
  BY DEF Idle, Drives, Pcs, SomeGoal, SomeIntent, SomeEntry, Plans, Answers, Legs, Judgements

(* A drive that goes on from somewhere else keeps its lease only. *)
LEMMA AtDrive ==
  ASSUME NEW x \in Drives, NEW pc \in Pcs
  PROVE  /\ At(x, pc) \in Drives /\ At(x, pc).pc = pc
         /\ At(x, pc).token = x.token /\ At(x, pc).lost = x.lost
         /\ At(x, pc).seen = NoGoal /\ At(x, pc).plan = "none" /\ At(x, pc).at = 0
         /\ At(x, pc).copy = NoIntent /\ At(x, pc).next = NoGoal /\ At(x, pc).as = "none"
         /\ At(x, pc).starts = FALSE /\ At(x, pc).leg = "none" /\ At(x, pc).totals = 0
         /\ At(x, pc).verdict = "unasked" /\ At(x, pc).entry = 0 /\ At(x, pc).last = FALSE
         /\ At(x, pc).goalFresh = TRUE /\ At(x, pc).rtFresh = TRUE
         /\ At(x, pc).copyFresh = TRUE /\ At(x, pc).markFresh = TRUE
<1> DEFINE token == x.token
           lost == x.lost
           i == Idle
           y == [i EXCEPT !.pc = pc, !.token = token, !.lost = lost]
<1>1. token \in Nat /\ lost \in BOOLEAN
  BY DEF Drives
<1>2. At(x, pc) = y
  BY DEF At
<1> HIDE DEF token, lost
<1>3. /\ i \in Drives
      /\ i.seen = NoGoal /\ i.plan = "none" /\ i.at = 0
      /\ i.copy = NoIntent /\ i.next = NoGoal /\ i.as = "none"
      /\ i.starts = FALSE /\ i.leg = "none" /\ i.totals = 0
      /\ i.verdict = "unasked" /\ i.entry = 0 /\ i.last = FALSE
      /\ i.goalFresh = TRUE /\ i.rtFresh = TRUE /\ i.copyFresh = TRUE /\ i.markFresh = TRUE
  BY IdleDrive DEF Idle
<1> HIDE DEF i
<1>4. y \in Drives
  BY <1>1, <1>3 DEF Drives
<1>5. y.pc = pc /\ y.token = token /\ y.lost = lost
  BY <1>1, <1>3 DEF Drives
<1>6. /\ y.seen = NoGoal /\ y.plan = "none" /\ y.at = 0
      /\ y.copy = NoIntent /\ y.next = NoGoal /\ y.as = "none"
      /\ y.starts = FALSE /\ y.leg = "none" /\ y.totals = 0
  BY <1>1, <1>3 DEF Drives
<1>7. /\ y.verdict = "unasked" /\ y.entry = 0 /\ y.last = FALSE
      /\ y.goalFresh = TRUE /\ y.rtFresh = TRUE /\ y.copyFresh = TRUE /\ y.markFresh = TRUE
  BY <1>1, <1>3 DEF Drives
<1> HIDE DEF y
<1> QED BY <1>2, <1>4, <1>5, <1>6, <1>7 DEF token, lost

(* A drive about to read or to end relies on nothing. *)
LEMMA RestFits ==
  ASSUME NEW x \in Drives, NEW pc \in {"top", "ending"},
         NEW g, NEW r, NEW I, NEW m, NEW l
  PROVE  At(x, pc) \in Drives /\ Fits(At(x, pc), g, r, I, m, l) /\ ~InLeg(At(x, pc))
<1> DEFINE y == At(x, pc)
<1>0. pc \in Pcs
  BY DEF Pcs
<1>1. /\ y \in Drives /\ y.pc = pc /\ y.seen = NoGoal /\ y.plan = "none" /\ y.at = 0
      /\ y.copy = NoIntent /\ y.next = NoGoal /\ y.as = "none" /\ y.starts = FALSE
  BY <1>0, AtDrive
<1> HIDE DEF y
<1>2. PlanFits(y)
  BY <1>1 DEF PlanFits, HoldPcs, LegPcs, PlannedPcs, ReadPcs
<1>3. AtFits(y, r, I)
  BY <1>1 DEF AtFits, HoldPcs, LegPcs
<1>4. GoalFits(y, g)
  BY <1>1, NoRecord DEF GoalFits, ReadPcs
<1>5. StateFits(y, g, r, I) /\ ChargeFits(y, I, m, l) /\ ~InLeg(y)
  BY <1>1 DEF StateFits, ChargeFits, InLeg, LegPcs
<1> QED BY <1>1, <1>2, <1>3, <1>4, <1>5 DEF Fits, y

LEMMA IdleFits ==
  ASSUME NEW g, NEW r, NEW I, NEW m, NEW l
  PROVE  Fits(Idle, g, r, I, m, l) /\ ~InLeg(Idle)
<1> DEFINE y == Idle
<1>1. /\ y \in Drives /\ y.pc = "idle" /\ y.seen = NoGoal /\ y.plan = "none" /\ y.at = 0
      /\ y.copy = NoIntent /\ y.next = NoGoal /\ y.as = "none" /\ y.starts = FALSE
  BY IdleDrive
<1> HIDE DEF y
<1>2. PlanFits(y)
  BY <1>1 DEF PlanFits, HoldPcs, LegPcs, PlannedPcs, ReadPcs
<1>3. AtFits(y, r, I)
  BY <1>1 DEF AtFits, HoldPcs, LegPcs
<1>4. GoalFits(y, g)
  BY <1>1, NoRecord DEF GoalFits, ReadPcs
<1>5. StateFits(y, g, r, I) /\ ChargeFits(y, I, m, l) /\ ~InLeg(y)
  BY <1>1 DEF StateFits, ChargeFits, InLeg, LegPcs
<1> QED BY <1>1, <1>2, <1>3, <1>4, <1>5 DEF Fits, y

-----------------------------------------------------------------------------
(* What a write leaves standing of the other drives. *)

\* What y is after a write, but for what it read that is stale now.
Keeps(z, y) ==
  /\ z \in Drives /\ z.pc = y.pc /\ z.token = y.token /\ z.lost = y.lost
  /\ z.seen = y.seen /\ z.plan = y.plan /\ z.at = y.at /\ z.copy = y.copy
  /\ z.next = y.next /\ z.last = y.last /\ z.entry = y.entry /\ z.as = y.as
  /\ z.starts = y.starts /\ z.leg = y.leg /\ z.verdict = y.verdict /\ z.totals = y.totals
  /\ z.rtFresh => y.rtFresh
  /\ z.goalFresh => y.goalFresh
  /\ z.markFresh => y.markFresh
  /\ z.copyFresh => y.copyFresh
Stales(z, y, written, i) ==
  /\ "rt" \in written /\ y.plan # "none" => ~z.rtFresh
  /\ "goal" \in written /\ (y.seen # NoGoal \/ y.next # NoGoal) => ~z.goalFresh
  /\ "mark" \in written /\ y.pc = "advancing" => ~z.markFresh
  /\ i # 0 /\ y.plan # "none" /\ y.at = i => ~z.copyFresh

LEMMA OvertakesKeeps ==
  ASSUME NEW y \in Drives, NEW written, NEW i
  PROVE  Keeps(Overtakes(written, i, y), y) /\ Stales(Overtakes(written, i, y), y, written, i)
<1> DEFINE b1 == y.rtFresh /\ ~("rt" \in written /\ y.plan # "none")
           b2 == y.goalFresh /\ ~("goal" \in written /\ (y.seen # NoGoal \/ y.next # NoGoal \/ y.pc = "advancing"))
           b3 == y.markFresh /\ ~("mark" \in written /\ y.pc = "advancing")
           b4 == y.copyFresh /\ ~(i # 0 /\ y.plan # "none" /\ y.at = i)
           z == [y EXCEPT !.rtFresh = b1, !.goalFresh = b2, !.markFresh = b3, !.copyFresh = b4]
<1>1. Overtakes(written, i, y) = z
  BY DEF Overtakes
<1>2. b1 \in BOOLEAN /\ b2 \in BOOLEAN /\ b3 \in BOOLEAN /\ b4 \in BOOLEAN
  OBVIOUS
<1>3. z.rtFresh = b1 /\ z.goalFresh = b2 /\ z.markFresh = b3 /\ z.copyFresh = b4
  <2> HIDE DEF b1, b2, b3, b4
  <2> QED BY <1>2 DEF Drives
<1> HIDE DEF b1, b2, b3, b4
<1>4. z \in Drives
  BY <1>2 DEF Drives
<1>5. z.pc = y.pc /\ z.token = y.token /\ z.lost = y.lost /\ z.seen = y.seen /\ z.plan = y.plan
  BY <1>2 DEF Drives
<1>6. z.at = y.at /\ z.copy = y.copy /\ z.next = y.next /\ z.last = y.last /\ z.entry = y.entry
  BY <1>2 DEF Drives
<1>7. /\ z.as = y.as /\ z.starts = y.starts /\ z.leg = y.leg /\ z.verdict = y.verdict
      /\ z.totals = y.totals
  BY <1>2 DEF Drives
<1> HIDE DEF z
<1> QED BY <1>1, <1>3, <1>4, <1>5, <1>6, <1>7 DEF Keeps, Stales, b1, b2, b3, b4

\* What any write does to the records: g, r, I, m, l become h, q, J, n, k.
Moves(written, i, g, h, r, q, I, J, m, n, l, k) ==
  /\ "rt" \notin written =>
       /\ q = r /\ (Named(g, r, I) => Named(h, q, J))
       /\ \A j \in DOMAIN J : OpenIn(J, j) => OpenIn(I, j)
  /\ "goal" \notin written => h = g
  /\ "mark" \notin written => n = m
  /\ Terminal(g) => Terminal(h)
  /\ r.runs \in Nat /\ q.runs \in Nat /\ r.runs <= q.runs
  /\ r.cancel # "none" => q.cancel # "none"
  /\ DOMAIN I \subseteq DOMAIN J
  /\ i # 0 => i \in DOMAIN I /\ J[i].run = I[i].run /\ I[i].run \in Runs
  /\ m \in [Runs -> Nat] /\ n \in [Runs -> Nat] /\ l \in [Runs -> Nat] /\ k \in [Runs -> Nat]
  /\ \A x \in Runs : l[x] <= k[x]

\* An intent a drive is about changes only when the write is about it, and does
\* not become the active one.
Spares(y, i, r, q, I, J) ==
  y.at # 0 =>
    /\ q.active = y.at => r.active = y.at
    /\ y.at # i => J[y.at] = I[y.at] /\ I[y.at].run \in Runs

LEMMA OthersFit ==
  ASSUME NEW y \in Drives, NEW z, NEW written, NEW i,
         NEW g, NEW h, NEW r, NEW q, NEW I, NEW J, NEW m, NEW n, NEW l, NEW k,
         Fits(y, g, r, I, m, l), Keeps(z, y), Stales(z, y, written, i),
         Moves(written, i, g, h, r, q, I, J, m, n, l, k), Spares(y, i, r, q, I, J)
  PROVE  Fits(z, h, q, J, n, k)
<1> USE DEF Keeps
<1>1. PlanFits(z)
  BY DEF Fits, PlanFits
<1>2. y.at # 0 => J[y.at].run = I[y.at].run /\ I[y.at].run \in Runs
  BY DEF Moves, Spares
<1>3. AtFits(z, q, J)
  <2>1. z.at # 0 => z.at \in DOMAIN J
    BY DEF Fits, AtFits, Moves
  <2>2. /\ z.pc \in HoldPcs \cup LegPcs => z.at # 0
        /\ z.pc \in HoldPcs \cup {"noting", "settled"} =>
             z.copy # NoIntent /\ z.copy.status \in OpenStatuses
        /\ z.plan = "supersede" => z.copy # NoIntent
    BY DEF Fits, AtFits
  <2>5. z.plan = "stray" => z.at # 0 /\ q.active # z.at
    BY DEF Fits, AtFits, Spares
  <2>3. z.copy # NoIntent => z.copy.run <= q.runs
    <3>1. z.copy # NoIntent => z.copy.run \in Nat
      BY DEF Drives, SomeIntent, Intents, Runs
    <3> QED BY <3>1 DEF Fits, AtFits, Moves
  <2>4. z.plan # "none" /\ z.at # 0 /\ z.copyFresh => z.copy = J[z.at]
    BY DEF Fits, AtFits, Stales, Spares
  <2> QED BY <2>1, <2>2, <2>3, <2>4, <2>5 DEF AtFits
<1>4. GoalFits(z, h)
  <2>1. Terminal(g) => Terminal(h)
    BY DEF Moves
  <2>2. /\ Terminal(z.seen) => Terminal(h)
        /\ z.plan = "ended" => Terminal(h)
        /\ z.plan = "cancel" /\ z.next = NoGoal => Terminal(h)
        /\ z.as = "terminal" => Terminal(h)
        /\ z.next # NoGoal => z.next.status \in NextStatuses(z.plan)
    BY <2>1 DEF Fits, GoalFits
  <2>3. z.goalFresh /\ (z.seen # NoGoal \/ z.next # NoGoal) => h = g /\ y.goalFresh
    BY DEF Stales, Moves
  <2>4. z.pc \in ReadPcs => z.seen # NoGoal
    BY DEF Fits, PlanFits
  <2>5. z.pc \in ReadPcs /\ z.goalFresh => z.seen = h
    BY <2>3, <2>4 DEF Fits, GoalFits
  <2>6. z.next # NoGoal /\ z.goalFresh => Follows(z.plan, h, z.next)
    BY <2>3 DEF Fits, GoalFits
  <2> QED BY <2>2, <2>5, <2>6 DEF GoalFits
<1>5. StateFits(z, h, q, J)
  <2>1. z.plan = "cancel" /\ z.pc # "settled" => q.cancel # "none"
    BY DEF Fits, StateFits, Moves
  <2>2. CASE z.rtFresh /\ z.plan # "none"
    <3>1. /\ y.rtFresh /\ q = r /\ (Named(g, r, I) => Named(h, q, J))
          /\ \A j \in DOMAIN J : OpenIn(J, j) => OpenIn(I, j)
      BY <2>2 DEF Stales, Moves
    <3>2. \A j : OpenIn(I, j) => j \in DOMAIN I
      BY DEF OpenIn
    <3> QED BY <2>1, <2>2, <3>1, <3>2 DEF Fits, StateFits
  <2>3. CASE z.plan = "none"
    <3>1. ~z.starts
      BY <2>3 DEF Fits, PlanFits
    <3> QED BY <2>3, <3>1 DEF StateFits
  <2>4. CASE ~z.rtFresh
    BY <2>1, <2>4 DEF StateFits
  <2> QED BY <2>2, <2>3, <2>4
<1>6. ChargeFits(z, J, n, k)
  <2> SUFFICES ASSUME z.pc \in {"marking", "advancing"}
               PROVE  /\ z.totals <= k[J[z.at].run]
                      /\ z.pc = "advancing" /\ z.markFresh => n[J[z.at].run] < z.totals
    BY DEF ChargeFits
  <2>1. z.at # 0
    BY DEF Fits, AtFits, LegPcs
  <2>2. J[z.at].run = I[z.at].run /\ I[z.at].run \in Runs
    BY <1>2, <2>1
  <2> DEFINE x == I[z.at].run
  <2>3. z.totals <= l[x] /\ (z.pc = "advancing" /\ y.markFresh => m[x] < z.totals)
    BY DEF Fits, ChargeFits
  <2>4. l[x] <= k[x] /\ l[x] \in Nat /\ k[x] \in Nat /\ z.totals \in Nat
    BY <2>2 DEF Moves, Drives
  <2>5. z.pc = "advancing" /\ z.markFresh => n = m
    BY DEF Stales, Moves
  <2> HIDE DEF x
  <2>6. z.totals <= k[x] /\ (z.pc = "advancing" /\ z.markFresh => n[x] < z.totals)
    BY <2>3, <2>4, <2>5
  <2> QED BY <2>2, <2>6 DEF x
<1> QED BY <1>1, <1>3, <1>4, <1>5, <1>6 DEF Fits

-----------------------------------------------------------------------------
(* From what a step does to one drive and to the records, the invariant.   *)

LEMMA LegsKeep ==
  ASSUME NEW d, NEW e, NEW g, NEW h, NEW r, NEW q, NEW I, NEW J,
         LegsAgree(d, g, r, I),
         \A t \in Supervisors : InLeg(e[t]) => InLeg(d[t]) /\ e[t].at = d[t].at,
         \A t \in Supervisors : InLeg(d[t]) /\ OpenIn(J, d[t].at) => OpenIn(I, d[t].at),
         Named(g, r, I) => Named(h, q, J)
  PROVE  LegsAgree(e, h, q, J)
  BY DEF LegsAgree

LEMMA LegsOver ==
  ASSUME NEW e, NEW h, NEW q, NEW J,
         \A t \in Supervisors : InLeg(e[t]) => ~OpenIn(J, e[t].at)
  PROVE  LegsAgree(e, h, q, J)
  BY DEF LegsAgree

(* A step of one drive that writes nothing. *)
LEMMA GoFits ==
  ASSUME DriveInv, NEW s \in Supervisors, NEW y \in Drives, Go(s, y),
         UNCHANGED <<store, ledger>>, lease.token' \in Nat,
         Fits(y, goal, rt, intents, mark, ledger),
         InLeg(y) => InLeg(drive[s]) /\ y.at = drive[s].at
  PROVE  DriveInv'
<1>1. /\ goal' = goal /\ rt' = rt /\ intents' = intents /\ inbox' = inbox /\ mark' = mark
      /\ ledger' = ledger
  BY DEF store
<1>2. /\ drive' \in [Supervisors -> Drives] /\ drive'[s] = y
      /\ \A t \in Supervisors : t # s => drive'[t] = drive[t]
  BY DEF DriveInv, RecordsOK, Go
<1>3. RecordsOK'
  BY <1>1, <1>2 DEF DriveInv, RecordsOK
<1>4. \A t \in Supervisors : Fits(drive'[t], goal', rt', intents', mark', ledger')
  BY <1>1, <1>2 DEF DriveInv, AllFit
<1>5. LegsAgree(drive', goal', rt', intents')
  <2>1. \A t \in Supervisors : InLeg(drive'[t]) => InLeg(drive[t]) /\ drive'[t].at = drive[t].at
    BY <1>2
  <2>2. LegsAgree(drive, goal, rt, intents)
    BY DEF DriveInv, AllFit
  <2> QED BY <1>1, <2>1, <2>2, LegsKeep
<1>6. Refers(goal', rt', intents')
  BY <1>1 DEF DriveInv, AllFit
<1> QED BY <1>3, <1>4, <1>5, <1>6 DEF DriveInv, AllFit

\* The others keep what they were at, and y is what the drive of s is.
Writes(s, y, written, i) ==
  /\ drive' = [Overtaken(written, i) EXCEPT ![s] = y]
  /\ Moves(written, i, goal, goal', rt, rt', intents, intents', mark, mark', ledger, ledger')
  /\ \A t \in Supervisors : t # s => Spares(drive[t], i, rt, rt', intents, intents')

LEMMA WriteKeeps ==
  ASSUME DriveInv, NEW s \in Supervisors, NEW y \in Drives, NEW written, NEW i,
         Writes(s, y, written, i), Fits(y, goal', rt', intents', mark', ledger')
  PROVE  /\ drive' \in [Supervisors -> Drives] /\ drive'[s] = y
         /\ \A t \in Supervisors : t # s => Keeps(drive'[t], drive[t])
         /\ \A t \in Supervisors : Fits(drive'[t], goal', rt', intents', mark', ledger')
<1>1. \A t \in Supervisors : drive[t] \in Drives /\ Fits(drive[t], goal, rt, intents, mark, ledger)
  BY DEF DriveInv, RecordsOK, AllFit
<1>2. drive'[s] = y /\ \A t \in Supervisors : t # s => drive'[t] = Overtakes(written, i, drive[t])
  BY DEF Writes, Overtaken
<1>3. \A t \in Supervisors : t # s =>
        Keeps(drive'[t], drive[t]) /\ Stales(drive'[t], drive[t], written, i)
  BY <1>1, <1>2, OvertakesKeeps
<1>4. \A t \in Supervisors : t # s => drive'[t] \in Drives
  BY <1>3 DEF Keeps
<1>5. drive' \in [Supervisors -> Drives]
  BY <1>2, <1>4 DEF Writes, Overtaken
<1>6. \A t \in Supervisors : t # s => Fits(drive'[t], goal', rt', intents', mark', ledger')
  <2> TAKE t \in Supervisors
  <2> HAVE t # s
  <2>1. drive[t] \in Drives /\ Fits(drive[t], goal, rt, intents, mark, ledger)
    BY <1>1
  <2>2. Keeps(drive'[t], drive[t]) /\ Stales(drive'[t], drive[t], written, i)
    BY <1>3
  <2>3. /\ Moves(written, i, goal, goal', rt, rt', intents, intents', mark, mark', ledger, ledger')
        /\ Spares(drive[t], i, rt, rt', intents, intents')
    BY DEF Writes
  <2> QED BY <2>1, <2>2, <2>3, OthersFit
<1> QED BY <1>2, <1>3, <1>5, <1>6

-----------------------------------------------------------------------------
(* The intents. *)

LEMMA IntentsDomain ==
  ASSUME RecordsOK
  PROVE  /\ Len(intents) \in Nat /\ DOMAIN intents = 1..Len(intents)
         /\ DOMAIN intents \subseteq Nat /\ 0 \notin DOMAIN intents
         /\ \A i \in DOMAIN intents : intents[i] \in Intents
<1>1. intents \in Seq(Intents)
  BY DEF RecordsOK
<1>2. /\ Len(intents) \in Nat /\ DOMAIN intents = 1..Len(intents)
      /\ intents \in [1..Len(intents) -> Intents]
  BY <1>1, LenProperties
<1> QED BY <1>2

(* The intent a drive is about. *)
LEMMA IntentAt ==
  ASSUME DriveInv, NEW t \in Supervisors, drive[t].at # 0
  PROVE  /\ drive[t].at \in DOMAIN intents /\ intents[drive[t].at] \in Intents
         /\ intents[drive[t].at].run \in Runs
<1>1. drive[t].at \in DOMAIN intents
  BY DEF DriveInv, AllFit, Fits, AtFits
<1>2. intents[drive[t].at] \in Intents
  BY <1>1, IntentsDomain DEF DriveInv
<1> QED BY <1>1, <1>2 DEF Intents

LEMMA FinishedIntent ==
  ASSUME NEW x \in Intents
  PROVE  /\ Finished(x) \in Intents /\ Finished(x).run = x.run /\ Finished(x).status = "closed"
         /\ Finished(x).status \notin OpenStatuses
<1>1. Finished(x) \in Intents /\ Finished(x).run = x.run /\ Finished(x).status = "closed"
  BY DEF Finished, Intents
<1> QED BY <1>1 DEF OpenStatuses

(* One intent changes. *)
LEMMA OneChanges ==
  ASSUME RecordsOK, NEW i \in DOMAIN intents, NEW record \in Intents,
         intents' = [intents EXCEPT ![i] = record]
  PROVE  /\ intents' \in Seq(Intents) /\ DOMAIN intents' = DOMAIN intents
         /\ intents'[i] = record
         /\ \A j \in DOMAIN intents : j # i => intents'[j] = intents[j]
<1>1. intents \in Seq(Intents) /\ i \in 1..Len(intents)
  BY IntentsDomain DEF RecordsOK
<1>2. [intents EXCEPT ![i] = record] \in Seq(Intents)
  BY <1>1, ExceptSeq
<1> QED BY <1>2

(* Nothing happens to the intents, or one of them closes. *)
ClosesOne(i) ==
  i \in DOMAIN intents /\ intents' = [intents EXCEPT ![i] = Finished(intents[i])]

LEMMA ClosesOneFacts ==
  ASSUME RecordsOK, NEW i, ClosesOne(i)
  PROVE  /\ i # 0 /\ i \in Nat /\ intents' \in Seq(Intents) /\ DOMAIN intents' = DOMAIN intents
         /\ ~OpenIn(intents', i)
         /\ \A j \in DOMAIN intents :
              /\ intents'[j].run = intents[j].run
              /\ j # i => intents'[j] = intents[j]
              /\ OpenIn(intents', j) => OpenIn(intents, j) /\ j # i
<1>1. i \in DOMAIN intents /\ intents[i] \in Intents /\ i # 0 /\ i \in Nat
  BY IntentsDomain DEF ClosesOne
<1> DEFINE record == Finished(intents[i])
<1>2. record \in Intents /\ record.run = intents[i].run /\ record.status \notin OpenStatuses
  BY <1>1, FinishedIntent
<1>3. intents' = [intents EXCEPT ![i] = record]
  BY DEF ClosesOne
<1> HIDE DEF record
<1>4. /\ intents' \in Seq(Intents) /\ DOMAIN intents' = DOMAIN intents
      /\ intents'[i] = record
      /\ \A j \in DOMAIN intents : j # i => intents'[j] = intents[j]
  BY <1>1, <1>2, <1>3, OneChanges
<1> QED BY <1>1, <1>2, <1>4 DEF OpenIn

-----------------------------------------------------------------------------
(* Checked writes. *)

(* The goal a checked write saves. *)
LEMMA NextGoal ==
  ASSUME DriveInv, NEW s \in Supervisors,
         drive[s].next # NoGoal => drive[s].goalFresh,
         goal' = IF drive[s].next = NoGoal THEN goal ELSE drive[s].next
  PROVE  /\ goal \in Goals /\ goal' \in Goals /\ goal'.spent = goal.spent
         /\ Terminal(goal) => Terminal(goal')
         /\ drive[s].next = NoGoal => goal' = goal
         /\ drive[s].next # NoGoal =>
              /\ goal' = drive[s].next /\ Follows(drive[s].plan, goal, goal')
              /\ goal'.status \in NextStatuses(drive[s].plan)
<1>1. goal \in Goals /\ drive[s] \in Drives /\ GoalFits(drive[s], goal)
  BY DEF DriveInv, RecordsOK, AllFit, Fits
<1>2. drive[s].next # NoGoal => drive[s].next \in Goals
  BY <1>1 DEF Drives, SomeGoal
<1>3. drive[s].next # NoGoal => Follows(drive[s].plan, goal, drive[s].next)
  BY <1>1 DEF GoalFits
<1> QED BY <1>1, <1>2, <1>3 DEF GoalFits, Follows

\* What a write may make of the runtime state.
StateMoves(r, q) ==
  /\ q \in States /\ r.runs <= q.runs
  /\ r.cancel # "none" => q.cancel # "none"

LEMMA SaveMoves ==
  ASSUME DriveInv, NEW next, NEW i,
         StateMoves(rt, rt'), rt'.active \in {0, rt.active},
         goal' = IF next = NoGoal THEN goal ELSE next,
         Terminal(goal) => Terminal(goal'),
         mark' = mark, ledger' = ledger,
         intents' = intents \/ ClosesOne(i), i # 0 => i \in DOMAIN intents
  PROVE  /\ Moves({"rt"} \cup GoalWrite(next), i, goal, goal', rt, rt', intents, intents',
                  mark, mark', ledger, ledger')
         /\ \A t \in Supervisors : Spares(drive[t], i, rt, rt', intents, intents')
<1>1. rt.runs \in Nat /\ rt'.runs \in Nat
  BY DEF DriveInv, RecordsOK, States, StateMoves
<1>2. \A j \in DOMAIN intents :
        intents'[j].run = intents[j].run /\ (j # i => intents'[j] = intents[j])
  BY ClosesOneFacts DEF DriveInv
<1>3. DOMAIN intents' = DOMAIN intents
  BY ClosesOneFacts DEF DriveInv
<1>4. \A t \in Supervisors : Spares(drive[t], i, rt, rt', intents, intents')
  <2> TAKE t \in Supervisors
  <2>1. CASE drive[t].at = 0
    BY <2>1 DEF Spares
  <2>2. CASE drive[t].at # 0
    <3>1. drive[t].at \in DOMAIN intents /\ intents[drive[t].at].run \in Runs
      BY <2>2, IntentAt
    <3> QED BY <1>2, <3>1 DEF Spares
  <2> QED BY <2>1, <2>2
<1>5. i # 0 => i \in DOMAIN intents /\ intents'[i].run = intents[i].run /\ intents[i].run \in Runs
  <2>1. i # 0 => intents[i] \in Intents
    BY IntentsDomain DEF DriveInv
  <2>2. i # 0 => intents[i].run \in Runs
    BY <2>1 DEF Intents
  <2> QED BY <1>2, <2>2
<1>6. "goal" \notin {"rt"} \cup GoalWrite(next) => goal' = goal
  BY DEF GoalWrite
<1>7. mark \in [Runs -> Nat] /\ ledger \in [Runs -> Nat]
  BY DEF DriveInv, RecordsOK
<1>8. \A x \in Runs : ledger[x] <= ledger'[x]
  BY <1>7
<1> QED BY <1>1, <1>3, <1>4, <1>5, <1>6, <1>7, <1>8 DEF Moves, StateMoves

(* A checked write of the runtime state, with the goal, that closes an     *)
(* intent or none.                                                         *)
LEMMA SaveFits ==
  ASSUME DriveInv, NEW s \in Supervisors, NEW i, NEW state, NEW y \in Drives,
         SaveWith(s, i, state, y), UNCHANGED <<inbox, mark, ledger>>, lease.token' \in Nat,
         intents' = intents \/ ClosesOne(i), i # 0 => i \in DOMAIN intents,
         drive[s].next # NoGoal => drive[s].goalFresh,
         StateMoves(rt, state), state.runs = rt.runs, state.active \in {0, rt.active},
         state.cancel = "applied" => rt.cancel = "applied" \/ Terminal(goal'),
         state.phase \in {"dispatching", "running", "draining"} => Named(goal', rt', intents'),
         Fits(y, goal', rt', intents', mark', ledger'),
         \/ \A t \in Supervisors : InLeg(drive[t]) => ~OpenIn(intents', drive[t].at)
         \/ Named(goal, rt, intents) => Named(goal', rt', intents'),
         InLeg(y) => InLeg(drive[s]) /\ y.at = drive[s].at
  PROVE  DriveInv'
<1>1. rt' = state /\ StateMoves(rt, rt') /\ rt'.active \in {0, rt.active}
  BY DEF SaveWith
<1>2. goal' = IF drive[s].next = NoGoal THEN goal ELSE drive[s].next
  BY DEF SaveWith
<1>3. goal' \in Goals /\ (Terminal(goal) => Terminal(goal'))
  BY <1>2, NextGoal
<1>4. mark' = mark /\ ledger' = ledger /\ inbox' = inbox
  OBVIOUS
<1> DEFINE W == {"rt"} \cup GoalWrite(drive[s].next)
<1>5. /\ Moves(W, i, goal, goal', rt, rt', intents, intents', mark, mark', ledger, ledger')
      /\ \A t \in Supervisors : Spares(drive[t], i, rt, rt', intents, intents')
  BY <1>1, <1>2, <1>3, <1>4, SaveMoves
<1>6. Writes(s, y, W, i)
  BY <1>5 DEF Writes, SaveWith
<1> HIDE DEF W
<1>7. /\ drive' \in [Supervisors -> Drives] /\ drive'[s] = y
      /\ \A t \in Supervisors : t # s => Keeps(drive'[t], drive[t])
      /\ \A t \in Supervisors : Fits(drive'[t], goal', rt', intents', mark', ledger')
  BY <1>6, WriteKeeps
<1>8. /\ intents' \in Seq(Intents) /\ DOMAIN intents' = DOMAIN intents
      /\ \A j \in DOMAIN intents : intents'[j].run = intents[j].run
      /\ \A j \in DOMAIN intents : OpenIn(intents', j) => OpenIn(intents, j)
  BY ClosesOneFacts DEF DriveInv, RecordsOK
<1>9. RecordsOK'
  BY <1>1, <1>3, <1>4, <1>7, <1>8 DEF DriveInv, RecordsOK, StateMoves
<1>10. Refers(goal', rt', intents')
  BY <1>1, <1>3, <1>8 DEF DriveInv, AllFit, Refers
<1>11. LegsAgree(drive', goal', rt', intents')
  <2>1. \A t \in Supervisors : InLeg(drive'[t]) => InLeg(drive[t]) /\ drive'[t].at = drive[t].at
    BY <1>7 DEF Keeps, InLeg
  <2>2. \A t \in Supervisors : InLeg(drive[t]) /\ OpenIn(intents', drive[t].at)
                                 => OpenIn(intents, drive[t].at)
    BY <1>8 DEF OpenIn
  <2>3. LegsAgree(drive, goal, rt, intents)
    BY DEF DriveInv, AllFit
  <2>4. CASE \A t \in Supervisors : InLeg(drive[t]) => ~OpenIn(intents', drive[t].at)
    BY <2>1, <2>4, LegsOver
  <2>5. CASE Named(goal, rt, intents) => Named(goal', rt', intents')
    BY <2>1, <2>2, <2>3, <2>5, LegsKeep
  <2> QED BY <2>4, <2>5
<1> QED BY <1>7, <1>9, <1>10, <1>11 DEF DriveInv, AllFit

-----------------------------------------------------------------------------
(* Recorded intents. *)

(* A new intent takes a place nobody is about. *)
LEMMA SlotIsFree ==
  ASSUME DriveInv
  PROVE  /\ Slot \in Nat /\ Slot # 0 /\ Slot # rt.active /\ ~OpenIn(intents, Slot)
         /\ \A t \in Supervisors : drive[t].at # Slot
         /\ \E n \in Nat : DOMAIN intents \cup {Slot} = 1..n
<1> DEFINE free == {i \in DOMAIN intents : ~OpenAt(i) /\ i # rt.active
                                             /\ \A s \in Supervisors : drive[s].at # i}
           n == Len(intents)
<1>1. Slot = IF free = {} THEN n + 1 ELSE Oldest(free)
  BY DEF Slot
<1>2. n \in Nat /\ DOMAIN intents = 1..n
  BY IntentsDomain DEF DriveInv
<1>3. CASE free = {}
  <2>1. Slot = n + 1 /\ Slot \notin DOMAIN intents
    BY <1>1, <1>2, <1>3
  <2>2. Slot \in Nat /\ Slot # 0
    BY <1>2, <2>1
  <2>3. rt.active # 0 => rt.active \in DOMAIN intents
    BY DEF DriveInv, AllFit, Refers
  <2>4. \A t \in Supervisors : drive[t].at # 0 => drive[t].at \in DOMAIN intents
    BY DEF DriveInv, AllFit, Fits, AtFits
  <2>5. DOMAIN intents \cup {Slot} = 1..(n + 1)
    BY <1>2, <2>1
  <2>6. n + 1 \in Nat
    BY <1>2
  <2> QED BY <2>1, <2>2, <2>3, <2>4, <2>5, <2>6 DEF OpenIn
<1>4. CASE free # {}
  <2>1. free \subseteq Nat
    BY <1>2
  <2>2. Slot \in free
    <3> HIDE DEF free
    <3> QED BY <1>1, <1>4, <2>1, OldestIn
  <2>3. /\ Slot \in DOMAIN intents /\ ~OpenAt(Slot) /\ Slot # rt.active
        /\ \A t \in Supervisors : drive[t].at # Slot
    BY <2>2
  <2>4. Slot \in Nat /\ Slot # 0 /\ DOMAIN intents \cup {Slot} = 1..n
    BY <1>2, <2>3
  <2> QED BY <1>2, <2>3, <2>4 DEF OpenAt, OpenIn
<1> QED BY <1>3, <1>4

Kinds == {"start", "retry", "resume", "none"}

LEMMA RecordedIntents ==
  ASSUME DriveInv, NEW kind \in Kinds, NEW run \in Runs, Record(kind, run)
  PROVE  /\ intents' \in Seq(Intents) /\ DOMAIN intents' = DOMAIN intents \cup {Slot}
         /\ OpenIn(intents', Slot) /\ intents'[Slot].run = run
         /\ \A j \in DOMAIN intents : j # Slot => intents'[j] = intents[j]
<1> DEFINE slot == Slot
           new == [kind |-> kind, run |-> run, status |-> "pending", token |-> 0]
<1>1. slot \in Nat /\ \E n \in Nat : DOMAIN intents \cup {slot} = 1..n
  BY SlotIsFree
<1>2. intents' = [i \in DOMAIN intents \cup {slot} |-> IF i = slot THEN new ELSE intents[i]]
  BY DEF Record
<1>3. \A j \in DOMAIN intents : intents[j] \in Intents
  BY IntentsDomain DEF DriveInv
<1>4. new \in Intents /\ new.run = run /\ new.status \in OpenStatuses
  BY DEF Intents, Kinds, OpenStatuses
<1> HIDE DEF slot, new
<1>5. PICK n \in Nat : DOMAIN intents \cup {slot} = 1..n
  BY <1>1
<1>6. intents' \in [1..n -> Intents]
  BY <1>2, <1>3, <1>4, <1>5
<1>7. intents' \in Seq(Intents)
  BY <1>6, SeqDef
<1>8. /\ DOMAIN intents' = DOMAIN intents \cup {slot} /\ intents'[slot] = new
      /\ \A j \in DOMAIN intents : j # slot => intents'[j] = intents[j]
  BY <1>2
<1> QED BY <1>4, <1>7, <1>8 DEF slot, OpenIn

(* A write that records an intent. *)
LEMMA RecordMoves ==
  ASSUME DriveInv, NEW kind \in Kinds, NEW run \in Runs, Record(kind, run), run <= rt'.runs,
         StateMoves(rt, rt'), rt'.active = Slot, rt'.cancel = rt.cancel,
         NEW written, "rt" \in written, "goal" \notin written => goal' = goal,
         Terminal(goal) => Terminal(goal'), mark' = mark, ledger' = ledger
  PROVE  /\ Moves(written, 0, goal, goal', rt, rt', intents, intents', mark, mark', ledger, ledger')
         /\ \A t \in Supervisors : Spares(drive[t], 0, rt, rt', intents, intents')
         /\ Refers(goal', rt', intents') /\ Named(goal', rt', intents')
         /\ \A t \in Supervisors : OpenIn(intents', drive[t].at) => OpenIn(intents, drive[t].at)
<1>1. /\ intents' \in Seq(Intents) /\ DOMAIN intents' = DOMAIN intents \cup {Slot}
      /\ OpenIn(intents', Slot) /\ intents'[Slot].run = run
      /\ \A j \in DOMAIN intents : j # Slot => intents'[j] = intents[j]
  BY RecordedIntents
<1>2. /\ Slot \in Nat /\ Slot # 0 /\ ~OpenIn(intents, Slot)
      /\ \A t \in Supervisors : drive[t].at # Slot
  BY SlotIsFree
<1> DEFINE slot == Slot
<1> HIDE DEF slot
<1>3. \A t \in Supervisors : Spares(drive[t], 0, rt, rt', intents, intents')
  <2> TAKE t \in Supervisors
  <2>1. CASE drive[t].at = 0
    BY <2>1 DEF Spares
  <2>2. CASE drive[t].at # 0
    <3>1. drive[t].at \in DOMAIN intents /\ intents[drive[t].at].run \in Runs
      BY <2>2, IntentAt
    <3> QED BY <1>1, <1>2, <3>1 DEF Spares
  <2> QED BY <2>1, <2>2
<1>4. rt.runs \in Nat /\ rt'.runs \in Nat /\ run \in Nat
  BY DEF DriveInv, RecordsOK, States, StateMoves, Runs
<1>5. mark \in [Runs -> Nat] /\ ledger \in [Runs -> Nat]
  BY DEF DriveInv, RecordsOK
<1>6. \A x \in Runs : ledger[x] <= ledger'[x]
  BY <1>5
<1>7. Moves(written, 0, goal, goal', rt, rt', intents, intents', mark, mark', ledger, ledger')
  BY <1>1, <1>4, <1>5, <1>6 DEF Moves, StateMoves
<1>8. Named(goal', rt', intents')
  BY <1>1 DEF Named
<1>9. \A i \in DOMAIN intents' : intents'[i].run <= rt'.runs
  <2> TAKE i \in DOMAIN intents'
  <2>1. CASE i = Slot
    BY <1>1, <2>1
  <2>2. CASE i # Slot
    <3>1. i \in DOMAIN intents /\ intents'[i] = intents[i]
      BY <1>1, <2>2
    <3>2. intents[i].run <= rt.runs
      BY <3>1 DEF DriveInv, AllFit, Refers
    <3>3. intents[i].run \in Nat
      <4>1. intents[i] \in Intents
        BY <3>1, IntentsDomain DEF DriveInv
      <4> QED BY <4>1 DEF Intents, Runs
    <3> QED BY <1>4, <3>1, <3>2, <3>3 DEF StateMoves
  <2> QED BY <2>1, <2>2
<1>10. Refers(goal', rt', intents')
  BY <1>1, <1>8, <1>9 DEF DriveInv, AllFit, Refers
<1>11. \A t \in Supervisors : OpenIn(intents', drive[t].at) => OpenIn(intents, drive[t].at)
  BY <1>1, <1>2 DEF OpenIn
<1> QED BY <1>3, <1>7, <1>8, <1>10, <1>11

(* A write from outside any drive. *)
LEMMA HostKeeps ==
  ASSUME DriveInv, NEW written, NEW i, drive' = Overtaken(written, i),
         Moves(written, i, goal, goal', rt, rt', intents, intents', mark, mark', ledger, ledger'),
         \A t \in Supervisors : Spares(drive[t], i, rt, rt', intents, intents')
  PROVE  /\ drive' \in [Supervisors -> Drives]
         /\ \A t \in Supervisors : Keeps(drive'[t], drive[t])
         /\ \A t \in Supervisors : Fits(drive'[t], goal', rt', intents', mark', ledger')
<1>1. \A t \in Supervisors : drive[t] \in Drives /\ Fits(drive[t], goal, rt, intents, mark, ledger)
  BY DEF DriveInv, RecordsOK, AllFit
<1>2. \A t \in Supervisors : drive'[t] = Overtakes(written, i, drive[t])
  BY DEF Overtaken
<1>3. \A t \in Supervisors :
        Keeps(drive'[t], drive[t]) /\ Stales(drive'[t], drive[t], written, i)
  BY <1>1, <1>2, OvertakesKeeps
<1>4. drive' \in [Supervisors -> Drives]
  BY <1>3 DEF Keeps, Overtaken
<1>5. \A t \in Supervisors : Fits(drive'[t], goal', rt', intents', mark', ledger')
  <2> TAKE t \in Supervisors
  <2>1. drive[t] \in Drives /\ Fits(drive[t], goal, rt, intents, mark, ledger)
    BY <1>1
  <2>2. Keeps(drive'[t], drive[t]) /\ Stales(drive'[t], drive[t], written, i)
    BY <1>3
  <2>3. Spares(drive[t], i, rt, rt', intents, intents')
    OBVIOUS
  <2> QED BY <2>1, <2>2, <2>3, OthersFit
<1> QED BY <1>3, <1>4, <1>5

(* What remains to be said when every drive is where it was, or at rest. *)
LEMMA StoreFits ==
  ASSUME DriveInv, drive' \in [Supervisors -> Drives],
         \A t \in Supervisors : Fits(drive'[t], goal', rt', intents', mark', ledger'),
         \A t \in Supervisors : InLeg(drive'[t]) => InLeg(drive[t]) /\ drive'[t].at = drive[t].at,
         \A t \in Supervisors : OpenIn(intents', drive[t].at) => OpenIn(intents, drive[t].at),
         Named(goal, rt, intents) => Named(goal', rt', intents'),
         goal' \in Goals, rt' \in States, intents' \in Seq(Intents),
         inbox' \in [Entries -> Deliveries], mark' \in [Runs -> Nat], ledger' \in [Runs -> Nat],
         lease.token' \in Nat, Refers(goal', rt', intents')
  PROVE  DriveInv'
<1>1. LegsAgree(drive, goal, rt, intents)
  BY DEF DriveInv, AllFit
<1>2. LegsAgree(drive', goal', rt', intents')
  BY <1>1, LegsKeep
<1> QED BY <1>2 DEF DriveInv, AllFit, RecordsOK

-----------------------------------------------------------------------------
(* Goal transitions. *)

LEMMA EndedGoal ==
  ASSUME NEW g \in Goals, NEW status \in {"completed", "failed", "cancelled"}
  PROVE  /\ Ended(g, status) \in Goals /\ Ended(g, status).status = status
         /\ Ended(g, status).spent = g.spent
  BY DEF Ended, Goals, GoalStatuses

LEMMA WaitingGoal ==
  ASSUME NEW g \in Goals, NEW reason \in {"user", "event"}
  PROVE  /\ Waiting(g, reason) \in Goals /\ Waiting(g, reason).status = "waiting"
         /\ Waiting(g, reason).spent = g.spent
<1>1. g.waits \in Nat /\ g.waits + 1 \in Nat
  BY DEF Goals
<1> DEFINE n == g.waits + 1
           w == [g EXCEPT !.status = "waiting", !.waiting = reason, !.waits = n]
<1>2. Waiting(g, reason) = w
  BY DEF Waiting
<1> HIDE DEF n
<1>3. n \in Nat
  BY <1>1 DEF n
<1>4. w \in Goals /\ w.status = "waiting" /\ w.spent = g.spent
  BY <1>3 DEF Goals, GoalStatuses
<1> QED BY <1>2, <1>4

LEMMA ActiveGoal ==
  ASSUME NEW g \in Goals
  PROVE  Active(g) \in Goals /\ Active(g).status = "active" /\ Active(g).spent = g.spent
  BY DEF Active, Goals, GoalStatuses

LEMMA LinkedGoal ==
  ASSUME NEW g \in Goals, NEW r \in Nat
  PROVE  /\ [g EXCEPT !.run = r] \in Goals /\ [g EXCEPT !.run = r].status = g.status
         /\ [g EXCEPT !.run = r].spent = g.spent
  BY DEF Goals, GoalStatuses

LEMMA CancelledGoal ==
  ASSUME NEW g \in Goals
  PROVE  /\ Cancelled(g) \in Goals /\ Cancelled(g).status \in {"failed", "cancelled"}
         /\ Cancelled(g).spent = g.spent
<1>1. Cancelled(g) \in {Ended(g, "failed"), Ended(g, "cancelled")}
  BY DEF Cancelled, Timed
<1> QED BY <1>1, EndedGoal

LEMMA AcceptedGoal ==
  ASSUME NEW g \in Goals
  PROVE  /\ Accepted(g) \in Goals /\ Accepted(g).status \in {g.status, "failed"}
         /\ Accepted(g).spent = g.spent
<1> DEFINE a == [g EXCEPT !.accepted = TRUE]
<1>1. a \in Goals /\ a.status = g.status /\ a.spent = g.spent
  BY DEF Goals, GoalStatuses
<1>2. Accepted(g) = a \/ Accepted(g) = Ended(g, "failed")
  BY DEF Accepted, Timed
<1> HIDE DEF a
<1> QED BY <1>1, <1>2, EndedGoal

(* A charge bills the goal, and ends one found past its deadline. *)
LEMMA ChargedGoal ==
  ASSUME NEW g \in Goals, NEW more \in Nat, NEW past \in BOOLEAN
  PROVE  /\ Charged(g, more, past) \in Goals
         /\ Charged(g, more, past).spent = g.spent + more
         /\ \/ Charged(g, more, past).status = g.status
            \/ ~Terminal(g) /\ Charged(g, more, past).status = "failed"
         /\ Terminal(g) => Terminal(Charged(g, more, past))
<1>1. PICK spent \in Nat : spent = g.spent + more
  BY DEF Goals
<1>2. PICK billed : billed = [g EXCEPT !.spent = spent]
  OBVIOUS
<1>3. billed \in Goals /\ billed.spent = spent /\ billed.status = g.status
  BY <1>2 DEF Goals
<1>4. Charged(g, more, past) = IF past /\ ~Terminal(g) THEN Ended(billed, "failed") ELSE billed
  BY <1>1, <1>2 DEF Charged
<1>5. /\ Ended(billed, "failed") \in Goals /\ Ended(billed, "failed").status = "failed"
      /\ Ended(billed, "failed").spent = billed.spent
  BY <1>3, EndedGoal
<1>6. Terminal(g) => Terminal(billed)
  BY <1>3 DEF Terminal
<1> QED BY <1>1, <1>3, <1>4, <1>5, <1>6

LEMMA WaitForHostGoal ==
  ASSUME NEW g \in Goals, WaitForHost(g) # NoGoal
  PROVE  /\ WaitForHost(g) \in Goals /\ WaitForHost(g).status \in {"waiting", "failed"}
         /\ WaitForHost(g).spent = g.spent /\ g.status = "active"
<1>1. /\ WaitForHost(g) = Waiting(g, "user") \/ WaitForHost(g) = Ended(g, "failed")
      /\ g.status = "active"
  BY DEF WaitForHost, Timed
<1> QED BY <1>1, EndedGoal, WaitingGoal

LEMMA CompleteGoal ==
  ASSUME NEW g \in Goals, Complete(g) # NoGoal
  PROVE  /\ Complete(g) \in Goals /\ Complete(g).status \in {"completed", "failed"}
         /\ Complete(g).spent = g.spent
<1>1. Complete(g) = Ended(g, "completed") \/ Complete(g) = Ended(g, "failed")
  BY DEF Complete, Timed
<1> QED BY <1>1, EndedGoal

LEMMA CommandGoal ==
  ASSUME NEW g \in Goals, NEW type \in {"wait", "resume", "fail"}, Command(g, type) # NoGoal
  PROVE  /\ ~Terminal(g) /\ Command(g, type) \in Goals
         /\ Command(g, type).status \in {"active", "waiting", "failed"}
         /\ Command(g, type).spent = g.spent
<1>1. /\ ~Terminal(g)
      /\ Command(g, type) \in {Ended(g, "failed"), Waiting(g, "event"), Active(g)}
  BY DEF Command
<1> QED BY <1>1, EndedGoal, WaitingGoal, ActiveGoal

-----------------------------------------------------------------------------
(* Steps that write nothing. *)

LEMMA DriveOf ==
  ASSUME DriveInv, NEW s \in Supervisors
  PROVE  /\ drive[s] \in Drives /\ Fits(drive[s], goal, rt, intents, mark, ledger)
         /\ PlanFits(drive[s]) /\ AtFits(drive[s], rt, intents) /\ GoalFits(drive[s], goal)
         /\ StateFits(drive[s], goal, rt, intents) /\ ChargeFits(drive[s], intents, mark, ledger)
  BY DEF DriveInv, RecordsOK, AllFit, Fits

(* A drive that ends or begins again. *)
LEMMA RestStep ==
  ASSUME DriveInv, NEW s \in Supervisors, NEW pc \in {"top", "ending"}, Go(s, At(drive[s], pc)),
         UNCHANGED <<store, ledger>>, lease.token' \in Nat
  PROVE  DriveInv'
<1> DEFINE y == At(drive[s], pc)
<1>1. drive[s] \in Drives
  BY DriveOf
<1>2. y \in Drives /\ Fits(y, goal, rt, intents, mark, ledger) /\ ~InLeg(y)
  BY <1>1, RestFits
<1> HIDE DEF y
<1>3. Go(s, y)
  BY DEF y
<1> QED BY <1>2, <1>3, GoFits

LEMMA AcquireFits ==
  ASSUME DriveInv, NEW s \in Supervisors, Acquire(s)
  PROVE  DriveInv'
<1> DEFINE token == lease.token + 1
           i == Idle
           x == [i EXCEPT !.token = token]
           y == [i EXCEPT !.pc = "top", !.token = token]
<1>1. token \in Nat
  BY DEF DriveInv, RecordsOK
<1>2. lease.token' = token
  BY DEF Acquire
<1>3. Go(s, y)
  BY DEF Acquire
<1>4. /\ i \in Drives /\ i.seen = NoGoal /\ i.plan = "none" /\ i.at = 0
      /\ i.copy = NoIntent /\ i.next = NoGoal /\ i.as = "none" /\ i.starts = FALSE
  BY IdleDrive
<1> HIDE DEF token, i
<1>5. "top" \in Pcs
  BY DEF Pcs
<1>6. y \in Drives
  BY <1>1, <1>4, <1>5 DEF Drives
<1>7. /\ y.pc = "top" /\ y.seen = NoGoal /\ y.plan = "none" /\ y.at = 0
      /\ y.copy = NoIntent /\ y.next = NoGoal /\ y.as = "none" /\ y.starts = FALSE
  BY <1>4 DEF Drives
<1> HIDE DEF y
<1>8. PlanFits(y) /\ AtFits(y, rt, intents)
  BY <1>7 DEF PlanFits, AtFits, HoldPcs, LegPcs, PlannedPcs, ReadPcs
<1>9. GoalFits(y, goal)
  BY <1>7, NoRecord DEF GoalFits, ReadPcs
<1>10. StateFits(y, goal, rt, intents) /\ ChargeFits(y, intents, mark, ledger) /\ ~InLeg(y)
  BY <1>7 DEF StateFits, ChargeFits, InLeg, LegPcs
<1>11. Fits(y, goal, rt, intents, mark, ledger)
  BY <1>8, <1>9, <1>10 DEF Fits
<1>12. UNCHANGED <<store, ledger>>
  BY DEF Acquire, runs
<1> QED BY <1>1, <1>2, <1>3, <1>6, <1>10, <1>11, <1>12, GoFits

(* Only what a drive knows of its lease changes. *)
LEMMA NoticeFits ==
  ASSUME DriveInv, NEW s \in Supervisors, NoticeLoss(s)
  PROVE  DriveInv'
<1> DEFINE x == drive[s]
           y == [x EXCEPT !.lost = TRUE]
<1>1. x \in Drives /\ Fits(x, goal, rt, intents, mark, ledger)
  BY DriveOf
<1>2. Go(s, y) /\ UNCHANGED <<store, ledger, lease>>
  BY DEF NoticeLoss
<1>3. lease.token' \in Nat
  BY <1>2 DEF DriveInv, RecordsOK
<1> HIDE DEF x
<1>4. y \in Drives
  BY <1>1 DEF Drives
<1>5. /\ y.pc = x.pc /\ y.seen = x.seen /\ y.plan = x.plan /\ y.at = x.at /\ y.copy = x.copy
      /\ y.next = x.next /\ y.entry = x.entry
  BY <1>1 DEF Drives
<1>6. /\ y.as = x.as /\ y.starts = x.starts /\ y.leg = x.leg /\ y.totals = x.totals
      /\ y.goalFresh = x.goalFresh /\ y.rtFresh = x.rtFresh /\ y.copyFresh = x.copyFresh
      /\ y.markFresh = x.markFresh
  BY <1>1 DEF Drives
<1> HIDE DEF y
<1>7. PlanFits(y) /\ AtFits(y, rt, intents)
  BY <1>1, <1>5, <1>6 DEF Fits, PlanFits, AtFits
<1>8. GoalFits(y, goal) /\ StateFits(y, goal, rt, intents) /\ ChargeFits(y, intents, mark, ledger)
  BY <1>1, <1>5, <1>6 DEF Fits, GoalFits, StateFits, ChargeFits
<1>9. Fits(y, goal, rt, intents, mark, ledger)
  BY <1>7, <1>8 DEF Fits
<1>10. InLeg(y) => InLeg(drive[s]) /\ y.at = drive[s].at
  BY <1>5 DEF InLeg, x
<1> QED BY <1>2, <1>3, <1>4, <1>9, <1>10, GoFits

LEMMA ReadGoalFits ==
  ASSUME DriveInv, NEW s \in Supervisors, ReadGoal(s)
  PROVE  DriveInv'
<1> DEFINE x == drive[s]
           y == [x EXCEPT !.pc = "reading", !.seen = goal]
<1>1. UNCHANGED <<store, ledger, lease>> /\ x.pc = "top"
  BY DEF ReadGoal, In, runs
<1>2. lease.token' \in Nat
  BY <1>1 DEF DriveInv, RecordsOK
<1>3. CASE x.lost
  <2>1. Go(s, At(drive[s], "ending"))
    BY <1>3 DEF ReadGoal, Stop
  <2> QED BY <1>1, <1>2, <2>1, RestStep
<1>4. CASE ~x.lost
  <2>1. Go(s, y)
    BY <1>4 DEF ReadGoal
  <2>2. x \in Drives /\ Fits(x, goal, rt, intents, mark, ledger)
    BY DriveOf
  <2>3. goal \in SomeGoal /\ goal # NoGoal
    BY NoRecord DEF DriveInv, RecordsOK, SomeGoal
  <2> HIDE DEF x
  <2>4. "reading" \in Pcs
    BY DEF Pcs
  <2>5. y \in Drives
    BY <2>2, <2>3, <2>4 DEF Drives
  <2>6. /\ y.pc = "reading" /\ y.seen = goal /\ y.plan = x.plan /\ y.at = x.at
        /\ y.copy = x.copy /\ y.next = x.next /\ y.as = x.as /\ y.starts = x.starts
    BY <2>2 DEF Drives
  <2> HIDE DEF y
  <2>7. x.plan = "none" /\ x.as = "none" /\ ~x.starts /\ x.next = NoGoal
    <3>1. x.plan = "none"
      BY <1>1, <2>2 DEF Fits, PlanFits, PlannedPcs, HoldPcs
    <3>2. x.as = "none" /\ ~x.starts
      BY <2>2, <3>1 DEF Fits, PlanFits
    <3>3. NextStatuses("none") = {}
      BY DEF NextStatuses
    <3> QED BY <2>2, <3>1, <3>2, <3>3 DEF Fits, GoalFits
  <2>8. PlanFits(y) /\ AtFits(y, rt, intents)
    BY <2>2, <2>3, <2>6, <2>7
      DEF Fits, PlanFits, AtFits, HoldPcs, LegPcs, PlannedPcs, ReadPcs
  <2>9. GoalFits(y, goal)
    BY <2>6, <2>7 DEF GoalFits, ReadPcs
  <2>10. StateFits(y, goal, rt, intents) /\ ChargeFits(y, intents, mark, ledger) /\ ~InLeg(y)
    BY <2>6, <2>7 DEF StateFits, ChargeFits, InLeg, LegPcs
  <2>11. Fits(y, goal, rt, intents, mark, ledger)
    BY <2>8, <2>9, <2>10 DEF Fits
  <2> QED BY <1>1, <1>2, <2>1, <2>5, <2>10, <2>11, GoFits
<1> QED BY <1>3, <1>4

-----------------------------------------------------------------------------
(* Drives with a leg. *)

LEMMA LegDrive ==
  ASSUME NEW x \in Drives, NEW pc \in Pcs, NEW leg \in Legs
  PROVE  /\ Leg(x, pc, leg) \in Drives /\ Leg(x, pc, leg).pc = pc
         /\ Leg(x, pc, leg).at = x.at /\ Leg(x, pc, leg).leg = leg
         /\ Leg(x, pc, leg).seen = NoGoal /\ Leg(x, pc, leg).plan = "none"
         /\ Leg(x, pc, leg).copy = NoIntent /\ Leg(x, pc, leg).next = NoGoal
         /\ Leg(x, pc, leg).as = "none" /\ ~Leg(x, pc, leg).starts
<1> DEFINE i == At(x, pc)
           at == x.at
           v == [i EXCEPT !.at = at, !.leg = leg]
<1>1. Leg(x, pc, leg) = v
  BY DEF Leg
<1>2. at \in Nat
  BY DEF Drives
<1>3. /\ i \in Drives /\ i.pc = pc /\ i.token = x.token /\ i.lost = x.lost
      /\ i.seen = NoGoal /\ i.plan = "none" /\ i.copy = NoIntent /\ i.next = NoGoal
      /\ i.as = "none" /\ ~i.starts /\ i.totals = 0
  BY AtDrive
<1> HIDE DEF i, at
<1>4. v \in Drives
  BY <1>2, <1>3 DEF Drives
<1>5. /\ v.pc = pc /\ v.at = at /\ v.leg = leg /\ v.seen = NoGoal
  BY <1>2, <1>3 DEF Drives
<1>6. /\ v.plan = "none" /\ v.copy = NoIntent /\ v.next = NoGoal
      /\ v.as = "none" /\ ~v.starts /\ v.totals = 0
  BY <1>2, <1>3 DEF Drives
<1> HIDE DEF v
<1> QED BY <1>1, <1>4, <1>5, <1>6 DEF at

(* One that looked its totals up. *)
LEMMA MarkingDrive ==
  ASSUME NEW x \in Drives, NEW totals \in Nat, NEW tries \in Nat
  PROVE  /\ Marking(x, totals, tries) \in Drives /\ Marking(x, totals, tries).pc = "marking"
         /\ Marking(x, totals, tries).at = x.at /\ Marking(x, totals, tries).leg = x.leg
         /\ Marking(x, totals, tries).seen = NoGoal /\ Marking(x, totals, tries).plan = "none"
         /\ Marking(x, totals, tries).copy = NoIntent
         /\ Marking(x, totals, tries).next = NoGoal
         /\ Marking(x, totals, tries).as = "none" /\ ~Marking(x, totals, tries).starts
         /\ Marking(x, totals, tries).totals = totals
<1> DEFINE leg == x.leg
           v == Leg(x, "marking", leg)
           y == [v EXCEPT !.totals = totals, !.tries = tries]
<1>1. Marking(x, totals, tries) = y
  BY DEF Marking
<1>2. "marking" \in Pcs /\ leg \in Legs
  BY DEF Pcs, LegPcs, Drives
<1> HIDE DEF leg
<1>3. /\ v \in Drives /\ v.pc = "marking" /\ v.at = x.at /\ v.leg = leg
      /\ v.seen = NoGoal /\ v.plan = "none" /\ v.copy = NoIntent /\ v.next = NoGoal
      /\ v.as = "none" /\ ~v.starts
  BY <1>2, LegDrive
<1> HIDE DEF v
<1>4. y \in Drives
  BY <1>3 DEF Drives
<1>5. /\ y.pc = v.pc /\ y.at = v.at /\ y.leg = v.leg /\ y.seen = v.seen /\ y.plan = v.plan
      /\ y.totals = totals
  BY <1>3 DEF Drives
<1>6. y.copy = v.copy /\ y.next = v.next /\ y.as = v.as /\ (y.starts <=> v.starts)
  BY <1>3 DEF Drives
<1> HIDE DEF y
<1> QED BY <1>1, <1>3, <1>4, <1>5, <1>6 DEF leg

LEMMA SettlingDrive ==
  ASSUME NEW x \in Drives
  PROVE  /\ Settling(x) \in Drives /\ Settling(x).pc = "settling"
         /\ Settling(x).at = x.at /\ Settling(x).leg = x.leg
         /\ Settling(x).verdict = x.verdict /\ Settling(x).seen = NoGoal
         /\ Settling(x).plan = "none" /\ Settling(x).copy = NoIntent
         /\ Settling(x).next = NoGoal /\ Settling(x).as = "none" /\ ~Settling(x).starts
         /\ Settling(x).goalFresh = TRUE /\ Settling(x).rtFresh = TRUE
         /\ Settling(x).copyFresh = TRUE
         /\ Settling(x).token = x.token /\ Settling(x).lost = x.lost
<1> DEFINE i == At(x, "settling")
           at == x.at
           leg == x.leg
           verdict == x.verdict
           gaveUp == x.gaveUp
           v == [i EXCEPT !.at = at, !.leg = leg, !.verdict = verdict, !.gaveUp = gaveUp]
<1>1. Settling(x) = v
  BY DEF Settling
<1>2. /\ at \in Nat /\ leg \in Legs /\ verdict \in Judgements /\ gaveUp \in BOOLEAN
      /\ "settling" \in Pcs
  BY DEF Drives, Pcs, LegPcs
<1>3. /\ i \in Drives /\ i.pc = "settling" /\ i.token = x.token /\ i.lost = x.lost
      /\ i.seen = NoGoal /\ i.plan = "none" /\ i.copy = NoIntent /\ i.next = NoGoal
      /\ i.as = "none" /\ ~i.starts
      /\ i.goalFresh = TRUE /\ i.rtFresh = TRUE /\ i.copyFresh = TRUE
  BY <1>2, AtDrive
<1> HIDE DEF i, at, leg, verdict, gaveUp
<1>4. v \in Drives
  BY <1>2, <1>3 DEF Drives
<1>5. /\ v.pc = "settling" /\ v.token = x.token /\ v.lost = x.lost /\ v.at = at /\ v.leg = leg
      /\ v.verdict = verdict
  BY <1>2, <1>3 DEF Drives
<1>6. /\ v.plan = "none" /\ v.copy = NoIntent /\ v.next = NoGoal /\ v.seen = NoGoal
      /\ v.as = "none" /\ ~v.starts
  BY <1>2, <1>3 DEF Drives
<1>7. v.goalFresh = TRUE /\ v.rtFresh = TRUE /\ v.copyFresh = TRUE
  BY <1>2, <1>3 DEF Drives
<1> HIDE DEF v
<1> QED BY <1>1, <1>4, <1>5, <1>6, <1>7 DEF at, leg, verdict

(* A drive between two steps of a leg relies on its intent and its totals. *)
LEMMA LegFits ==
  ASSUME NEW y, NEW g, NEW r, NEW I, NEW m, NEW l,
         y.pc \in {"running", "charging", "marking", "settling"},
         y.pc # "running" => y.leg # "none", y.at # 0, y.at \in DOMAIN I,
         y.seen = NoGoal, y.plan = "none", y.copy = NoIntent, y.next = NoGoal,
         y.as = "none", ~y.starts,
         y.pc = "marking" => y.totals <= l[I[y.at].run]
  PROVE  Fits(y, g, r, I, m, l) /\ InLeg(y)
<1>1. PlanFits(y)
  BY DEF PlanFits, HoldPcs, LegPcs, PlannedPcs, ReadPcs
<1>2. AtFits(y, r, I)
  BY DEF AtFits, HoldPcs, LegPcs
<1>3. GoalFits(y, g)
  BY NoRecord DEF GoalFits, ReadPcs
<1>4. StateFits(y, g, r, I) /\ ChargeFits(y, I, m, l) /\ InLeg(y)
  BY DEF StateFits, ChargeFits, InLeg, LegPcs
<1> QED BY <1>1, <1>2, <1>3, <1>4 DEF Fits

LEMMA LegStep ==
  ASSUME DriveInv, NEW s \in Supervisors, InLeg(drive[s]),
         NEW pc \in {"running", "charging"}, NEW leg \in Legs, pc # "running" => leg # "none",
         Go(s, Leg(drive[s], pc, leg)),
         UNCHANGED <<store, ledger>>, lease.token' \in Nat
  PROVE  DriveInv'
<1>1. drive[s] \in Drives /\ drive[s].at # 0 /\ drive[s].at \in DOMAIN intents
  BY DriveOf DEF AtFits, InLeg
<1>2. PICK y : y = Leg(drive[s], pc, leg)
  OBVIOUS
<1>3. pc \in Pcs
  BY DEF Pcs, LegPcs
<1>4. /\ y \in Drives /\ y.pc = pc /\ y.at = drive[s].at /\ y.leg = leg
      /\ y.seen = NoGoal /\ y.plan = "none" /\ y.copy = NoIntent /\ y.next = NoGoal
      /\ y.as = "none" /\ ~y.starts
  BY <1>1, <1>2, <1>3, LegDrive
<1>5. y.at # 0 /\ y.at \in DOMAIN intents /\ (y.pc # "running" => y.leg # "none")
  BY <1>1, <1>4
<1>6. y.pc \in {"running", "charging", "marking", "settling"} /\ y.pc # "marking"
  BY <1>4
<1>7. Fits(y, goal, rt, intents, mark, ledger)
  BY <1>4, <1>5, <1>6, LegFits
<1>8. Go(s, y)
  BY <1>2
<1> QED BY <1>4, <1>7, <1>8, GoFits

\* A leg settled for the first time, again, or with its charge given up.
Settlings(x) ==
  {Settling(x), [Settling(x) EXCEPT !.tries = x.tries + 1],
   [Settling(x) EXCEPT !.gaveUp = TRUE]}

LEMMA SettlingsDrive ==
  ASSUME NEW x \in Drives, NEW y \in Settlings(x)
  PROVE  /\ y \in Drives /\ y.pc = "settling" /\ y.at = x.at /\ y.leg = x.leg
         /\ y.seen = NoGoal /\ y.plan = "none" /\ y.copy = NoIntent /\ y.next = NoGoal
         /\ y.as = "none" /\ ~y.starts
<1> DEFINE v == Settling(x)
           more == x.tries + 1
<1>1. /\ v \in Drives /\ v.pc = "settling" /\ v.at = x.at /\ v.leg = x.leg
      /\ v.seen = NoGoal /\ v.plan = "none" /\ v.copy = NoIntent /\ v.next = NoGoal
      /\ v.as = "none" /\ ~v.starts
  BY SettlingDrive
<1>2. more \in Nat
  BY DEF Drives
<1>3. y \in {v, [v EXCEPT !.tries = more], [v EXCEPT !.gaveUp = TRUE]}
  BY DEF Settlings
<1> HIDE DEF v, more
<1>4. CASE y = v
  BY <1>1, <1>4
<1>5. CASE y = [v EXCEPT !.tries = more]
  <2>1. y \in Drives
    BY <1>1, <1>2, <1>5 DEF Drives
  <2>2. /\ y.pc = v.pc /\ y.at = v.at /\ y.leg = v.leg /\ y.seen = v.seen /\ y.plan = v.plan
        /\ y.copy = v.copy /\ y.next = v.next /\ y.as = v.as /\ (y.starts <=> v.starts)
    BY <1>1, <1>5 DEF Drives
  <2> QED BY <1>1, <2>1, <2>2
<1>6. CASE y = [v EXCEPT !.gaveUp = TRUE]
  <2>1. y \in Drives
    BY <1>1, <1>6 DEF Drives
  <2>2. /\ y.pc = v.pc /\ y.at = v.at /\ y.leg = v.leg /\ y.seen = v.seen /\ y.plan = v.plan
        /\ y.copy = v.copy /\ y.next = v.next /\ y.as = v.as /\ (y.starts <=> v.starts)
    BY <1>1, <1>6 DEF Drives
  <2> QED BY <1>1, <2>1, <2>2
<1> QED BY <1>3, <1>4, <1>5, <1>6

LEMMA SettlingFits ==
  ASSUME NEW x \in Drives, NEW g, NEW r, NEW I, NEW m, NEW l, NEW y \in Settlings(x),
         AtFits(x, r, I), PlanFits(x), InLeg(x), x.pc \notin {"saved", "running"}
  PROVE  y \in Drives /\ Fits(y, g, r, I, m, l) /\ y.at = x.at /\ InLeg(y)
<1>1. x.at # 0 /\ x.at \in DOMAIN I /\ x.leg # "none"
  BY DEF AtFits, InLeg, PlanFits
<1>3. /\ y \in Drives /\ y.pc = "settling" /\ y.at = x.at /\ y.leg = x.leg
      /\ y.seen = NoGoal /\ y.plan = "none" /\ y.copy = NoIntent /\ y.next = NoGoal
      /\ y.as = "none" /\ ~y.starts
  BY SettlingsDrive
<1>4. /\ y.at # 0 /\ y.at \in DOMAIN I /\ (y.pc # "running" => y.leg # "none")
      /\ y.pc \in {"running", "charging", "marking", "settling"} /\ y.pc # "marking"
  BY <1>1, <1>3
<1>5. Fits(y, g, r, I, m, l) /\ InLeg(y)
  BY <1>3, <1>4, LegFits
<1> QED BY <1>3, <1>5

LEMMA SettlingStep ==
  ASSUME DriveInv, NEW s \in Supervisors, InLeg(drive[s]),
         drive[s].pc \notin {"saved", "running"},
         NEW y \in Settlings(drive[s]), Go(s, y),
         UNCHANGED <<store, ledger>>, lease.token' \in Nat
  PROVE  DriveInv'
<1>2. drive[s] \in Drives /\ AtFits(drive[s], rt, intents) /\ PlanFits(drive[s])
  BY DriveOf
<1>3. /\ y \in Drives /\ Fits(y, goal, rt, intents, mark, ledger)
      /\ y.at = drive[s].at /\ InLeg(y)
  BY <1>2, SettlingFits
<1> QED BY <1>3, GoFits

(* The next pass of a settlement, or its end after the last one. *)
LEMMA SettleAgainStep ==
  ASSUME DriveInv, NEW s \in Supervisors, InLeg(drive[s]),
         drive[s].pc \notin {"saved", "running"}, Go(s, SettleAgain(drive[s])),
         UNCHANGED <<store, ledger>>, lease.token' \in Nat
  PROVE  DriveInv'
<1>1. CASE LastTry(drive[s])
  <2>1. Go(s, At(drive[s], "ending"))
    BY <1>1 DEF SettleAgain, Stop
  <2> QED BY <2>1, RestStep
<1>2. CASE ~LastTry(drive[s])
  <2>1. PICK y : y = [Settling(drive[s]) EXCEPT !.tries = drive[s].tries + 1]
    OBVIOUS
  <2>2. y \in Settlings(drive[s]) /\ Go(s, y)
    BY <1>2, <2>1 DEF Settlings, SettleAgain
  <2> QED BY <2>2, SettlingStep
<1> QED BY <1>1, <1>2

\* A drive somewhere else.
Onto(x, pc) == [x EXCEPT !.pc = pc]

LEMMA OntoDrive ==
  ASSUME NEW x \in Drives, NEW pc \in Pcs
  PROVE  /\ Onto(x, pc) \in Drives /\ Onto(x, pc).pc = pc /\ Onto(x, pc).seen = x.seen
         /\ Onto(x, pc).plan = x.plan /\ Onto(x, pc).at = x.at /\ Onto(x, pc).copy = x.copy
         /\ Onto(x, pc).next = x.next /\ Onto(x, pc).entry = x.entry
         /\ Onto(x, pc).as = x.as /\ (Onto(x, pc).starts <=> x.starts)
         /\ Onto(x, pc).leg = x.leg /\ Onto(x, pc).totals = x.totals
         /\ (Onto(x, pc).goalFresh <=> x.goalFresh) /\ (Onto(x, pc).rtFresh <=> x.rtFresh)
         /\ (Onto(x, pc).copyFresh <=> x.copyFresh) /\ (Onto(x, pc).markFresh <=> x.markFresh)
<1> DEFINE y == [x EXCEPT !.pc = pc]
<1>1. Onto(x, pc) = y
  BY DEF Onto
<1>2. y \in Drives
  BY DEF Drives
<1>3. /\ y.pc = pc /\ y.seen = x.seen /\ y.plan = x.plan /\ y.at = x.at /\ y.copy = x.copy
      /\ y.next = x.next /\ y.entry = x.entry
  BY DEF Drives
<1>4. y.as = x.as /\ (y.starts <=> x.starts) /\ y.leg = x.leg /\ y.totals = x.totals
  BY DEF Drives
<1>5. /\ (y.goalFresh <=> x.goalFresh) /\ (y.rtFresh <=> x.rtFresh)
      /\ (y.copyFresh <=> x.copyFresh) /\ (y.markFresh <=> x.markFresh)
  BY DEF Drives
<1> HIDE DEF y
<1> QED BY <1>1, <1>2, <1>3, <1>4, <1>5

(* A drive with no plan has decided nothing. *)
LEMMA Unplanned ==
  ASSUME NEW x, PlanFits(x), NEW g, GoalFits(x, g), x.plan = "none"
  PROVE  x.as = "none" /\ ~x.starts /\ x.next = NoGoal
<1>1. x.as = "none" /\ ~x.starts
  BY DEF PlanFits
<1>2. NextStatuses("none") = {}
  BY DEF NextStatuses
<1> QED BY <1>1, <1>2 DEF GoalFits

LEMMA ReadTotalsFits ==
  ASSUME DriveInv, NEW s \in Supervisors, ReadTotals(s)
  PROVE  DriveInv'
<1>1. UNCHANGED <<store, ledger, lease>> /\ drive[s].pc = "charging"
  BY DEF ReadTotals, In, runs
<1>2. lease.token' \in Nat
  BY <1>1 DEF DriveInv, RecordsOK
<1>3. CASE drive[s].lost
  <2>1. Go(s, At(drive[s], "ending"))
    BY <1>3 DEF ReadTotals, Stop
  <2> QED BY <1>1, <1>2, <2>1, RestStep
<1>4. CASE ~drive[s].lost
  <2>1. PICK totals : totals = ledger[RunOf(s)]
    OBVIOUS
  <2>2. /\ drive[s] \in Drives /\ AtFits(drive[s], rt, intents) /\ PlanFits(drive[s])
    BY DriveOf
  <2>3. /\ drive[s].at # 0 /\ drive[s].at \in DOMAIN intents /\ drive[s].leg # "none"
        /\ drive[s].leg \in Legs /\ InLeg(drive[s])
    BY <1>1, <2>2 DEF AtFits, PlanFits, LegPcs, Drives, InLeg
  <2>4. RunOf(s) \in Runs
    BY <2>3, IntentAt DEF RunOf
  <2>5. totals \in Nat
    BY <2>1, <2>4 DEF DriveInv, RecordsOK
  <2>8. PICK y : y = Marking(drive[s], totals, 0)
    OBVIOUS
  <2>9. /\ y \in Drives /\ y.pc = "marking" /\ y.at = drive[s].at /\ y.leg = drive[s].leg
        /\ y.seen = NoGoal /\ y.plan = "none" /\ y.copy = NoIntent /\ y.next = NoGoal
        /\ y.as = "none" /\ ~y.starts /\ y.totals = totals
    BY <2>2, <2>5, <2>8, MarkingDrive
  <2>10. y.totals <= ledger[intents[y.at].run]
    BY <2>1, <2>5, <2>9 DEF RunOf
  <2>11. /\ y.at # 0 /\ y.at \in DOMAIN intents /\ (y.pc # "running" => y.leg # "none")
         /\ y.pc \in {"running", "charging", "marking", "settling"}
    BY <2>3, <2>9
  <2>12. Fits(y, goal, rt, intents, mark, ledger) /\ InLeg(y)
    BY <2>9, <2>10, <2>11, LegFits
  <2>13. Go(s, y)
    BY <1>4, <2>1, <2>8 DEF ReadTotals
  <2> QED BY <1>1, <1>2, <2>3, <2>9, <2>12, <2>13, GoFits
<1> QED BY <1>3, <1>4

\* One that read the watermark, the goal and the clock.
Advancing(x, past) == [x EXCEPT !.pc = "advancing", !.past = past]

LEMMA AdvancingDrive ==
  ASSUME NEW x \in Drives, NEW past \in BOOLEAN
  PROVE  /\ Advancing(x, past) \in Drives /\ Advancing(x, past).pc = "advancing"
         /\ Advancing(x, past).seen = x.seen /\ Advancing(x, past).plan = x.plan
         /\ Advancing(x, past).at = x.at /\ Advancing(x, past).copy = x.copy
         /\ Advancing(x, past).next = x.next /\ Advancing(x, past).as = x.as
         /\ (Advancing(x, past).starts <=> x.starts) /\ Advancing(x, past).leg = x.leg
         /\ Advancing(x, past).totals = x.totals
<1> DEFINE y == [x EXCEPT !.pc = "advancing", !.past = past]
<1>1. Advancing(x, past) = y
  BY DEF Advancing
<1>2. "advancing" \in Pcs
  BY DEF Pcs, LegPcs
<1>3. y \in Drives
  BY <1>2 DEF Drives
<1>4. /\ y.pc = "advancing" /\ y.seen = x.seen /\ y.plan = x.plan /\ y.at = x.at
      /\ y.copy = x.copy
  BY DEF Drives
<1>5. /\ y.next = x.next /\ y.as = x.as /\ (y.starts <=> x.starts) /\ y.leg = x.leg
      /\ y.totals = x.totals
  BY DEF Drives
<1> HIDE DEF y
<1> QED BY <1>1, <1>3, <1>4, <1>5

LEMMA ReadMarkFits ==
  ASSUME DriveInv, late \in BOOLEAN, NEW s \in Supervisors, ReadMark(s)
  PROVE  DriveInv'
<1>1. UNCHANGED <<store, ledger, lease>> /\ drive[s].pc = "marking"
  BY DEF ReadMark, In, runs
<1>2. lease.token' \in Nat
  BY <1>1 DEF DriveInv, RecordsOK
<1>3. drive[s].pc \notin {"saved", "running"} /\ InLeg(drive[s])
  BY <1>1 DEF InLeg, LegPcs
<1>4. CASE drive[s].lost \/ drive[s].totals <= mark[RunOf(s)]
  <2>1. PICK y : y = Settling(drive[s])
    OBVIOUS
  <2>2. y \in Settlings(drive[s]) /\ Go(s, y)
    BY <1>4, <2>1 DEF ReadMark, Settlings
  <2> QED BY <1>1, <1>2, <1>3, <2>2, SettlingStep
<1>5. CASE ~(drive[s].lost \/ drive[s].totals <= mark[RunOf(s)])
  <2>1. PICK x : x = drive[s]
    OBVIOUS
  <2>2. PICK y : y = Advancing(x, late)
    OBVIOUS
  <2>3. /\ x \in Drives /\ PlanFits(x) /\ AtFits(x, rt, intents) /\ GoalFits(x, goal)
        /\ ChargeFits(x, intents, mark, ledger)
    BY <2>1, DriveOf
  <2>5. /\ y \in Drives /\ y.pc = "advancing" /\ y.seen = x.seen
        /\ y.plan = x.plan /\ y.at = x.at /\ y.copy = x.copy /\ y.next = x.next
        /\ y.as = x.as /\ (y.starts <=> x.starts) /\ y.leg = x.leg /\ y.totals = x.totals
    BY <2>2, <2>3, AdvancingDrive
  <2>6. x.plan = "none"
    BY <1>1, <2>1, <2>3 DEF PlanFits, PlannedPcs, HoldPcs
  <2>7. x.as = "none" /\ ~x.starts /\ x.next = NoGoal
    BY <2>3, <2>6, Unplanned
  <2>8. x.at # 0 /\ x.leg # "none"
    BY <1>1, <2>1, <2>3 DEF AtFits, PlanFits, LegPcs
  <2>9. intents[x.at].run \in Runs
    BY <2>1, <2>8, IntentAt
  <2>10. mark[intents[x.at].run] < x.totals
    <3>1. mark[intents[x.at].run] \in Nat /\ x.totals \in Nat
      BY <2>3, <2>9 DEF DriveInv, RecordsOK, Drives
    <3>2. ~(x.totals <= mark[intents[x.at].run])
      BY <1>5, <2>1 DEF RunOf
    <3> QED BY <3>1, <3>2
  <2>11. ChargeFits(y, intents, mark, ledger)
    BY <1>1, <2>1, <2>3, <2>5, <2>10 DEF ChargeFits
  <2>12. PlanFits(y) /\ AtFits(y, rt, intents)
    BY <2>3, <2>5, <2>6, <2>7, <2>8 
      DEF PlanFits, AtFits, HoldPcs, LegPcs, PlannedPcs, ReadPcs
  <2>13. GoalFits(y, goal)
    BY <2>3, <2>5, <2>6, <2>7 DEF GoalFits, ReadPcs
  <2>14. StateFits(y, goal, rt, intents) /\ InLeg(y)
    BY <2>5, <2>6, <2>7 DEF StateFits, InLeg, LegPcs
  <2>15. Fits(y, goal, rt, intents, mark, ledger)
    BY <2>11, <2>12, <2>13, <2>14 DEF Fits
  <2>16. Go(s, y)
    BY <1>5, <2>1, <2>2 DEF ReadMark, Advancing
  <2> QED BY <1>1, <1>2, <1>3, <2>1, <2>5, <2>15, <2>16, GoFits
<1> QED BY <1>4, <1>5

LEMMA WeighGoalFits ==
  ASSUME DriveInv, NEW s \in Supervisors, WeighGoal(s)
  PROVE  DriveInv'
<1>1. UNCHANGED <<store, ledger, lease>> /\ drive[s].pc = "settling"
  BY DEF WeighGoal, In, runs
<1>2. lease.token' \in Nat
  BY <1>1 DEF DriveInv, RecordsOK
<1>3. CASE drive[s].lost
  <2>1. Go(s, At(drive[s], "ending"))
    BY <1>3 DEF WeighGoal, Stop
  <2> QED BY <1>1, <1>2, <2>1, RestStep
<1>4. CASE ~drive[s].lost
  <2> DEFINE x == drive[s]
             y == [x EXCEPT !.pc = "weighing", !.seen = goal]
  <2>1. Go(s, y)
    BY <1>4 DEF WeighGoal
  <2>2. x \in Drives /\ PlanFits(x) /\ AtFits(x, rt, intents) /\ GoalFits(x, goal)
    BY DriveOf
  <2>3. goal \in SomeGoal /\ goal # NoGoal /\ "weighing" \in Pcs
    BY NoRecord DEF DriveInv, RecordsOK, SomeGoal, Pcs, LegPcs
  <2>4. InLeg(drive[s])
    BY <1>1 DEF InLeg, LegPcs
  <2> HIDE DEF x
  <2>5. x.pc = "settling"
    BY <1>1 DEF x
  <2>6. y \in Drives
    BY <2>2, <2>3 DEF Drives
  <2>7. /\ y.pc = "weighing" /\ y.seen = goal /\ y.plan = x.plan /\ y.at = x.at
        /\ y.copy = x.copy
    BY <2>2 DEF Drives
  <2>8. y.next = x.next /\ y.as = x.as /\ (y.starts <=> x.starts) /\ y.leg = x.leg
    BY <2>2 DEF Drives
  <2> HIDE DEF y
  <2>9. x.plan = "none" /\ x.at # 0 /\ x.leg # "none"
    BY <2>2, <2>5 DEF PlanFits, AtFits, PlannedPcs, HoldPcs, LegPcs
  <2>10. x.as = "none" /\ ~x.starts /\ x.next = NoGoal
    BY <2>2, <2>9, Unplanned
  <2>11. PlanFits(y) /\ AtFits(y, rt, intents)
    BY <2>2, <2>3, <2>7, <2>8, <2>9, <2>10
      DEF PlanFits, AtFits, HoldPcs, LegPcs, PlannedPcs, ReadPcs
  <2>12. GoalFits(y, goal)
    BY <2>7, <2>8, <2>9, <2>10 DEF GoalFits, ReadPcs
  <2>13. StateFits(y, goal, rt, intents) /\ ChargeFits(y, intents, mark, ledger)
    BY <2>7, <2>8, <2>9, <2>10 DEF StateFits, ChargeFits
  <2>14. Fits(y, goal, rt, intents, mark, ledger)
    BY <2>11, <2>12, <2>13 DEF Fits
  <2>15. y.at = drive[s].at
    BY <2>7 DEF x
  <2> QED BY <1>1, <1>2, <2>1, <2>4, <2>6, <2>14, <2>15, GoFits
<1> QED BY <1>3, <1>4

LEMMA LegEndsFits ==
  ASSUME DriveInv, NEW s \in Supervisors, LegEnds(s)
  PROVE  DriveInv'
<1>1. UNCHANGED <<store, ledger, lease>> /\ drive[s].pc = "running"
  BY DEF LegEnds, In
<1>2. lease.token' \in Nat
  BY <1>1 DEF DriveInv, RecordsOK
<1>3. InLeg(drive[s])
  BY <1>1 DEF InLeg, LegPcs
<1>4. \E leg \in Ways : Go(s, Leg(drive[s], "charging", leg))
  <2>1. Outcomes \subseteq Ways /\ {"drained", "cancelled", "elsewhere"} \subseteq Ways
    BY SupervisorAssumption DEF Ways
  <2>2. Outcomes \cup (IF ask[RunOf(s)] = "drain" THEN {"drained"} ELSE {})
                 \cup (IF ask[RunOf(s)] = "cancel" THEN {"cancelled"} ELSE {}) \subseteq Ways
    BY <2>1
  <2> QED BY <2>1, <2>2 DEF LegEnds
<1>5. PICK leg \in Ways : Go(s, Leg(drive[s], "charging", leg))
  BY <1>4
<1>6. leg \in Legs /\ leg # "none"
  BY DEF Legs, Ways
<1> QED BY <1>1, <1>2, <1>3, <1>5, <1>6, LegStep

-----------------------------------------------------------------------------
(* Deciding a step. *)

LEMMA StepFacts ==
  ASSUME DriveInv, NEW s \in Supervisors, StepFor(s) # "stop"
  PROVE  /\ StepFor(s) \in {"cancel", "time", "settle", "ended", "stray", "link", "launch",
                            "retry", "resume", "auto"}
         /\ StepFor(s) = "cancel" => rt.cancel = "asked"
         /\ StepFor(s) = "time" => ~Terminal(drive[s].seen)
         /\ StepFor(s) = "settle" => Pending # {}
         /\ StepFor(s) = "ended" => Terminal(drive[s].seen)
         /\ StepFor(s) = "stray" => Strays # {}
         /\ StepFor(s) = "link" => drive[s].seen.status = "active" /\ ActiveOpen
         /\ StepFor(s) = "launch" => ActiveOpen /\ Strays = {}
         /\ StepFor(s) \in {"retry", "resume"} => rt.active # 0
         /\ StepFor(s) = "auto" =>
              rt.cancel = "none" /\ rt.runs < MaxRuns /\ drive[s].seen.status = "active"
<1> DEFINE g == drive[s].seen
           enough == rt.runs >= MaxRuns
           few == rt.retries < MaxRetries
           ended == Terminal(g)
           linked == g.run = intents[rt.active].run
<1>1. rt.runs \in Nat /\ MaxRuns \in Nat
  BY SupervisorAssumption DEF DriveInv, RecordsOK, States
<1>2. ~enough <=> rt.runs < MaxRuns
  BY <1>1
<1>3. StepFor(s) =
        IF rt.cancel = "asked" THEN "cancel"
        ELSE IF late /\ ~ended THEN "time"
        ELSE IF Pending # {} THEN "settle"
        ELSE IF ended THEN IF Open = {} /\ rt.phase = "done" THEN "stop" ELSE "ended"
        ELSE IF Strays # {} THEN "stray"
        ELSE IF g.status # "active" \/ s \in draining THEN "stop"
        ELSE IF ActiveOpen THEN IF ~linked THEN "link" ELSE "launch"
        ELSE IF rt.phase = "retrying" THEN IF rt.active # 0 /\ few THEN "retry" ELSE "stop"
        ELSE IF rt.active # 0 THEN "resume"
        ELSE IF rt.cancel # "none" \/ enough THEN "stop" ELSE "auto"
  BY DEF StepFor
<1> HIDE DEF enough, few, ended, linked
<1> QED BY <1>2, <1>3 DEF ended

LEMMA IntentFacts ==
  ASSUME DriveInv, NEW plan \in Plans,
         plan = "stray" => Strays # {}, plan = "launch" => ActiveOpen
  PROVE  /\ IntentOf(plan) \in Nat
         /\ IntentOf(plan) # 0 => plan \in HoldPlans /\ OpenIn(intents, IntentOf(plan))
         /\ plan = "stray" => IntentOf(plan) # 0 /\ IntentOf(plan) # rt.active
         /\ plan = "launch" => IntentOf(plan) # 0 /\ IntentOf(plan) = rt.active
<1>1. Open \subseteq Nat /\ Strays \subseteq Open /\ 0 \notin Open
  BY IntentsDomain DEF DriveInv, Open, Strays
<1>2. \A i \in Open : OpenIn(intents, i)
  BY DEF Open, OpenAt, OpenIn
<1>3. CASE plan \in {"cancel", "ended"} /\ Open # {}
  <2>1. IntentOf(plan) = Oldest(Open)
    BY <1>3 DEF IntentOf
  <2>2. IntentOf(plan) \in Open
    BY <1>1, <1>3, <2>1, OldestIn
  <2> QED BY <1>1, <1>2, <1>3, <2>2 DEF HoldPlans
<1>4. CASE plan = "stray"
  <2>1. IntentOf(plan) = Oldest(Strays)
    BY <1>4 DEF IntentOf
  <2>2. Strays \subseteq Nat
    BY <1>1
  <2>3. IntentOf(plan) \in Strays
    BY <1>4, <2>1, <2>2, OldestIn
  <2> QED BY <1>1, <1>2, <1>4, <2>3 DEF HoldPlans, Strays
<1>5. CASE plan = "launch"
  <2>1. IntentOf(plan) = rt.active /\ rt.active # 0 /\ OpenAt(rt.active)
    BY <1>5 DEF IntentOf, ActiveOpen
  <2>2. rt.active \in Nat
    BY DEF DriveInv, RecordsOK, States
  <2> QED BY <1>5, <2>1, <2>2 DEF HoldPlans, OpenAt, OpenIn
<1>6. CASE /\ ~(plan \in {"cancel", "ended"} /\ Open # {})
           /\ plan # "stray" /\ plan # "launch"
  <2>1. IntentOf(plan) = 0
    BY <1>6 DEF IntentOf
  <2> QED BY <1>6, <2>1
<1> QED BY <1>3, <1>4, <1>5, <1>6

LEMMA PendingEntry ==
  ASSUME Pending # {}
  PROVE  Oldest(Pending) \in Entries
<1>1. Pending \subseteq Nat /\ Pending \subseteq Entries
  BY DEF Pending, Entries
<1> QED BY <1>1, OldestIn

LEMMA DispositionFacts ==
  ASSUME NEW g \in Goals, NEW e
  PROVE  /\ Disposition(g, e) \in Dispositions
         /\ Disposition(g, e) = "terminal" <=> Terminal(g)
         /\ Disposition(g, e) = "applied" => ~Terminal(g) /\ g.status = "waiting"
<1>1. g.waiting # "none" => g.status = "waiting"
  BY DEF Goals
<1> DEFINE stale == inbox[e].dated < g.waits
<1>2. Disposition(g, e) =
        IF Terminal(g) THEN "terminal"
        ELSE IF g.waiting = "none" THEN "unmatched"
        ELSE IF stale THEN "stale"
        ELSE IF g.waiting = "event" THEN "applied" ELSE "unmatched"
  BY DEF Disposition
<1> HIDE DEF stale
<1> QED BY <1>1, <1>2 DEF Dispositions

LEMMA NextFacts ==
  ASSUME DriveInv, NEW plan \in Plans, NEW g \in Goals,
         plan = "time" => ~Terminal(g),
         plan = "link" => g.status = "active" /\ ActiveOpen,
         plan = "auto" => g.status = "active"
  PROVE  /\ GoalOf(plan, g) \in SomeGoal
         /\ GoalOf(plan, g) # NoGoal =>
              GoalOf(plan, g).status \in NextStatuses(plan) /\ Follows(plan, g, GoalOf(plan, g))
         /\ plan = "cancel" /\ GoalOf(plan, g) = NoGoal => Terminal(g)
         /\ plan = "settle" =>
              (Disposition(g, Oldest(Pending)) = "applied" <=> GoalOf(plan, g) # NoGoal)
<1>1. \A h \in Goals : h # NoGoal /\ h \in SomeGoal
  BY NoRecord DEF SomeGoal
<1>2. NoGoal \in SomeGoal
  BY DEF SomeGoal
<1>3. CASE plan = "cancel" /\ ~Terminal(g)
  <2>1. GoalOf(plan, g) = Cancelled(g)
    BY <1>3 DEF GoalOf
  <2> QED BY <1>1, <1>3, <2>1, CancelledGoal DEF NextStatuses, Follows
<1>4. CASE plan = "time"
  <2>1. GoalOf(plan, g) = Ended(g, "failed")
    BY <1>4 DEF GoalOf
  <2> QED BY <1>1, <1>4, <2>1, EndedGoal DEF NextStatuses, Follows
<1>5. CASE plan = "settle" /\ Disposition(g, Oldest(Pending)) = "applied"
  <2>1. GoalOf(plan, g) = Active(g)
    BY <1>5 DEF GoalOf
  <2>2. ~Terminal(g) /\ g.status = "waiting"
    BY <1>5, DispositionFacts
  <2> QED BY <1>1, <1>5, <2>1, <2>2, ActiveGoal DEF NextStatuses, Follows
<1>6. CASE plan = "link"
  <2> DEFINE run == intents[rt.active].run
  <2>1. GoalOf(plan, g) = [g EXCEPT !.run = run]
    BY <1>6 DEF GoalOf
  <2>2. intents[rt.active] \in Intents
    BY <1>6, IntentsDomain DEF DriveInv, ActiveOpen, OpenAt
  <2>3. run \in Nat
    BY <2>2 DEF Intents, Runs
  <2> HIDE DEF run
  <2>4. /\ GoalOf(plan, g) \in Goals /\ GoalOf(plan, g).status = g.status
        /\ GoalOf(plan, g).spent = g.spent
    BY <2>1, <2>3 DEF Goals, GoalStatuses
  <2>5. ~Terminal(g)
    BY <1>6 DEF Terminal
  <2> QED BY <1>1, <1>6, <2>4, <2>5 DEF NextStatuses, Follows
<1>7. CASE plan = "auto"
  <2> DEFINE run == rt.runs + 1
  <2>1. GoalOf(plan, g) = [g EXCEPT !.run = run]
    BY <1>7 DEF GoalOf
  <2>2. run \in Nat
    BY DEF DriveInv, RecordsOK, States
  <2> HIDE DEF run
  <2>3. /\ GoalOf(plan, g) \in Goals /\ GoalOf(plan, g).status = g.status
        /\ GoalOf(plan, g).spent = g.spent
    BY <2>1, <2>2 DEF Goals, GoalStatuses
  <2>4. ~Terminal(g)
    BY <1>7 DEF Terminal
  <2> QED BY <1>1, <1>7, <2>3, <2>4 DEF NextStatuses, Follows
<1>8. CASE /\ ~(plan = "cancel" /\ ~Terminal(g)) /\ plan \notin {"time", "link", "auto"}
           /\ ~(plan = "settle" /\ Disposition(g, Oldest(Pending)) = "applied")
  <2>1. GoalOf(plan, g) = NoGoal
    BY <1>8 DEF GoalOf
  <2> QED BY <1>2, <1>8, <2>1
<1> QED BY <1>3, <1>4, <1>5, <1>6, <1>7, <1>8

LEMMA DecideFits ==
  ASSUME DriveInv, NEW s \in Supervisors, Decide(s)
  PROVE  DriveInv'
<1> DEFINE x == drive[s]
           g == x.seen
           plan == StepFor(s)
           i == IntentOf(plan)
           next == GoalOf(plan, g)
           pc == IF i # 0 THEN "claiming" ELSE "writing"
           copy == IF i # 0 THEN intents[i] ELSE NoIntent
           last == Open \subseteq {i}
           fresh == IF next = NoGoal THEN TRUE ELSE x.goalFresh
           entry == IF plan = "settle" THEN Oldest(Pending) ELSE 0
           as == IF plan = "settle" THEN Disposition(g, Oldest(Pending)) ELSE "none"
           starts == plan = "settle" /\ Startable(s, IF next = NoGoal THEN g ELSE next)
           v == At(x, pc)
           y == [v EXCEPT !.plan = plan, !.at = i, !.copy = copy, !.last = last, !.next = next,
                          !.goalFresh = fresh, !.entry = entry, !.as = as, !.starts = starts]
<1>1. UNCHANGED <<store, ledger, lease>> /\ x.pc = "reading"
  BY DEF Decide, In, runs
<1>2. lease.token' \in Nat
  BY <1>1 DEF DriveInv, RecordsOK
<1>3. CASE plan = "stop"
  <2>1. Go(s, At(drive[s], "ending"))
    BY <1>3 DEF Decide, Stop
  <2> QED BY <1>1, <1>2, <2>1, RestStep
<1>4. CASE plan # "stop"
  <2>1. Go(s, y)
    BY <1>4 DEF Decide
  <2>2. x \in Drives /\ PlanFits(x) /\ GoalFits(x, goal)
    BY DriveOf
  <2>3. /\ g \in Goals /\ (Terminal(g) => Terminal(goal)) /\ (x.goalFresh => g = goal)
        /\ x.goalFresh \in BOOLEAN
    BY <1>1, <2>2 DEF PlanFits, GoalFits, ReadPcs, Drives, SomeGoal
  <2>4. /\ plan \in {"cancel", "time", "settle", "ended", "stray", "link", "launch",
                     "retry", "resume", "auto"}
        /\ plan = "cancel" => rt.cancel = "asked"
        /\ plan = "time" => ~Terminal(g)
        /\ plan = "settle" => Pending # {}
        /\ plan = "ended" => Terminal(g)
        /\ plan = "stray" => Strays # {}
        /\ plan = "link" => g.status = "active" /\ ActiveOpen
        /\ plan = "launch" => ActiveOpen /\ Strays = {}
        /\ plan \in {"retry", "resume"} => rt.active # 0
        /\ plan = "auto" => rt.cancel = "none" /\ rt.runs < MaxRuns /\ g.status = "active"
    BY <1>4, StepFacts
  <2> HIDE DEF plan
  <2>5. plan \in Plans
    BY <2>4 DEF Plans, StepPlans, HoldPlans
  <2>6. /\ i \in Nat /\ (i # 0 => plan \in HoldPlans /\ OpenIn(intents, i))
        /\ plan = "stray" => i # 0 /\ i # rt.active
        /\ plan = "launch" => i # 0 /\ i = rt.active
    BY <2>4, <2>5, IntentFacts
  <2> HIDE DEF g
  <2>7. /\ next \in SomeGoal
        /\ next # NoGoal => next.status \in NextStatuses(plan) /\ Follows(plan, g, next)
        /\ plan = "cancel" /\ next = NoGoal => Terminal(g)
        /\ plan = "settle" => (Disposition(g, Oldest(Pending)) = "applied" <=> next # NoGoal)
    BY <2>3, <2>4, <2>5, NextFacts
  <2> HIDE DEF i, next
  <2>8. i = 0 => plan \in StepPlans
    BY <2>4, <2>6 DEF StepPlans
  <2>9. pc \in Pcs /\ pc \in {"claiming", "writing"} /\ (pc = "claiming" <=> i # 0)
    BY DEF Pcs, HoldPcs
  <2>10. /\ i # 0 => /\ i \in DOMAIN intents /\ intents[i] \in Intents
                     /\ copy = intents[i] /\ copy # NoIntent /\ copy.status \in OpenStatuses
                     /\ copy.run <= rt.runs
         /\ i = 0 => copy = NoIntent
         /\ copy \in SomeIntent
    <3>1. CASE i # 0
      <4>1. i \in DOMAIN intents /\ intents[i].status \in OpenStatuses
        BY <2>6, <3>1 DEF OpenIn
      <4>2. intents[i] \in Intents
        BY <4>1, IntentsDomain DEF DriveInv
      <4>3. intents[i] # NoIntent
        BY <4>2, NoRecord
      <4>4. intents[i].run <= rt.runs
        BY <4>1 DEF DriveInv, AllFit, Refers
      <4> QED BY <3>1, <4>1, <4>2, <4>3, <4>4 DEF SomeIntent
    <3>2. CASE i = 0
      BY <3>2 DEF SomeIntent
    <3> QED BY <3>1, <3>2
  <2>11. /\ entry \in SomeEntry /\ (plan = "settle" => entry \in Entries)
         /\ as \in Answers /\ (as # "none" <=> plan = "settle")
         /\ as = "terminal" => Terminal(g)
         /\ plan = "settle" => (as = "applied" <=> next # NoGoal)
    <3>1. plan = "settle" => Oldest(Pending) \in Entries
      BY <2>4, PendingEntry
    <3>2. /\ Disposition(g, Oldest(Pending)) \in Dispositions
          /\ Disposition(g, Oldest(Pending)) = "terminal" <=> Terminal(g)
      BY <2>3, DispositionFacts
    <3> QED BY <2>7, <3>1, <3>2 DEF SomeEntry, Answers, Dispositions
  <2>12. /\ starts \in BOOLEAN
         /\ starts => /\ plan = "settle" /\ as # "terminal"
                      /\ rt.cancel = "none" /\ rt.runs < MaxRuns
    <3>1. starts => plan = "settle" /\ rt.cancel = "none" /\ rt.runs < MaxRuns
      BY DEF Startable
    <3>2. starts /\ next = NoGoal => g.status = "active"
      BY DEF Startable
    <3>3. starts /\ next # NoGoal => ~Terminal(g)
      BY <2>7 DEF Follows
    <3>4. starts => ~Terminal(g)
      BY <3>2, <3>3 DEF Terminal
    <3>5. starts \in BOOLEAN
      OBVIOUS
    <3> QED BY <2>11, <3>1, <3>4, <3>5
  <2>13. /\ fresh \in BOOLEAN /\ last \in BOOLEAN
         /\ next # NoGoal /\ fresh => x.goalFresh
    BY <2>3
  <2>14. plan = "launch" => \A j \in DOMAIN intents : OpenIn(intents, j) => j = i
    BY <2>4, <2>6 DEF Strays, Open, OpenAt, OpenIn
  <2>15. plan = "launch" => rt.active = i /\ Named(goal, rt, intents)
    BY <2>6 DEF Named
  <2> HIDE DEF pc, copy, last, fresh, entry, as, starts
  <2>16. /\ v \in Drives /\ v.pc = pc /\ v.seen = NoGoal /\ v.leg = "none"
         /\ v.rtFresh = TRUE /\ v.copyFresh = TRUE
    BY <2>2, <2>9, AtDrive
  <2> HIDE DEF v, x
  <2>17. y \in Drives
    BY <2>5, <2>6, <2>7, <2>10, <2>11, <2>12, <2>13, <2>16 DEF Drives
  <2>18. y.pc = pc /\ y.seen = NoGoal /\ y.plan = plan /\ y.at = i /\ y.copy = copy
    BY <2>16 DEF Drives
  <2>19. y.next = next /\ y.goalFresh = fresh /\ y.entry = entry /\ y.as = as
    BY <2>16 DEF Drives
  <2>20. y.starts = starts /\ y.leg = "none"
    BY <2>16 DEF Drives
  <2> HIDE DEF y
  <2>21. pc \notin LegPcs /\ pc \notin ReadPcs /\ pc \in PlannedPcs /\ pc \notin {"saved", "noting", "settled"}
    BY <2>9 DEF LegPcs, ReadPcs, PlannedPcs, HoldPcs
  <2>22. PlanFits(y)
    <3>1. y.starts => y.plan = "settle" /\ y.as # "terminal"
      BY <2>12, <2>18, <2>19, <2>20
    <3>2. /\ y.as # "none" <=> y.plan = "settle"
          /\ y.plan = "settle" => y.entry \in Entries /\ (y.as = "applied" <=> y.next # NoGoal)
      BY <2>11, <2>18, <2>19
    <3> QED BY <2>6, <2>8, <2>9, <2>18, <2>21, <3>1, <3>2 DEF PlanFits
  <2>23. AtFits(y, rt, intents)
    <3>1. pc \in HoldPcs => i # 0
      BY <2>9 DEF HoldPcs
    <3>2. i # 0 => plan # "supersede"
      BY <2>4
    <3>3. plan # "supersede"
      BY <2>4
    <3> QED BY <2>6, <2>10, <2>18, <2>21, <3>1, <3>3 DEF AtFits
  <2>24. GoalFits(y, goal)
    <3>1. y.next # NoGoal /\ y.goalFresh => Follows(y.plan, goal, y.next)
      BY <2>3, <2>7, <2>13, <2>18, <2>19
    <3>2. ~Terminal(y.seen)
      BY <2>18, NoRecord
    <3> QED BY <2>3, <2>4, <2>7, <2>11, <2>18, <2>19, <2>21, <3>1, <3>2 DEF GoalFits
  <2>25. StateFits(y, goal, rt, intents)
    <3>1. plan \notin {"elsewhere", "drained"}
      BY <2>4
    <3> QED BY <2>4, <2>12, <2>14, <2>15, <2>18, <2>20, <3>1 DEF StateFits
  <2>26. ChargeFits(y, intents, mark, ledger) /\ ~InLeg(y)
    BY <2>18, <2>21 DEF ChargeFits, InLeg, LegPcs
  <2>27. Fits(y, goal, rt, intents, mark, ledger)
    BY <2>22, <2>23, <2>24, <2>25, <2>26 DEF Fits
  <2> QED BY <1>1, <1>2, <2>1, <2>17, <2>26, <2>27, GoFits
<1> QED BY <1>3, <1>4

-----------------------------------------------------------------------------
(* Settling a leg. *)

LEMMA OutcomeFacts ==
  ASSUME NEW g, NEW leg \in Ways, NEW verdict
  PROVE  /\ Outcome(g, leg, verdict) \in LegPlans
         /\ Outcome(g, leg, verdict) = "cancel" => rt.cancel = "asked" \/ ~Terminal(g)
         /\ Outcome(g, leg, verdict) = "ended" => Terminal(g)
         /\ Outcome(g, leg, verdict) \notin {"cancel", "ended"} => ~Terminal(g)
<1> DEFINE judged == IF verdict = "pass" /\ ~g.accepted THEN "verdict"
                     ELSE IF verdict = "broken" THEN "stopped" ELSE "done"
           o == Outcome(g, leg, verdict)
           ended == Terminal(g)
<1>1. judged \in {"verdict", "stopped", "done"}
  OBVIOUS
<1>2. CASE rt.cancel = "asked" \/ (leg = "cancelled" /\ ~ended)
  <2>1. o = "cancel"
    BY <1>2 DEF Outcome
  <2> QED BY <1>2, <2>1 DEF LegPlans
<1>3. CASE ~(rt.cancel = "asked" \/ (leg = "cancelled" /\ ~ended)) /\ ended
  <2>1. o = "ended"
    BY <1>3 DEF Outcome
  <2> QED BY <1>3, <2>1 DEF LegPlans
<1>4. CASE ~(rt.cancel = "asked" \/ (leg = "cancelled" /\ ~ended)) /\ ~ended
  <2>1. o = CASE leg = "elsewhere" -> "elsewhere"
              [] leg \in {"failed", "threw"} -> "retrying"
              [] leg = "drained" -> "drained"
              [] leg = "completed" -> judged
              [] leg = "suspended" -> "suspended"
              [] leg = "stopped" -> "stopped"
    BY <1>4 DEF Outcome
  <2>2. leg \in {"completed", "suspended", "failed", "stopped", "threw", "drained", "elsewhere"}
    BY <1>4 DEF Ways
  <2> HIDE DEF judged, ended, o
  <2>3. o \in {"elsewhere", "retrying", "drained", "verdict", "stopped", "done", "suspended"}
    BY <1>1, <2>1, <2>2
  <2> QED BY <1>4, <2>3 DEF LegPlans, ended, o
<1> QED BY <1>2, <1>3, <1>4

LEMMA LegGoalFacts ==
  ASSUME NEW plan \in LegPlans, NEW g \in Goals, plan \notin {"cancel", "ended"} => ~Terminal(g)
  PROVE  /\ LegGoal(plan, g) \in SomeGoal
         /\ LegGoal(plan, g) # NoGoal =>
              LegGoal(plan, g).status \in NextStatuses(plan) /\ Follows(plan, g, LegGoal(plan, g))
         /\ plan = "cancel" /\ LegGoal(plan, g) = NoGoal => Terminal(g)
<1>1. \A h \in Goals : h # NoGoal /\ h \in SomeGoal
  BY NoRecord DEF SomeGoal
<1>2. NoGoal \in SomeGoal
  BY DEF SomeGoal
<1>3. CASE plan = "cancel" /\ ~Terminal(g)
  <2>1. LegGoal(plan, g) = Cancelled(g)
    BY <1>3 DEF LegGoal
  <2> QED BY <1>1, <1>3, <2>1, CancelledGoal DEF NextStatuses, Follows
<1>4. CASE plan = "verdict"
  <2>1. LegGoal(plan, g) = Accepted(g)
    BY <1>4 DEF LegGoal
  <2>2. ~Terminal(g) /\ g.status \in {"active", "waiting"}
    BY <1>4 DEF Goals, GoalStatuses, Terminal
  <2> QED BY <1>1, <1>4, <2>1, <2>2, AcceptedGoal DEF NextStatuses, Follows
<1>5. CASE plan \in {"stopped", "suspended"}
  <2>1. LegGoal(plan, g) = WaitForHost(g)
    BY <1>5 DEF LegGoal
  <2>2. CASE WaitForHost(g) = NoGoal
    BY <1>2, <1>5, <2>1, <2>2
  <2>3. CASE WaitForHost(g) # NoGoal
    BY <1>1, <1>5, <2>1, <2>3, WaitForHostGoal DEF NextStatuses, Follows
  <2> QED BY <2>2, <2>3
<1>6. CASE plan = "done"
  <2>1. LegGoal(plan, g) = Complete(g)
    BY <1>6 DEF LegGoal
  <2>2. CASE Complete(g) = NoGoal
    BY <1>2, <1>6, <2>1, <2>2
  <2>3. CASE Complete(g) # NoGoal
    BY <1>1, <1>6, <2>1, <2>3, CompleteGoal DEF NextStatuses, Follows
  <2> QED BY <2>2, <2>3
<1>7. CASE /\ ~(plan = "cancel" /\ ~Terminal(g))
           /\ plan \notin {"verdict", "stopped", "suspended", "done"}
  <2>1. LegGoal(plan, g) = NoGoal
    BY <1>7 DEF LegGoal
  <2> QED BY <1>2, <1>7, <2>1
<1> QED BY <1>3, <1>4, <1>5, <1>6, <1>7

LEMMA WeighFits ==
  ASSUME DriveInv, NEW s \in Supervisors, Weigh(s)
  PROVE  DriveInv'
<1> DEFINE x == drive[s]
           g == x.seen
           held == intents[x.at]
<1>1. UNCHANGED <<store, ledger, lease>> /\ x.pc = "weighing"
  BY DEF Weigh, In, runs
<1>2. lease.token' \in Nat
  BY <1>1 DEF DriveInv, RecordsOK
<1>3. CASE held.token # x.token \/ held.status \notin OpenStatuses
  <2>1. Go(s, At(drive[s], "ending"))
    BY <1>3 DEF Weigh, Stop
  <2> QED BY <1>1, <1>2, <2>1, RestStep
<1>4. CASE ~(held.token # x.token \/ held.status \notin OpenStatuses)
  <2>1. PICK verdict \in Judged(g, x.leg, x.verdict) :
          Go(s, [Settling(x) EXCEPT
                   !.pc = IF Outcome(g, x.leg, verdict) = "drained" /\ held.status = "claimed"
                          THEN "noting" ELSE "settled",
                   !.plan = Outcome(g, x.leg, verdict), !.copy = held, !.verdict = verdict,
                   !.next = LegGoal(Outcome(g, x.leg, verdict), g), !.tries = x.tries,
                   !.goalFresh = IF LegGoal(Outcome(g, x.leg, verdict), g) = NoGoal
                                 THEN TRUE ELSE x.goalFresh])
    BY <1>4 DEF Weigh
  <2> DEFINE plan == Outcome(g, x.leg, verdict)
             next == LegGoal(plan, g)
             pc == IF plan = "drained" /\ held.status = "claimed" THEN "noting" ELSE "settled"
             fresh == IF next = NoGoal THEN TRUE ELSE x.goalFresh
             v == Settling(x)
             tries == x.tries
             y == [v EXCEPT !.pc = pc, !.plan = plan, !.copy = held, !.verdict = verdict,
                            !.next = next, !.tries = tries, !.goalFresh = fresh]
  <2>2. Go(s, y)
    BY <2>1
  <2>3. x \in Drives /\ PlanFits(x) /\ AtFits(x, rt, intents) /\ GoalFits(x, goal)
    BY DriveOf
  <2>4. /\ g \in Goals /\ (Terminal(g) => Terminal(goal)) /\ (x.goalFresh => g = goal)
        /\ x.goalFresh \in BOOLEAN /\ tries \in Nat
    BY <1>1, <2>3 DEF PlanFits, GoalFits, ReadPcs, Drives, SomeGoal
  <2>5. /\ x.leg \in Ways /\ x.leg # "none" /\ x.at # 0 /\ x.at \in DOMAIN intents
        /\ x.verdict \in Judgements /\ InLeg(drive[s])
    BY <1>1, <2>3 DEF PlanFits, AtFits, LegPcs, Drives, Legs, InLeg
  <2>6. held \in Intents /\ held # NoIntent /\ held.status \in OpenStatuses
    BY <1>4, <2>5, IntentAt, NoRecord
  <2>7. held.run <= rt.runs
    BY <2>5 DEF DriveInv, AllFit, Refers
  <2>8. Named(goal, rt, intents)
    <3>1. OpenIn(intents, drive[s].at)
      BY <2>5, <2>6 DEF OpenIn
    <3> QED BY <2>5, <3>1 DEF DriveInv, AllFit, LegsAgree
  <2>9. verdict \in Judgements
    BY <2>1, <2>5 DEF Judged, Judgements
  <2>10. /\ plan \in LegPlans /\ (plan = "cancel" => rt.cancel = "asked" \/ ~Terminal(g))
         /\ plan = "ended" => Terminal(g)
         /\ plan \notin {"cancel", "ended"} => ~Terminal(g)
    BY <2>5, OutcomeFacts
  <2> HIDE DEF plan
  <2>11. /\ next \in SomeGoal
         /\ next # NoGoal => next.status \in NextStatuses(plan) /\ Follows(plan, g, next)
         /\ plan = "cancel" /\ next = NoGoal => Terminal(g)
    BY <2>4, <2>10, LegGoalFacts
  <2> HIDE DEF next, g
  <2>12. plan \in Plans /\ pc \in Pcs /\ pc \in {"noting", "settled"}
         /\ (pc = "noting" => plan = "drained")
    BY <2>10 DEF Plans, Pcs, LegPcs
  <2>13. held \in SomeIntent /\ fresh \in BOOLEAN /\ (next # NoGoal /\ fresh => x.goalFresh)
    BY <2>4, <2>6 DEF SomeIntent
  <2>14. /\ v \in Drives /\ v.at = x.at /\ v.leg = x.leg /\ v.seen = NoGoal
         /\ v.as = "none" /\ ~v.starts
    BY <2>3, SettlingDrive
  <2> HIDE DEF pc, fresh, held, v, x, tries
  <2>15. y \in Drives
    BY <2>4, <2>9, <2>11, <2>12, <2>13, <2>14 DEF Drives
  <2>16. y.pc = pc /\ y.seen = NoGoal /\ y.plan = plan /\ y.at = x.at /\ y.copy = held
    BY <2>14 DEF Drives
  <2>17. y.next = next /\ (y.goalFresh <=> fresh) /\ y.as = "none" /\ ~y.starts /\ y.leg = x.leg
    BY <2>13, <2>14 DEF Drives
  <2> HIDE DEF y
  <2>18. PlanFits(y)
    BY <2>5, <2>10, <2>12, <2>16, <2>17
      DEF PlanFits, HoldPcs, PlannedPcs, ReadPcs, LegPcs, LegPlans
  <2>19. AtFits(y, rt, intents)
    <3>1. plan \notin {"supersede", "stray"}
      BY <2>10 DEF LegPlans
    <3>2. held = intents[y.at]
      BY <2>16 DEF held, x
    <3> QED BY <2>5, <2>6, <2>7, <2>16, <3>1, <3>2 DEF AtFits
  <2>20. GoalFits(y, goal)
    <3>1. y.next # NoGoal /\ y.goalFresh => Follows(y.plan, goal, y.next)
      BY <2>4, <2>11, <2>13, <2>16, <2>17
    <3>2. ~Terminal(y.seen)
      BY <2>16, NoRecord
    <3>3. y.pc \notin ReadPcs
      BY <2>12, <2>16 DEF ReadPcs
    <3> QED BY <2>4, <2>10, <2>11, <2>16, <2>17, <3>1, <3>2, <3>3 DEF GoalFits
  <2>21. StateFits(y, goal, rt, intents)
    <3>1. plan \notin {"launch", "auto", "retry", "resume"}
      BY <2>10 DEF LegPlans
    <3>2. plan = "cancel" => pc = "settled"
      BY <2>12
    <3>3. plan = "cancel" /\ next = NoGoal => rt.cancel = "asked"
      BY <2>10, <2>11
    <3> QED BY <2>8, <2>16, <2>17, <3>1, <3>2, <3>3 DEF StateFits
  <2>22. ChargeFits(y, intents, mark, ledger)
    BY <2>12, <2>16 DEF ChargeFits
  <2>23. Fits(y, goal, rt, intents, mark, ledger)
    BY <2>18, <2>19, <2>20, <2>21, <2>22 DEF Fits
  <2>24. y.at = drive[s].at
    BY <2>16 DEF x
  <2> QED BY <1>1, <1>2, <2>2, <2>5, <2>15, <2>23, <2>24, GoFits
<1> QED BY <1>3, <1>4

-----------------------------------------------------------------------------
(* One checked write of an intent alone. *)

LEMMA MarkFits ==
  ASSUME DriveInv, NEW s \in Supervisors, NEW y \in Drives, NEW i \in DOMAIN intents,
         NEW record \in Intents, record.run = intents[i].run,
         record.status \in OpenStatuses => intents[i].status \in OpenStatuses,
         intents' = [intents EXCEPT ![i] = record],
         drive' = [Overtaken({}, i) EXCEPT ![s] = y],
         UNCHANGED <<goal, rt, inbox, mark, ledger>>, lease.token' \in Nat,
         Named(goal, rt, intents) => Named(goal, rt, intents'),
         Fits(y, goal, rt, intents', mark, ledger),
         InLeg(y) => InLeg(drive[s]) /\ y.at = drive[s].at
  PROVE  DriveInv'
<1>1. goal' = goal /\ rt' = rt /\ inbox' = inbox /\ mark' = mark /\ ledger' = ledger
  OBVIOUS
<1>2. /\ intents' \in Seq(Intents) /\ DOMAIN intents' = DOMAIN intents
      /\ intents'[i] = record
      /\ \A j \in DOMAIN intents : j # i => intents'[j] = intents[j]
  BY OneChanges DEF DriveInv
<1>3. i # 0 /\ intents[i] \in Intents /\ intents[i].run \in Runs
  BY IntentsDomain DEF DriveInv, Intents
<1>4. \A j : OpenIn(intents', j) => OpenIn(intents, j)
  BY <1>2 DEF OpenIn
<1>5. \A t \in Supervisors : Spares(drive[t], i, rt, rt', intents, intents')
  <2> TAKE t \in Supervisors
  <2>1. CASE drive[t].at = 0
    BY <2>1 DEF Spares
  <2>2. CASE drive[t].at # 0
    <3>1. drive[t].at \in DOMAIN intents /\ intents[drive[t].at].run \in Runs
      BY <2>2, IntentAt
    <3> QED BY <1>1, <1>2, <3>1 DEF Spares
  <2> QED BY <2>1, <2>2
<1>6. Moves({}, i, goal, goal', rt, rt', intents, intents', mark, mark', ledger, ledger')
  <2>1. rt.runs \in Nat /\ mark \in [Runs -> Nat] /\ ledger \in [Runs -> Nat]
    BY DEF DriveInv, RecordsOK, States
  <2>2. \A x \in Runs : ledger[x] <= ledger'[x]
    BY <1>1, <2>1
  <2>3. rt.runs <= rt'.runs
    BY <1>1, <2>1
  <2> QED BY <1>1, <1>2, <1>3, <1>4, <2>1, <2>2, <2>3 DEF Moves
<1>7. Writes(s, y, {}, i)
  BY <1>5, <1>6 DEF Writes
<1>8. Fits(y, goal', rt', intents', mark', ledger')
  BY <1>1
<1>9. /\ drive' \in [Supervisors -> Drives] /\ drive'[s] = y
      /\ \A t \in Supervisors : t # s => Keeps(drive'[t], drive[t])
      /\ \A t \in Supervisors : Fits(drive'[t], goal', rt', intents', mark', ledger')
  BY <1>7, <1>8, WriteKeeps
<1>10. \A t \in Supervisors : InLeg(drive'[t]) => InLeg(drive[t]) /\ drive'[t].at = drive[t].at
  BY <1>9 DEF Keeps, InLeg
<1>11. \A t \in Supervisors : OpenIn(intents', drive[t].at) => OpenIn(intents, drive[t].at)
  BY <1>4
<1>12. Refers(goal', rt', intents')
  BY <1>1, <1>2 DEF DriveInv, AllFit, Refers
<1>13. /\ goal' \in Goals /\ rt' \in States /\ inbox' \in [Entries -> Deliveries]
       /\ mark' \in [Runs -> Nat] /\ ledger' \in [Runs -> Nat]
  BY <1>1 DEF DriveInv, RecordsOK
<1>14. Named(goal, rt, intents) => Named(goal', rt', intents')
  BY <1>1
<1> QED BY <1>2, <1>9, <1>10, <1>11, <1>12, <1>13, <1>14, StoreFits

(* A drive that holds the intent as it is now. *)
LEMMA HeldFits ==
  ASSUME DriveInv, NEW s \in Supervisors, drive[s].pc = "claiming",
         NEW y \in Drives, NEW I,
         \/ y.pc = "held" /\ y.plan = drive[s].plan
         \/ y.pc = "writing" /\ y.plan = "supersede" /\ drive[s].plan = "launch",
         y.copy = I[drive[s].at], y.at = drive[s].at,
         y.next = drive[s].next, y.seen = drive[s].seen, y.as = drive[s].as,
         y.starts <=> drive[s].starts, y.goalFresh <=> drive[s].goalFresh,
         y.rtFresh <=> drive[s].rtFresh, y.entry = drive[s].entry,
         DOMAIN I = DOMAIN intents, I[drive[s].at] \in Intents,
         I[drive[s].at].run = intents[drive[s].at].run,
         I[drive[s].at].status \in OpenStatuses,
         \A j : OpenIn(I, j) => OpenIn(intents, j),
         Named(goal, rt, intents) => Named(goal, rt, I)
  PROVE  Fits(y, goal, rt, I, mark, ledger)
<1> DEFINE x == drive[s]
<1>1. /\ x \in Drives /\ PlanFits(x) /\ AtFits(x, rt, intents) /\ GoalFits(x, goal)
      /\ StateFits(x, goal, rt, intents)
  BY DriveOf
<1>2. x.plan \in HoldPlans /\ x.at # 0 /\ x.at \in DOMAIN intents
  BY <1>1 DEF PlanFits, AtFits, HoldPcs
<1>3. intents[x.at].run <= rt.runs
  BY <1>2 DEF DriveInv, AllFit, Refers
<1>4. I[x.at] # NoIntent
  BY NoRecord
<1> HIDE DEF x
<1>5. y.as = "none" /\ ~y.starts /\ x.plan # "settle"
  BY <1>1, <1>2 DEF PlanFits, HoldPlans, x
<1>6. PlanFits(y)
  BY <1>2, <1>5 DEF PlanFits, HoldPcs, PlannedPcs, ReadPcs, LegPcs, StepPlans, x
<1>7. AtFits(y, rt, I)
  BY <1>1, <1>2, <1>3, <1>4 DEF AtFits, HoldPcs, LegPcs, x
<1>8. GoalFits(y, goal)
  <2>1. NextStatuses("launch") = {}
    BY DEF NextStatuses
  <2>2. x.plan = "launch" => x.next = NoGoal
    BY <1>1, <2>1 DEF GoalFits
  <2> QED BY <1>1, <1>5, <2>2 DEF GoalFits, ReadPcs, x
<1>9. StateFits(y, goal, rt, I)
  <2>1. \A j \in DOMAIN I : OpenIn(I, j) => OpenIn(intents, j) /\ j \in DOMAIN intents
    OBVIOUS
  <2>2. x.pc # "settled"
    BY DEF x
  <2>3. y.plan \notin {"auto", "retry", "resume", "elsewhere", "drained"}
    BY <1>2 DEF HoldPlans, x
  <2> QED BY <1>1, <1>5, <2>1, <2>2, <2>3 DEF StateFits, x
<1>10. ChargeFits(y, I, mark, ledger)
  BY DEF ChargeFits
<1> QED BY <1>6, <1>7, <1>8, <1>9, <1>10 DEF Fits

LEMMA ClaimFits ==
  ASSUME DriveInv, NEW s \in Supervisors, Claim(s)
  PROVE  DriveInv'
<1> DEFINE x == drive[s]
           i == x.at
           held == x.copy.status # "pending" /\ x.copy.token = x.token
           status == IF x.copy.status = "pending" THEN "claimed" ELSE x.copy.status
           claimed == [x.copy EXCEPT !.status = status, !.token = x.token]
<1>1. UNCHANGED <<goal, rt, inbox, mark, ledger, lease>> /\ drive[s].pc = "claiming"
  BY DEF Claim, In, runs
<1>2. lease.token' \in Nat
  BY <1>1 DEF DriveInv, RecordsOK
<1>3. x \in Drives /\ PlanFits(x) /\ AtFits(x, rt, intents)
  BY DriveOf
<1>4. /\ x.plan \in HoldPlans /\ i # 0 /\ i \in DOMAIN intents /\ x.copy # NoIntent
      /\ x.copy.status \in OpenStatuses
      /\ x.copyFresh => x.copy = intents[i]
  BY <1>1, <1>3 DEF PlanFits, AtFits, HoldPcs, HoldPlans
<1>5. intents[i] \in Intents /\ x.copy \in Intents /\ x.token \in Nat
  BY <1>3, <1>4, IntentsDomain DEF DriveInv, Drives, SomeIntent
<1>6. CASE held
  <2>1. Go(s, Onto(x, "held")) /\ intents' = intents
    BY <1>6 DEF Claim, Onto
  <2>2. PICK y : y = Onto(x, "held")
    OBVIOUS
  <2>3. "held" \in Pcs
    BY DEF Pcs, HoldPcs
  <2>4. /\ y \in Drives /\ y.pc = "held" /\ y.seen = x.seen
        /\ y.plan = x.plan /\ y.at = x.at /\ y.copy = x.copy
        /\ y.next = x.next /\ y.entry = x.entry
        /\ y.as = x.as /\ (y.starts <=> x.starts)
        /\ (y.goalFresh <=> x.goalFresh) /\ (y.rtFresh <=> x.rtFresh)
        /\ (y.copyFresh <=> x.copyFresh)
    BY <1>3, <2>2, <2>3, OntoDrive
  <2>5. /\ GoalFits(x, goal) /\ StateFits(x, goal, rt, intents)
    BY DriveOf
  <2>6. ~InLeg(y)
    BY <2>4 DEF InLeg, LegPcs
  <2> HIDE DEF x
  <2>7. PlanFits(y)
    BY <1>1, <1>3, <1>4, <2>4 DEF PlanFits, HoldPcs, PlannedPcs, ReadPcs, LegPcs, x
  <2>8. AtFits(y, rt, intents)
    BY <1>3, <1>4, <2>4 DEF AtFits
  <2>9. GoalFits(y, goal)
    BY <2>4, <2>5 DEF GoalFits, ReadPcs
  <2>10. StateFits(y, goal, rt, intents) /\ ChargeFits(y, intents, mark, ledger)
    BY <1>1, <2>4, <2>5 DEF StateFits, ChargeFits, x
  <2>11. Fits(y, goal, rt, intents, mark, ledger)
    BY <2>7, <2>8, <2>9, <2>10 DEF Fits
  <2>12. Go(s, y)
    BY <2>1, <2>2
  <2>13. UNCHANGED <<store, ledger>>
    BY <1>1, <2>1 DEF store
  <2> QED BY <1>2, <2>4, <2>6, <2>11, <2>12, <2>13, GoFits
<1>7. CASE ~held /\ Claimable(x)
  <2> DEFINE y == [x EXCEPT !.pc = "held", !.copy = claimed]
  <2>1. Mark(s, i, claimed, y)
    BY <1>7 DEF Claim
  <2>2. x.copy = intents[i] /\ status \in OpenStatuses
    BY <1>4, <1>7 DEF Claimable, OpenStatuses
  <2>3. claimed \in Intents /\ claimed.run = intents[i].run /\ claimed.status \in OpenStatuses
    <3> DEFINE c == x.copy
               token == x.token
    <3>1. c \in Intents /\ token \in Nat
      BY <1>5
    <3> HIDE DEF c, token, status
    <3>2. claimed = [c EXCEPT !.status = status, !.token = token]
      BY DEF c, token
    <3>3. /\ [c EXCEPT !.status = status, !.token = token] \in Intents
          /\ [c EXCEPT !.status = status, !.token = token].run = c.run
          /\ [c EXCEPT !.status = status, !.token = token].status = status
      BY <2>2, <3>1 DEF Intents
    <3>4. c.run = intents[i].run
      BY <2>2 DEF c
    <3> HIDE DEF claimed
    <3> QED BY <2>2, <3>2, <3>3, <3>4
  <2> HIDE DEF claimed, x
  <2>4. "held" \in Pcs /\ claimed \in SomeIntent
    BY <2>3 DEF Pcs, HoldPcs, SomeIntent
  <2>5. y \in Drives
    BY <1>3, <2>4 DEF Drives
  <2>6. /\ y.pc = "held" /\ y.seen = x.seen /\ y.plan = x.plan /\ y.at = x.at /\ y.copy = claimed
        /\ y.next = x.next /\ y.entry = x.entry
    BY <1>3 DEF Drives
  <2>7. /\ y.as = x.as /\ (y.starts <=> x.starts)
        /\ (y.goalFresh <=> x.goalFresh) /\ (y.rtFresh <=> x.rtFresh)
    BY <1>3 DEF Drives
  <2>8. intents' = [intents EXCEPT ![i] = claimed] /\ drive' = [Overtaken({}, i) EXCEPT ![s] = y]
    BY <2>1 DEF Mark
  <2>9. /\ intents' \in Seq(Intents) /\ DOMAIN intents' = DOMAIN intents
        /\ intents'[i] = claimed
        /\ \A j \in DOMAIN intents : j # i => intents'[j] = intents[j]
    BY <1>4, <2>3, <2>8, OneChanges DEF DriveInv
  <2> HIDE DEF y
  <2>10. /\ \A j : OpenIn(intents', j) <=> OpenIn(intents, j)
    BY <1>4, <2>2, <2>3, <2>9 DEF OpenIn
  <2>11. Named(goal, rt, intents) => Named(goal, rt, intents')
    BY <2>10 DEF Named
  <2>12. /\ y.at = drive[s].at /\ y.next = drive[s].next /\ y.seen = drive[s].seen
         /\ y.as = drive[s].as /\ (y.starts <=> drive[s].starts)
         /\ (y.goalFresh <=> drive[s].goalFresh)
         /\ (y.rtFresh <=> drive[s].rtFresh) /\ y.entry = drive[s].entry
         /\ y.plan = drive[s].plan
    BY <2>6, <2>7 DEF x
  <2>13. /\ y.copy = intents'[drive[s].at] /\ intents'[drive[s].at] \in Intents
         /\ intents'[drive[s].at].run = intents[drive[s].at].run
         /\ intents'[drive[s].at].status \in OpenStatuses
    BY <2>3, <2>6, <2>9 DEF x
  <2>14. Fits(y, goal, rt, intents', mark, ledger)
    <3>1. PICK J : J = intents'
      OBVIOUS
    <3>2. /\ y.copy = J[drive[s].at] /\ J[drive[s].at] \in Intents
          /\ J[drive[s].at].run = intents[drive[s].at].run
          /\ J[drive[s].at].status \in OpenStatuses
          /\ DOMAIN J = DOMAIN intents
          /\ \A j : OpenIn(J, j) => OpenIn(intents, j)
          /\ Named(goal, rt, intents) => Named(goal, rt, J)
      BY <2>9, <2>10, <2>11, <2>13, <3>1
    <3>3. Fits(y, goal, rt, J, mark, ledger)
      BY <1>1, <2>5, <2>6, <2>12, <3>2, HeldFits
    <3> QED BY <3>1, <3>3
  <2>15. ~InLeg(y)
    BY <2>6 DEF InLeg, LegPcs
  <2>16. claimed.status \in OpenStatuses => intents[i].status \in OpenStatuses
    BY <1>4, <2>2
  <2>17. i \in DOMAIN intents /\ claimed \in Intents /\ claimed.run = intents[i].run
    BY <1>4, <2>3
  <2>18. UNCHANGED <<goal, rt, inbox, mark, ledger>>
    BY <1>1
  <2> QED BY <1>2, <2>5, <2>8, <2>11, <2>14, <2>15, <2>16, <2>17, <2>18, MarkFits
<1>8. CASE ~held /\ ~Claimable(x) /\ ~StaleClaim(s)
  <2>1. intents' = intents /\ (Go(s, At(drive[s], "ending")) \/ Go(s, At(drive[s], "top")))
    BY <1>8 DEF Claim, Stop, Again
  <2>2. UNCHANGED <<store, ledger>>
    BY <1>1, <2>1 DEF store
  <2>3. CASE Go(s, At(drive[s], "ending"))
    BY <1>2, <2>2, <2>3, RestStep
  <2>4. CASE Go(s, At(drive[s], "top"))
    BY <1>2, <2>2, <2>4, RestStep
  <2> QED BY <2>1, <2>3, <2>4
<1>9. CASE ~held /\ ~Claimable(x) /\ StaleClaim(s)
  <2> DEFINE copy == intents[i]
             pc == IF x.plan = "launch" THEN "writing" ELSE "held"
             plan == IF x.plan = "launch" THEN "supersede" ELSE x.plan
             y == [x EXCEPT !.pc = pc, !.plan = plan, !.copy = copy, !.copyFresh = TRUE]
  <2>1. intents' = intents
    BY <1>9 DEF Claim
  <2>2. Go(s, y)
    <3>1. CASE x.plan = "launch"
      BY <1>9, <3>1 DEF Claim
    <3>2. CASE x.plan # "launch"
      <4>1. Go(s, [x EXCEPT !.pc = "held", !.copy = copy, !.copyFresh = TRUE])
        BY <1>9, <3>2 DEF Claim
      <4>2. y = [x EXCEPT !.pc = "held", !.plan = x.plan, !.copy = copy, !.copyFresh = TRUE]
        BY <3>2
      <4> HIDE DEF x, copy, y
      <4>3. y = [x EXCEPT !.pc = "held", !.copy = copy, !.copyFresh = TRUE]
        BY <1>3, <4>2 DEF Drives
      <4> QED BY <4>1, <4>3
    <3> QED BY <3>1, <3>2
  <2>3. copy \in Intents /\ copy.status \in OpenStatuses
    BY <1>5, <1>9 DEF StaleClaim, OpenAt
  <2>4. /\ pc \in Pcs /\ plan \in Plans /\ copy \in SomeIntent
        /\ \/ pc = "held" /\ plan = x.plan
           \/ pc = "writing" /\ plan = "supersede" /\ x.plan = "launch"
    BY <1>4, <2>3 DEF Pcs, HoldPcs, Plans, StepPlans, SomeIntent
  <2> HIDE DEF pc, plan, copy, x
  <2>5. y \in Drives
    BY <1>3, <2>4 DEF Drives
  <2>6. /\ y.pc = pc /\ y.seen = x.seen /\ y.plan = plan /\ y.at = x.at /\ y.copy = copy
        /\ y.next = x.next /\ y.entry = x.entry
    BY <1>3 DEF Drives
  <2>7. /\ y.as = x.as /\ (y.starts <=> x.starts)
        /\ (y.goalFresh <=> x.goalFresh) /\ (y.rtFresh <=> x.rtFresh)
    BY <1>3 DEF Drives
  <2> HIDE DEF y
  <2>8. /\ y.at = drive[s].at /\ y.next = drive[s].next /\ y.seen = drive[s].seen
        /\ y.as = drive[s].as /\ (y.starts <=> drive[s].starts)
        /\ (y.goalFresh <=> drive[s].goalFresh)
        /\ (y.rtFresh <=> drive[s].rtFresh) /\ y.entry = drive[s].entry
    BY <2>6, <2>7 DEF x
  <2>9. /\ y.copy = intents[drive[s].at] /\ intents[drive[s].at] \in Intents
        /\ intents[drive[s].at].status \in OpenStatuses
    BY <2>3, <2>6 DEF copy, x
  <2>10. \/ y.pc = "held" /\ y.plan = drive[s].plan
         \/ y.pc = "writing" /\ y.plan = "supersede" /\ drive[s].plan = "launch"
    BY <2>4, <2>6 DEF x
  <2>11. Fits(y, goal, rt, intents, mark, ledger)
    <3>1. PICK J : J = intents
      OBVIOUS
    <3>2. /\ y.copy = J[drive[s].at] /\ J[drive[s].at] \in Intents
          /\ J[drive[s].at].run = intents[drive[s].at].run
          /\ J[drive[s].at].status \in OpenStatuses
          /\ DOMAIN J = DOMAIN intents
          /\ \A j : OpenIn(J, j) => OpenIn(intents, j)
          /\ Named(goal, rt, intents) => Named(goal, rt, J)
      BY <2>9, <3>1
    <3>3. Fits(y, goal, rt, J, mark, ledger)
      BY <1>1, <2>5, <2>8, <2>10, <3>2, HeldFits
    <3> QED BY <3>1, <3>3
  <2>12. ~InLeg(y)
    BY <2>10 DEF InLeg, LegPcs
  <2>13. UNCHANGED <<store, ledger>>
    BY <1>1, <2>1 DEF store
  <2> QED BY <1>2, <2>2, <2>5, <2>11, <2>12, <2>13, GoFits
<1> QED BY <1>6, <1>7, <1>8, <1>9

LEMMA NoteLaunchedFits ==
  ASSUME DriveInv, NEW s \in Supervisors, NoteLaunched(s)
  PROVE  DriveInv'
<1> DEFINE x == drive[s]
           i == x.at
           launched == [x.copy EXCEPT !.status = "launched"]
           y == [x EXCEPT !.pc = "settled", !.copy = launched]
<1>1. UNCHANGED <<goal, rt, inbox, mark, ledger, lease>> /\ drive[s].pc = "noting"
  BY DEF NoteLaunched, In, runs
<1>2. lease.token' \in Nat
  BY <1>1 DEF DriveInv, RecordsOK
<1>3. /\ x \in Drives /\ PlanFits(x) /\ AtFits(x, rt, intents) /\ GoalFits(x, goal)
      /\ StateFits(x, goal, rt, intents)
  BY DriveOf
<1>4. /\ x.plan = "drained" /\ i # 0 /\ i \in DOMAIN intents /\ x.copy # NoIntent
      /\ x.copy.status \in OpenStatuses /\ x.leg # "none"
      /\ x.copyFresh => x.copy = intents[i]
      /\ InLeg(drive[s])
  BY <1>1, <1>3 DEF PlanFits, AtFits, HoldPcs, LegPcs, InLeg
<1>5. intents[i] \in Intents /\ intents[i].run <= rt.runs
  BY <1>4, IntentsDomain DEF DriveInv, AllFit, Refers
<1>6. CASE ~x.copyFresh
  <2>1. Go(s, SettleAgain(drive[s])) /\ intents' = intents
    BY <1>6 DEF NoteLaunched
  <2>2. UNCHANGED <<store, ledger>>
    BY <1>1, <2>1 DEF store
  <2>3. drive[s].pc \notin {"saved", "running"}
    BY <1>1
  <2> QED BY <1>2, <1>4, <2>1, <2>2, <2>3, SettleAgainStep
<1>7. CASE x.copyFresh
  <2>1. Mark(s, i, launched, y)
    BY <1>7 DEF NoteLaunched
  <2>2. x.copy = intents[i] /\ x.copy \in Intents
    BY <1>4, <1>5, <1>7
  <2>3. /\ launched \in Intents /\ launched.run = intents[i].run
        /\ launched.status \in OpenStatuses
    <3> DEFINE c == x.copy
    <3>1. c \in Intents
      BY <2>2
    <3> HIDE DEF c
    <3>2. launched = [c EXCEPT !.status = "launched"]
      BY DEF c
    <3>3. /\ [c EXCEPT !.status = "launched"] \in Intents
          /\ [c EXCEPT !.status = "launched"].run = c.run
          /\ [c EXCEPT !.status = "launched"].status = "launched"
      BY <3>1 DEF Intents, OpenStatuses
    <3>4. c.run = intents[i].run /\ "launched" \in OpenStatuses
      BY <2>2 DEF c, OpenStatuses
    <3> HIDE DEF launched
    <3> QED BY <3>2, <3>3, <3>4
  <2> HIDE DEF launched, x
  <2>4. "settled" \in Pcs /\ launched \in SomeIntent /\ launched # NoIntent
    BY <2>3, NoRecord DEF Pcs, LegPcs, SomeIntent
  <2>5. y \in Drives
    BY <1>3, <2>4 DEF Drives
  <2>6. /\ y.pc = "settled" /\ y.seen = x.seen /\ y.plan = x.plan /\ y.at = x.at
        /\ y.copy = launched /\ y.next = x.next /\ y.leg = x.leg
    BY <1>3 DEF Drives
  <2>7. /\ y.as = x.as /\ (y.starts <=> x.starts) /\ y.entry = x.entry
        /\ (y.goalFresh <=> x.goalFresh) /\ (y.rtFresh <=> x.rtFresh)
    BY <1>3 DEF Drives
  <2> HIDE DEF y
  <2>8. intents' = [intents EXCEPT ![i] = launched] /\ drive' = [Overtaken({}, i) EXCEPT ![s] = y]
    BY <2>1 DEF Mark
  <2>9. /\ intents' \in Seq(Intents) /\ DOMAIN intents' = DOMAIN intents
        /\ intents'[i] = launched
        /\ \A j \in DOMAIN intents : j # i => intents'[j] = intents[j]
    BY <1>4, <2>3, <2>8, OneChanges DEF DriveInv
  <2>10. intents[i].status \in OpenStatuses
    BY <1>4, <2>2
  <2>11. \A j : OpenIn(intents', j) <=> OpenIn(intents, j)
    BY <1>4, <2>3, <2>9, <2>10 DEF OpenIn
  <2>12. Named(goal, rt, intents) => Named(goal, rt, intents')
    BY <2>11 DEF Named
  <2>13. PlanFits(y)
    BY <1>3, <1>4, <2>6, <2>7
      DEF PlanFits, HoldPcs, PlannedPcs, ReadPcs, LegPcs, LegPlans, x
  <2>14. AtFits(y, rt, intents')
    <3>1. launched.run <= rt.runs
      BY <1>5, <2>3
    <3>2. launched = intents'[y.at]
      BY <2>6, <2>9
    <3> QED BY <1>4, <2>3, <2>4, <2>6, <2>9, <3>1, <3>2 DEF AtFits
  <2>15. GoalFits(y, goal)
    BY <1>3, <1>4, <2>6, <2>7 DEF GoalFits, ReadPcs
  <2>16. StateFits(y, goal, rt, intents')
    BY <1>3, <1>4, <2>6, <2>7, <2>12 DEF StateFits
  <2>17. ChargeFits(y, intents', mark, ledger)
    BY <2>6 DEF ChargeFits
  <2>18. Fits(y, goal, rt, intents', mark, ledger)
    BY <2>13, <2>14, <2>15, <2>16, <2>17 DEF Fits
  <2>19. y.at = drive[s].at
    BY <2>6 DEF x
  <2>20. i \in DOMAIN intents /\ UNCHANGED <<goal, rt, inbox, mark, ledger>>
    BY <1>1, <1>4
  <2> QED BY <1>2, <1>4, <2>3, <2>5, <2>8, <2>10, <2>12, <2>18, <2>19, <2>20, MarkFits
<1> QED BY <1>6, <1>7

-----------------------------------------------------------------------------
(* Checked writes of the runtime state by a drive. *)

(* A drive that found its write refused begins again. *)
LEMMA RefusedFits ==
  ASSUME DriveInv, NEW s \in Supervisors, Refused(s, Again(drive[s])) \/ Refused(s, Stop(drive[s])),
         UNCHANGED <<mark, ledger, lease>>
  PROVE  DriveInv'
<1>1. UNCHANGED <<store, ledger>> /\ lease.token' \in Nat
  BY DEF Refused, store, DriveInv, RecordsOK
<1>2. CASE Refused(s, Again(drive[s]))
  <2>1. Go(s, At(drive[s], "top"))
    BY <1>2 DEF Refused, Again
  <2> QED BY <1>1, <2>1, RestStep
<1>3. CASE Refused(s, Stop(drive[s]))
  <2>1. Go(s, At(drive[s], "ending"))
    BY <1>3 DEF Refused, Stop
  <2> QED BY <1>1, <2>1, RestStep
<1> QED BY <1>2, <1>3

(* What a drive that rests after its write leaves to show. *)
LEMMA SaveAtRest ==
  ASSUME DriveInv, NEW s \in Supervisors, NEW i, NEW state, NEW pc \in {"top", "ending"},
         SaveWith(s, i, state, At(drive[s], pc)),
         UNCHANGED <<inbox, mark, ledger, lease>>,
         intents' = intents \/ ClosesOne(i), i # 0 => i \in DOMAIN intents,
         drive[s].next # NoGoal => drive[s].goalFresh,
         StateMoves(rt, state), state.runs = rt.runs, state.active \in {0, rt.active},
         state.cancel = "applied" => rt.cancel = "applied" \/ Terminal(goal'),
         state.phase \in {"dispatching", "running", "draining"} => Named(goal', rt', intents'),
         \/ \A t \in Supervisors : InLeg(drive[t]) => ~OpenIn(intents', drive[t].at)
         \/ Named(goal, rt, intents) => Named(goal', rt', intents')
  PROVE  DriveInv'
<1>1. drive[s] \in Drives
  BY DriveOf
<1>2. PICK y : y = At(drive[s], pc)
  OBVIOUS
<1>3. y \in Drives /\ Fits(y, goal', rt', intents', mark', ledger') /\ ~InLeg(y)
  BY <1>1, <1>2, RestFits
<1>4. SaveWith(s, i, state, y)
  BY <1>2
<1>5. lease.token' \in Nat
  BY DEF DriveInv, RecordsOK
<1> QED BY <1>3, <1>4, <1>5, SaveFits

LEMMA StateFacts ==
  ASSUME DriveInv
  PROVE  /\ rt \in States /\ rt.runs \in Nat /\ rt.active \in Nat /\ rt.retries \in Nat
         /\ StateMoves(rt, rt)
         /\ Done(rt) \in States /\ Done(rt).runs = rt.runs /\ Done(rt).active = 0
         /\ Done(rt).phase = "done" /\ Done(rt).cancel = rt.cancel
         /\ StateMoves(rt, Done(rt))
         /\ CancelApplied(rt) \in States /\ CancelApplied(rt).runs = rt.runs
         /\ CancelApplied(rt).active = 0 /\ CancelApplied(rt).phase = "done"
         /\ CancelApplied(rt).cancel = "applied" /\ StateMoves(rt, CancelApplied(rt))
<1>1. rt \in States
  BY DEF DriveInv, RecordsOK
<1>2. rt.runs \in Nat /\ rt.active \in Nat /\ rt.retries \in Nat
  BY <1>1 DEF States
<1>3. /\ Done(rt) \in States /\ Done(rt).runs = rt.runs /\ Done(rt).active = 0
      /\ Done(rt).phase = "done" /\ Done(rt).cancel = rt.cancel
  BY <1>1 DEF Done, WithoutRun, States
<1>4. /\ CancelApplied(rt) \in States /\ CancelApplied(rt).runs = rt.runs
      /\ CancelApplied(rt).active = 0 /\ CancelApplied(rt).phase = "done"
      /\ CancelApplied(rt).cancel = "applied"
  BY <1>1 DEF CancelApplied, Done, WithoutRun, States
<1> QED BY <1>1, <1>2, <1>3, <1>4 DEF StateMoves

(* The goal a cancel, or an end, saves has ended. *)
LEMMA EndsTheGoal ==
  ASSUME DriveInv, NEW s \in Supervisors, drive[s].plan \in {"cancel", "ended"},
         drive[s].next # NoGoal => drive[s].goalFresh,
         goal' = IF drive[s].next = NoGoal THEN goal ELSE drive[s].next
  PROVE  Terminal(goal')
<1>1. GoalFits(drive[s], goal)
  BY DriveOf
<1>2. CASE drive[s].next = NoGoal
  BY <1>1, <1>2 DEF GoalFits
<1>3. CASE drive[s].next # NoGoal
  BY <1>1, <1>3 DEF GoalFits, NextStatuses, Terminal
<1> QED BY <1>2, <1>3

LEMMA CloseIntentFits ==
  ASSUME DriveInv, NEW s \in Supervisors, CloseIntent(s)
  PROVE  DriveInv'
<1> DEFINE x == drive[s]
           i == x.at
           ends == x.plan # "stray" /\ x.last
           closed == Finished(x.copy)
<1>1. UNCHANGED <<mark, ledger, lease>> /\ x.pc = "held" /\ x.plan # "launch"
  BY DEF CloseIntent, In, runs
<1>2. lease.token' \in Nat
  BY <1>1 DEF DriveInv, RecordsOK
<1>3. /\ x \in Drives /\ PlanFits(x) /\ AtFits(x, rt, intents) /\ GoalFits(x, goal)
      /\ StateFits(x, goal, rt, intents)
  BY DriveOf
<1>4. /\ x.plan \in {"cancel", "ended", "stray"} /\ i # 0 /\ i \in DOMAIN intents
      /\ x.copyFresh => x.copy = intents[i]
  BY <1>1, <1>3 DEF PlanFits, AtFits, HoldPcs, HoldPlans
<1>5. CASE ~(x.copyFresh /\ (ends => Current(s)))
  <2>1. Refused(s, Again(drive[s]))
    BY <1>5 DEF CloseIntent
  <2> QED BY <1>1, <2>1, RefusedFits
<1>6. CASE x.copyFresh /\ ~ends
  <2>1. Mark(s, i, closed, At(drive[s], "top")) /\ UNCHANGED <<goal, rt, inbox>>
    BY <1>6 DEF CloseIntent, Again
  <2>2. x.copy = intents[i] /\ x.copy \in Intents
    BY <1>4, <1>6, IntentsDomain DEF DriveInv
  <2>3. closed \in Intents /\ closed.run = intents[i].run /\ closed.status \notin OpenStatuses
    BY <2>2, FinishedIntent
  <2>4. PICK y : y = At(drive[s], "top")
    OBVIOUS
  <2>5. y \in Drives /\ Fits(y, goal, rt, intents', mark, ledger) /\ ~InLeg(y)
    BY <1>3, <2>4, RestFits
  <2>6. intents' = [intents EXCEPT ![i] = closed] /\ drive' = [Overtaken({}, i) EXCEPT ![s] = y]
    BY <2>1, <2>4 DEF Mark
  <2>7. Named(goal, rt, intents) => Named(goal, rt, intents')
    <3>1. CASE x.plan = "cancel"
      BY <1>1, <1>3, <3>1 DEF StateFits, Named
    <3>2. CASE x.plan = "ended"
      BY <1>3, <3>2 DEF GoalFits, Named
    <3>3. CASE x.plan = "stray"
      <4>1. rt.active # i
        BY <1>3, <3>3 DEF AtFits
      <4> HIDE DEF closed, x
      <4>2. \A j \in DOMAIN intents : j # i => intents'[j] = intents[j]
        BY <1>4, <2>3, <2>6, OneChanges DEF DriveInv
      <4>3. DOMAIN intents' = DOMAIN intents
        BY <2>6
      <4> QED BY <4>1, <4>2, <4>3 DEF Named, OpenIn
    <3> QED BY <1>4, <3>1, <3>2, <3>3
  <2> HIDE DEF closed
  <2>8. UNCHANGED <<goal, rt, inbox, mark, ledger>>
    BY <1>1, <2>1
  <2>9. closed.status \in OpenStatuses => intents[i].status \in OpenStatuses
    BY <2>3
  <2>10. i \in DOMAIN intents
    BY <1>4
  <2> QED BY <1>2, <2>3, <2>5, <2>6, <2>7, <2>8, <2>9, <2>10, MarkFits
<1>7. CASE x.copyFresh /\ ends /\ Current(s)
  <2> DEFINE state == IF x.plan = "cancel" THEN CancelApplied(rt) ELSE Done(rt)
  <2>1. /\ SaveWith(s, i, state, At(drive[s], "ending")) /\ UNCHANGED inbox
        /\ intents' = [intents EXCEPT ![i] = closed]
    BY <1>7 DEF CloseIntent, Stop
  <2>2. ClosesOne(i)
    BY <1>4, <1>7, <2>1 DEF ClosesOne
  <2>3. drive[s].next # NoGoal => drive[s].goalFresh
    BY <1>7 DEF Current
  <2>4. goal' = IF drive[s].next = NoGoal THEN goal ELSE drive[s].next
    BY <2>1 DEF SaveWith
  <2>5. x.plan \in {"cancel", "ended"}
    BY <1>4, <1>7
  <2>6. Terminal(goal')
    BY <2>3, <2>4, <2>5, EndsTheGoal
  <2>7. Named(goal', rt', intents')
    BY <2>6 DEF Named
  <2>8. StateMoves(rt, state) /\ state.runs = rt.runs /\ state.active \in {0, rt.active}
    BY StateFacts
  <2> HIDE DEF state
  <2>9. UNCHANGED <<inbox, mark, ledger, lease>> /\ i \in DOMAIN intents
    BY <1>1, <1>4, <2>1
  <2> QED BY <2>1, <2>2, <2>3, <2>6, <2>7, <2>8, <2>9, SaveAtRest
<1> QED BY <1>5, <1>6, <1>7

(* The steps that need no intent. *)
LEMMA WriteAsFits ==
  ASSUME DriveInv, NEW s \in Supervisors, NEW plan, NEW state, NEW pc \in {"top", "ending"},
         WriteAs(s, plan, state, At(drive[s], pc)),
         StateMoves(rt, state), state.runs = rt.runs, state.active \in {0, rt.active},
         \/ plan \in {"cancel", "ended"}
         \/ /\ state.cancel = rt.cancel /\ state.active = rt.active
            /\ state.phase \in {rt.phase, "done"}
  PROVE  DriveInv'
<1>1. UNCHANGED <<mark, ledger, lease>> /\ drive[s].plan = plan
  BY DEF WriteAs, Planned, runs
<1>2. CASE ~Current(s)
  <2>1. Refused(s, Again(drive[s]))
    BY <1>2 DEF WriteAs
  <2> QED BY <1>1, <2>1, RefusedFits
<1>3. CASE Current(s)
  <2>1. SaveWith(s, 0, state, At(drive[s], pc)) /\ UNCHANGED <<intents, inbox>>
    BY <1>3 DEF WriteAs, Save
  <2>2. drive[s].next # NoGoal => drive[s].goalFresh
    BY <1>3 DEF Current
  <2>3. goal' = (IF drive[s].next = NoGoal THEN goal ELSE drive[s].next) /\ rt' = state
    BY <2>1 DEF SaveWith
  <2>4. CASE plan \in {"cancel", "ended"}
    <3>1. Terminal(goal')
      BY <1>1, <2>2, <2>3, <2>4, EndsTheGoal
    <3>2. Named(goal', rt', intents')
      BY <3>1 DEF Named
    <3> QED BY <1>1, <2>1, <2>2, <3>1, <3>2, SaveAtRest
  <2>5. CASE state.cancel = rt.cancel /\ state.active = rt.active /\ state.phase \in {rt.phase, "done"}
    <3>1. Terminal(goal) => Terminal(goal')
      BY <2>2, <2>3, NextGoal
    <3>2. Named(goal, rt, intents) => Named(goal', rt', intents')
      BY <2>1, <2>3, <2>5, <3>1 DEF Named
    <3>3. Refers(goal, rt, intents)
      BY DEF DriveInv, AllFit
    <3>4. /\ state.cancel = "applied" => rt.cancel = "applied" \/ Terminal(goal')
          /\ state.phase \in {"dispatching", "running", "draining"} => Named(goal', rt', intents')
      BY <2>5, <3>2, <3>3 DEF Refers
    <3> QED BY <1>1, <2>1, <2>2, <3>2, <3>4, SaveAtRest
  <2> QED BY <2>4, <2>5
<1> QED BY <1>2, <1>3

LEMMA WritesFit ==
  ASSUME DriveInv, NEW s \in Supervisors,
         SaveCancel(s) \/ SaveEnded(s) \/ ApplyTime(s) \/ LinkRun(s)
  PROVE  DriveInv'
<1>1. CASE SaveCancel(s)
  <2>1. WriteAs(s, "cancel", CancelApplied(rt), At(drive[s], "ending"))
    BY <1>1 DEF SaveCancel, Stop
  <2> QED BY <2>1, StateFacts, WriteAsFits
<1>2. CASE SaveEnded(s)
  <2>1. WriteAs(s, "ended", Done(rt), At(drive[s], "ending"))
    BY <1>2 DEF SaveEnded, Stop
  <2> QED BY <2>1, StateFacts, WriteAsFits
<1>3. CASE ApplyTime(s)
  <2>1. PICK state : state = IF rt.active = 0 THEN [rt EXCEPT !.phase = "done"] ELSE rt
    OBVIOUS
  <2>2. WriteAs(s, "time", state, At(drive[s], "top"))
    BY <1>3, <2>1 DEF ApplyTime, Again
  <2>3. rt \in States /\ StateMoves(rt, rt)
    BY StateFacts
  <2>4. /\ state \in States /\ state.runs = rt.runs /\ state.active = rt.active
        /\ state.cancel = rt.cancel /\ state.phase \in {rt.phase, "done"}
    BY <2>1, <2>3 DEF States
  <2>5. StateMoves(rt, state)
    BY <2>3, <2>4 DEF StateMoves
  <2> QED BY <2>2, <2>4, <2>5, WriteAsFits
<1>4. CASE LinkRun(s)
  <2>1. WriteAs(s, "link", rt, At(drive[s], "top"))
    BY <1>4 DEF LinkRun, Again
  <2> QED BY <2>1, StateFacts, WriteAsFits
<1> QED BY <1>1, <1>2, <1>3, <1>4

(* What a drive about to launch its run relies on. *)
LEMMA LaunchFacts ==
  ASSUME DriveInv, NEW s \in Supervisors, drive[s].plan = "launch"
  PROVE  /\ drive[s].next = NoGoal
         /\ drive[s].rtFresh =>
              /\ rt.active = drive[s].at /\ Named(goal, rt, intents)
              /\ \A j \in DOMAIN intents : OpenIn(intents, j) => j = drive[s].at
<1>1. NextStatuses("launch") = {}
  BY DEF NextStatuses
<1>2. GoalFits(drive[s], goal) /\ StateFits(drive[s], goal, rt, intents)
  BY DriveOf
<1> QED BY <1>1, <1>2 DEF GoalFits, StateFits

LEMMA PhaseMoves ==
  ASSUME DriveInv,
         NEW phase \in {"idle", "dispatching", "running", "draining", "retrying", "done"},
         NEW state, state = [rt EXCEPT !.phase = phase]
  PROVE  /\ StateMoves(rt, state) /\ state.runs = rt.runs /\ state.active = rt.active
         /\ state.cancel = rt.cancel /\ state.phase = phase
<1>1. rt \in States
  BY StateFacts
<1>2. /\ state \in States /\ state.runs = rt.runs /\ state.active = rt.active
      /\ state.cancel = rt.cancel /\ state.phase = phase
  BY <1>1 DEF States
<1>3. rt.runs \in Nat
  BY StateFacts
<1> QED BY <1>2, <1>3 DEF StateMoves

LEMMA LaunchFits ==
  ASSUME DriveInv, NEW s \in Supervisors, Launch(s)
  PROVE  DriveInv'
<1> DEFINE x == drive[s]
           r == RunOf(s)
<1>1. UNCHANGED <<intents, inbox, mark, lease>> /\ x.pc = "saved"
  BY DEF Launch, In
<1>2. lease.token' \in Nat
  BY <1>1 DEF DriveInv, RecordsOK
<1>3. InLeg(drive[s]) /\ x.plan = "launch"
  BY <1>1, DriveOf DEF InLeg, LegPcs, PlanFits
<1>4. CASE x.lost
  <2>1. Go(s, At(drive[s], "ending")) /\ UNCHANGED <<rt, goal, ledger>>
    BY <1>4 DEF Launch, Stop, runs
  <2>2. UNCHANGED <<store, ledger>>
    BY <1>1, <2>1 DEF store
  <2> QED BY <1>2, <2>1, <2>2, RestStep
<1>5. CASE ~x.lost /\ s \in draining
  <2>1. CASE x.rtFresh
    <3>1. PICK state : state = [rt EXCEPT !.phase = "dispatching"]
      OBVIOUS
    <3>2. SaveWith(s, 0, state, At(drive[s], "ending")) /\ UNCHANGED ledger
      BY <1>5, <2>1, <3>1 DEF Launch, Save, Stop, runs
    <3>3. /\ StateMoves(rt, state) /\ state.runs = rt.runs /\ state.active = rt.active
          /\ state.cancel = rt.cancel
      <4>1. "dispatching" \in {"idle", "dispatching", "running", "draining", "retrying", "done"}
        OBVIOUS
      <4> QED BY <3>1, <4>1, PhaseMoves
    <3>4. drive[s].next = NoGoal /\ Named(goal, rt, intents)
      BY <1>3, <2>1, LaunchFacts
    <3>5. goal' = goal /\ rt' = state /\ intents' = intents
      BY <1>1, <3>2, <3>4 DEF SaveWith
    <3>6. Named(goal', rt', intents')
      BY <3>3, <3>4, <3>5 DEF Named
    <3>7. state.cancel = "applied" => rt.cancel = "applied"
      BY <3>3
    <3>8. UNCHANGED <<inbox, mark, ledger, lease>>
      BY <1>1, <3>2
    <3> QED BY <3>2, <3>3, <3>4, <3>5, <3>6, <3>7, <3>8, SaveAtRest
  <2>2. CASE ~x.rtFresh
    <3>1. Go(s, At(drive[s], "ending")) /\ UNCHANGED <<rt, goal, ledger>>
      BY <1>5, <2>2 DEF Launch, Stop, runs
    <3>2. UNCHANGED <<store, ledger>>
      BY <1>1, <3>1 DEF store
    <3> QED BY <1>2, <3>1, <3>2, RestStep
  <2> QED BY <2>1, <2>2
<1>6. CASE ~x.lost /\ s \notin draining
  <2>1. \E pc \in {"running", "charging"}, leg \in Legs :
          /\ pc # "running" => leg # "none"
          /\ Go(s, Leg(drive[s], pc, leg))
    <3>1. CASE exec[r] # Nobody
      <4>1. Go(s, Leg(drive[s], "charging", "elsewhere"))
        BY <1>6, <3>1 DEF Launch
      <4> QED BY <4>1 DEF Legs, Ways
    <3>2. CASE exec[r] = Nobody /\ Over(r, x.copy.kind)
      <4>1. Go(s, Leg(drive[s], "charging", native[r]))
        BY <1>6, <3>2 DEF Launch, StoredLeg
      <4>2. native[r] \in {"completed", "cancelled", "stopped", "failed"}
        BY <3>2 DEF Over
      <4>3. native[r] \in Legs /\ native[r] # "none"
        BY <4>2 DEF Legs, Ways
      <4> QED BY <4>1, <4>3
    <3>3. CASE exec[r] = Nobody /\ ~Over(r, x.copy.kind)
      <4>1. Go(s, Leg(drive[s], "running", "none"))
        BY <1>6, <3>3 DEF Launch
      <4> QED BY <4>1 DEF Legs, Ways
    <3> QED BY <3>1, <3>2, <3>3
  <2>2. UNCHANGED <<rt, goal, ledger>>
    BY <1>6 DEF Launch, runs
  <2>3. UNCHANGED <<store, ledger>>
    BY <1>1, <2>2 DEF store
  <2> QED BY <1>2, <1>3, <2>1, <2>3, LegStep
<1> QED BY <1>4, <1>5, <1>6

LEMMA SaveRunningFits ==
  ASSUME DriveInv, NEW s \in Supervisors, SaveRunning(s)
  PROVE  DriveInv'
<1> DEFINE x == drive[s]
<1>1. UNCHANGED <<mark, ledger, lease>> /\ x.pc = "held" /\ x.plan = "launch"
  BY DEF SaveRunning, Planned, In, runs
<1>2. lease.token' \in Nat
  BY <1>1 DEF DriveInv, RecordsOK
<1>3. CASE x.lost \/ s \in draining
  <2>1. Refused(s, Stop(drive[s]))
    BY <1>3 DEF SaveRunning, Refused
  <2> QED BY <1>1, <2>1, RefusedFits
<1>4. CASE ~(x.lost \/ s \in draining) /\ ~Current(s)
  <2>1. Refused(s, Again(drive[s]))
    BY <1>4 DEF SaveRunning
  <2> QED BY <1>1, <2>1, RefusedFits
<1>5. CASE ~(x.lost \/ s \in draining) /\ Current(s)
  <2>1. PICK state : state = [rt EXCEPT !.phase = "running"]
    OBVIOUS
  <2>2. PICK y : y = Onto(x, "saved")
    OBVIOUS
  <2>3. SaveWith(s, 0, state, y) /\ UNCHANGED <<intents, inbox>>
    BY <1>5, <2>1, <2>2 DEF SaveRunning, Save, Onto
  <2>4. /\ drive[s].next = NoGoal /\ x.rtFresh /\ rt.active = x.at /\ Named(goal, rt, intents)
        /\ \A j \in DOMAIN intents : OpenIn(intents, j) => j = x.at
    BY <1>1, <1>5, LaunchFacts DEF Current
  <2>5. /\ StateMoves(rt, state) /\ state.runs = rt.runs /\ state.active = rt.active
        /\ state.cancel = rt.cancel
    <3>1. "running" \in {"idle", "dispatching", "running", "draining", "retrying", "done"}
      OBVIOUS
    <3> QED BY <2>1, <3>1, PhaseMoves
  <2>6. goal' = goal /\ rt' = state /\ intents' = intents /\ mark' = mark /\ ledger' = ledger
    BY <1>1, <2>3, <2>4 DEF SaveWith
  <2>7. Named(goal', rt', intents')
    BY <2>4, <2>5, <2>6 DEF Named
  <2>8. x \in Drives /\ PlanFits(x) /\ AtFits(x, rt, intents) /\ GoalFits(x, goal)
    BY DriveOf
  <2>9. "saved" \in Pcs
    BY DEF Pcs, LegPcs
  <2>10. /\ y \in Drives /\ y.pc = "saved" /\ y.seen = x.seen
         /\ y.plan = x.plan /\ y.at = x.at /\ y.copy = x.copy
         /\ y.next = x.next /\ y.entry = x.entry
         /\ y.as = x.as /\ (y.starts <=> x.starts)
         /\ (y.goalFresh <=> x.goalFresh) /\ (y.rtFresh <=> x.rtFresh)
         /\ (y.copyFresh <=> x.copyFresh)
    BY <2>2, <2>8, <2>9, OntoDrive
  <2>11. Fits(y, goal', rt', intents', mark', ledger')
    <3>1. PlanFits(y)
      BY <1>1, <2>8, <2>10 DEF PlanFits, HoldPcs, PlannedPcs, ReadPcs, LegPcs
    <3>2. AtFits(y, rt', intents')
      <4>1. AtFits(y, rt, intents)
        BY <1>1, <2>8, <2>10 DEF AtFits, HoldPcs, LegPcs
      <4> QED BY <2>5, <2>6, <4>1 DEF AtFits
    <3>3. GoalFits(y, goal')
      BY <1>1, <2>6, <2>8, <2>10 DEF GoalFits, ReadPcs
    <3>4. ~y.starts
      BY <1>1, <2>10, <3>1 DEF PlanFits
    <3>5. StateFits(y, goal', rt', intents')
      BY <1>1, <2>4, <2>5, <2>6, <2>7, <2>10, <3>4 DEF StateFits
    <3>6. ChargeFits(y, intents', mark', ledger')
      BY <2>10 DEF ChargeFits
    <3> QED BY <3>1, <3>2, <3>3, <3>5, <3>6 DEF Fits
  <2>12. StateMoves(rt, rt') /\ rt'.active \in {0, rt.active}
    BY <2>5, <2>6
  <2>13. PICK W : W = {"rt"} \cup GoalWrite(drive[s].next)
    OBVIOUS
  <2>14. /\ Moves(W, 0, goal, goal', rt, rt', intents, intents', mark, mark', ledger, ledger')
         /\ \A t \in Supervisors : Spares(drive[t], 0, rt, rt', intents, intents')
    <3>1. goal' = IF drive[s].next = NoGoal THEN goal ELSE drive[s].next
      BY <2>3 DEF SaveWith
    <3>2. Terminal(goal) => Terminal(goal')
      BY <2>6
    <3> QED BY <2>6, <2>12, <2>13, <3>1, <3>2, SaveMoves
  <2>15. Writes(s, y, W, 0)
    BY <2>3, <2>13, <2>14 DEF Writes, SaveWith
  <2>16. /\ drive' \in [Supervisors -> Drives] /\ drive'[s] = y
         /\ \A t \in Supervisors : t # s => Keeps(drive'[t], drive[t])
         /\ \A t \in Supervisors : Fits(drive'[t], goal', rt', intents', mark', ledger')
    BY <2>10, <2>11, <2>15, WriteKeeps
  <2>17. LegsAgree(drive', goal', rt', intents')
    <3>1. \A t \in Supervisors : OpenIn(intents', drive'[t].at) => drive'[t].at = x.at
      BY <2>4, <2>6 DEF OpenIn
    <3> QED BY <2>7, <3>1 DEF LegsAgree
  <2>18. Refers(goal', rt', intents')
    BY <2>5, <2>6, <2>7 DEF DriveInv, AllFit, Refers
  <2>19. RecordsOK'
    BY <1>2, <2>3, <2>6, <2>12, <2>16 DEF DriveInv, RecordsOK, StateMoves
  <2> QED BY <2>16, <2>17, <2>18, <2>19 DEF DriveInv, AllFit
<1> QED BY <1>3, <1>4, <1>5

LEMMA LegStateFacts ==
  ASSUME DriveInv, NEW plan \in LegPlans, NEW next
  PROVE  /\ StateMoves(rt, LegState(plan, next)) /\ LegState(plan, next).runs = rt.runs
         /\ LegState(plan, next).active \in {0, rt.active}
         /\ plan = "cancel" => LegState(plan, next).cancel = "applied"
         /\ plan # "cancel" => LegState(plan, next).cancel = rt.cancel
         /\ plan \in {"cancel", "ended"} => LegState(plan, next).phase = "done"
         /\ plan \in {"elsewhere", "drained"} => LegState(plan, next).active = rt.active
         /\ plan = "verdict" => LegState(plan, next) = rt
         /\ plan \in {"retrying", "suspended", "stopped", "done"} =>
              LegState(plan, next).phase \in {"retrying", "idle", "done"}
<1>1. rt \in States /\ rt.runs \in Nat
  BY StateFacts
<1>2. CASE plan \in {"cancel", "ended"}
  <2>1. LegState(plan, next) = IF plan = "cancel" THEN CancelApplied(rt) ELSE Done(rt)
    BY <1>2 DEF LegState
  <2> QED BY <1>2, <2>1, StateFacts
<1>3. CASE plan \in {"elsewhere", "drained"}
  <2>1. LegState(plan, next) = [rt EXCEPT !.phase = "dispatching"]
    BY <1>3 DEF LegState
  <2>2. PICK state : state = [rt EXCEPT !.phase = "dispatching"]
    OBVIOUS
  <2>3. /\ state \in States /\ state.runs = rt.runs /\ state.active = rt.active
        /\ state.cancel = rt.cancel
    BY <1>1, <2>2 DEF States
  <2>4. LegState(plan, next) = state
    BY <2>1, <2>2
  <2>5. StateMoves(rt, state)
    BY <1>1, <2>3 DEF StateMoves
  <2> QED BY <1>3, <2>3, <2>4, <2>5
<1>4. CASE plan \in {"retrying", "suspended"}
  <2>1. LegState(plan, next) = IF plan = "retrying" THEN [rt EXCEPT !.phase = "retrying"]
                               ELSE [rt EXCEPT !.phase = "idle", !.retries = 0]
    BY <1>4 DEF LegState
  <2>2. PICK state : state = IF plan = "retrying" THEN [rt EXCEPT !.phase = "retrying"]
                             ELSE [rt EXCEPT !.phase = "idle", !.retries = 0]
    OBVIOUS
  <2>3. /\ state \in States /\ state.runs = rt.runs /\ state.active = rt.active
        /\ state.cancel = rt.cancel /\ state.phase \in {"retrying", "idle"}
    BY <1>1, <2>2 DEF States
  <2>4. LegState(plan, next) = state
    BY <2>1, <2>2
  <2>5. StateMoves(rt, state)
    BY <1>1, <2>3 DEF StateMoves
  <2> QED BY <1>4, <2>3, <2>4, <2>5
<1>5. CASE plan \in {"stopped", "done"}
  <2> DEFINE phase == IF plan = "done" /\ next # NoGoal /\ Terminal(next) THEN "done" ELSE "idle"
  <2>1. phase \in {"idle", "done"}
    OBVIOUS
  <2>2. LegState(plan, next) = [WithoutRun(rt) EXCEPT !.phase = phase]
    BY <1>5 DEF LegState
  <2> HIDE DEF phase
  <2>3. PICK state : state = [WithoutRun(rt) EXCEPT !.phase = phase]
    OBVIOUS
  <2>4. /\ state \in States /\ state.runs = rt.runs /\ state.active = 0
        /\ state.cancel = rt.cancel /\ state.phase = phase
    BY <1>1, <2>1, <2>3 DEF States, WithoutRun
  <2>5. LegState(plan, next) = state
    BY <2>2, <2>3
  <2>6. StateMoves(rt, state)
    BY <1>1, <2>4 DEF StateMoves
  <2> QED BY <1>5, <2>1, <2>4, <2>5, <2>6
<1>6. CASE plan = "verdict"
  <2>1. LegState(plan, next) = rt
    BY <1>6 DEF LegState
  <2> QED BY <1>6, <2>1, StateFacts
<1> QED BY <1>2, <1>3, <1>4, <1>5, <1>6 DEF LegPlans

LEMMA SettleLegFits ==
  ASSUME DriveInv, NEW s \in Supervisors, SettleLeg(s)
  PROVE  DriveInv'
<1> DEFINE x == drive[s]
           plan == x.plan
           next == x.next
           state == LegState(plan, next)
           i == IF Closes(plan) THEN x.at ELSE 0
           again == plan = "verdict" /\ ~LastTry(x)
           then == IF again THEN [Settling(x) EXCEPT !.tries = x.tries + 1] ELSE At(x, "ending")
           ok == /\ plan # "verdict" => x.rtFresh
                 /\ next # NoGoal => x.goalFresh
                 /\ Closes(plan) => x.copyFresh
<1>1. UNCHANGED <<mark, ledger, lease>> /\ x.pc = "settled"
  BY DEF SettleLeg, In, runs
<1>2. lease.token' \in Nat
  BY <1>1 DEF DriveInv, RecordsOK
<1>3. /\ x \in Drives /\ PlanFits(x) /\ AtFits(x, rt, intents) /\ GoalFits(x, goal)
      /\ StateFits(x, goal, rt, intents)
  BY DriveOf
<1>4. /\ plan \in LegPlans /\ x.at # 0 /\ x.at \in DOMAIN intents /\ InLeg(drive[s])
      /\ x.copy.status \in OpenStatuses
      /\ x.copyFresh => x.copy = intents[x.at]
  BY <1>1, <1>3 DEF PlanFits, AtFits, LegPcs, LegPlans, HoldPcs, InLeg
<1>5. CASE ~ok
  <2>1. Go(s, SettleAgain(drive[s])) /\ UNCHANGED <<rt, goal, intents, inbox>>
    BY <1>5 DEF SettleLeg, Refused
  <2>2. UNCHANGED <<store, ledger>>
    BY <1>1, <2>1 DEF store
  <2>3. drive[s].pc \notin {"saved", "running"}
    BY <1>1
  <2> QED BY <1>2, <1>4, <2>1, <2>2, <2>3, SettleAgainStep
<1>6. CASE ok
  <2>1. /\ SaveWith(s, i, state, then) /\ UNCHANGED inbox
        /\ intents' = IF Closes(plan) THEN [intents EXCEPT ![x.at] = Finished(intents[x.at])]
                      ELSE intents
    <3>1. ok <=> /\ x.plan # "verdict" => x.rtFresh
                 /\ x.next # NoGoal => x.goalFresh
                 /\ Closes(x.plan) => x.copyFresh
      OBVIOUS
    <3>2. /\ SaveWith(s, i, state, IF x.plan = "verdict" THEN SettleAgain(x) ELSE Stop(x))
          /\ UNCHANGED inbox
      BY <1>6 DEF SettleLeg
    <3>4. (IF x.plan = "verdict" THEN SettleAgain(x) ELSE Stop(x)) = then
      BY DEF SettleAgain, Stop
    <3>3. intents' = IF Closes(plan) THEN [intents EXCEPT ![x.at] = Finished(intents[x.at])]
                     ELSE intents
      BY <1>6 DEF SettleLeg
    <3> QED BY <3>2, <3>3, <3>4
  <2>2. intents' = intents \/ ClosesOne(i)
    BY <1>4, <2>1 DEF ClosesOne
  <2>3. i # 0 => i \in DOMAIN intents
    BY <1>4
  <2>4. drive[s].next # NoGoal => drive[s].goalFresh
    BY <1>6
  <2>5. goal' = (IF drive[s].next = NoGoal THEN goal ELSE drive[s].next) /\ rt' = state
    BY <2>1 DEF SaveWith
  <2>6. /\ Terminal(goal) => Terminal(goal')
        /\ drive[s].next = NoGoal => goal' = goal
        /\ drive[s].next # NoGoal => goal'.status \in NextStatuses(plan)
    BY <2>4, <2>5, NextGoal
  <2>7. /\ StateMoves(rt, state) /\ state.runs = rt.runs
        /\ state.active \in {0, rt.active}
        /\ plan = "cancel" => state.cancel = "applied"
        /\ plan # "cancel" => state.cancel = rt.cancel
        /\ plan \in {"cancel", "ended"} => state.phase = "done"
        /\ plan \in {"elsewhere", "drained"} => state.active = rt.active
        /\ plan = "verdict" => state = rt
        /\ plan \in {"retrying", "suspended", "stopped", "done"} =>
             state.phase \in {"retrying", "idle", "done"}
    BY <1>4, LegStateFacts
  <2> HIDE DEF state
  <2>8. plan \in {"cancel", "ended"} => Terminal(goal')
    BY <2>4, <2>5, EndsTheGoal
  <2>9. state.cancel = "applied" => rt.cancel = "applied" \/ Terminal(goal')
    BY <2>7, <2>8
  <2>10. /\ state.phase \in {"dispatching", "running", "draining"} => Named(goal', rt', intents')
         /\ \/ \A t \in Supervisors : InLeg(drive[t]) => ~OpenIn(intents', drive[t].at)
            \/ Named(goal, rt, intents) => Named(goal', rt', intents')
    <3>1. CASE plan \in {"cancel", "ended"}
      <4>1. Named(goal', rt', intents')
        BY <2>8, <3>1 DEF Named
      <4> QED BY <4>1
    <3>2. CASE plan \in {"elsewhere", "drained"}
      <4>1. Named(goal, rt, intents)
        BY <1>3, <1>6, <3>2 DEF StateFits
      <4>2. intents' = intents
        BY <2>1, <3>2 DEF Closes
      <4>3. Named(goal', rt', intents')
        BY <2>5, <2>6, <2>7, <3>2, <4>1, <4>2 DEF Named
      <4> QED BY <4>3
    <3>3. CASE plan = "verdict"
      <4>1. intents' = intents
        BY <2>1, <3>3 DEF Closes
      <4>2. Named(goal, rt, intents) => Named(goal', rt', intents')
        BY <2>5, <2>6, <2>7, <3>3, <4>1 DEF Named
      <4>3. Refers(goal, rt, intents)
        BY DEF DriveInv, AllFit
      <4> QED BY <2>7, <3>3, <4>2, <4>3 DEF Refers
    <3>4. CASE plan \in {"retrying", "suspended", "stopped", "done"}
      <4>1. Closes(plan) /\ x.copyFresh
        BY <1>6, <3>4 DEF Closes
      <4>2. i = x.at /\ ClosesOne(i)
        BY <1>4, <2>1, <4>1 DEF ClosesOne
      <4>3. /\ ~OpenIn(intents', x.at) /\ DOMAIN intents' = DOMAIN intents
            /\ \A j \in DOMAIN intents : OpenIn(intents', j) => OpenIn(intents, j)
        BY <4>2, ClosesOneFacts DEF DriveInv
      <4>4. OpenIn(intents, drive[s].at)
        BY <1>4, <4>1 DEF OpenIn
      <4>5. \A t \in Supervisors : InLeg(drive[t]) /\ OpenIn(intents, drive[t].at)
                                     => drive[t].at = drive[s].at
        BY <1>4, <4>4 DEF DriveInv, AllFit, LegsAgree
      <4>6. \A t \in Supervisors : InLeg(drive[t]) => ~OpenIn(intents', drive[t].at)
        BY <4>3, <4>5 DEF OpenIn
      <4> QED BY <2>7, <3>4, <4>6
    <3> QED BY <1>4, <3>1, <3>2, <3>3, <3>4 DEF LegPlans
  <2>11. UNCHANGED <<inbox, mark, ledger, lease>>
    BY <1>1, <2>1
  <2>12. CASE ~again
    <3>1. SaveWith(s, i, state, At(drive[s], "ending"))
      BY <2>1, <2>12
    <3> HIDE DEF i
    <3> QED BY <2>2, <2>3, <2>4, <2>7, <2>9, <2>10, <2>11, <3>1, SaveAtRest
  <2>13. CASE again
    <3>1. intents' = intents
      BY <2>1, <2>13 DEF Closes
    <3>2. PICK y : y = [Settling(x) EXCEPT !.tries = x.tries + 1]
      OBVIOUS
    <3>8. y \in Settlings(x)
      BY <3>2 DEF Settlings
    <3>3. /\ AtFits(x, rt', intents')
      BY <1>3, <2>5, <2>7, <2>13, <3>1
    <3>4. x.pc \notin {"saved", "running"} /\ InLeg(x)
      BY <1>1, <1>4
    <3>5. /\ y \in Drives /\ Fits(y, goal', rt', intents', mark', ledger') /\ y.at = x.at /\ InLeg(y)
      BY <1>3, <3>3, <3>4, <3>8, SettlingFits
    <3>6. SaveWith(s, i, state, y)
      BY <2>1, <2>13, <3>2
    <3>7. InLeg(drive[s]) /\ y.at = drive[s].at
      BY <1>4, <3>5
    <3> HIDE DEF i
    <3> QED BY <1>2, <2>2, <2>3, <2>4, <2>7, <2>9, <2>10, <2>11, <3>5, <3>6, <3>7, SaveFits
  <2> QED BY <2>12, <2>13
<1> QED BY <1>5, <1>6

-----------------------------------------------------------------------------
(* Writes that record an intent. *)

LEMMA RecordFits ==
  ASSUME DriveInv, NEW kind \in Kinds, NEW run \in Runs, Record(kind, run), run <= rt'.runs,
         StateMoves(rt, rt'), rt'.active = Slot, rt'.cancel = rt.cancel,
         NEW written, "rt" \in written, "goal" \notin written => goal' = goal,
         goal' \in Goals, Terminal(goal) => Terminal(goal'),
         inbox' \in [Entries -> Deliveries], mark' = mark, ledger' = ledger,
         lease.token' \in Nat,
         \/ drive' = Overtaken(written, 0)
         \/ \E s \in Supervisors : drive' = [Overtaken(written, 0) EXCEPT ![s] = At(drive[s], "top")]
  PROVE  DriveInv'
<1>1. /\ Moves(written, 0, goal, goal', rt, rt', intents, intents', mark, mark', ledger, ledger')
      /\ \A t \in Supervisors : Spares(drive[t], 0, rt, rt', intents, intents')
      /\ Refers(goal', rt', intents') /\ Named(goal', rt', intents')
      /\ \A t \in Supervisors : OpenIn(intents', drive[t].at) => OpenIn(intents, drive[t].at)
  BY RecordMoves
<1>2. intents' \in Seq(Intents)
  BY RecordedIntents
<1>3. rt' \in States
  BY DEF StateMoves
<1>4. mark' \in [Runs -> Nat] /\ ledger' \in [Runs -> Nat]
  BY DEF DriveInv, RecordsOK
<1>5. CASE drive' = Overtaken(written, 0)
  <2>1. /\ drive' \in [Supervisors -> Drives]
        /\ \A t \in Supervisors : Keeps(drive'[t], drive[t])
        /\ \A t \in Supervisors : Fits(drive'[t], goal', rt', intents', mark', ledger')
    BY <1>1, <1>5, HostKeeps
  <2>2. \A t \in Supervisors : InLeg(drive'[t]) => InLeg(drive[t]) /\ drive'[t].at = drive[t].at
    BY <2>1 DEF Keeps, InLeg
  <2> QED BY <1>1, <1>2, <1>3, <1>4, <2>1, <2>2, StoreFits
<1>6. CASE \E s \in Supervisors : drive' = [Overtaken(written, 0) EXCEPT ![s] = At(drive[s], "top")]
  <2>1. PICK s \in Supervisors : drive' = [Overtaken(written, 0) EXCEPT ![s] = At(drive[s], "top")]
    BY <1>6
  <2>2. PICK y : y = At(drive[s], "top")
    OBVIOUS
  <2>3. drive[s] \in Drives
    BY DriveOf
  <2>4. y \in Drives /\ Fits(y, goal', rt', intents', mark', ledger') /\ ~InLeg(y)
    BY <2>2, <2>3, RestFits
  <2>5. Writes(s, y, written, 0)
    BY <1>1, <2>1, <2>2 DEF Writes
  <2>6. /\ drive' \in [Supervisors -> Drives] /\ drive'[s] = y
        /\ \A t \in Supervisors : t # s => Keeps(drive'[t], drive[t])
        /\ \A t \in Supervisors : Fits(drive'[t], goal', rt', intents', mark', ledger')
    BY <2>4, <2>5, WriteKeeps
  <2>7. \A t \in Supervisors : InLeg(drive'[t]) => InLeg(drive[t]) /\ drive'[t].at = drive[t].at
    BY <2>4, <2>6 DEF Keeps, InLeg
  <2> QED BY <1>1, <1>2, <1>3, <1>4, <2>6, <2>7, StoreFits
<1> QED BY <1>5, <1>6

LEMMA DispatchFacts ==
  ASSUME DriveInv, NEW retries \in Nat,
         NEW state, state = [Dispatching(rt) EXCEPT !.retries = retries]
  PROVE  /\ StateMoves(rt, state) /\ state.runs = rt.runs /\ state.active = Slot
         /\ state.cancel = rt.cancel
<1>1. rt \in States /\ rt.runs \in Nat
  BY StateFacts
<1> DEFINE slot == Slot
<1>2. slot \in Nat
  BY SlotIsFree
<1>3. state = [[rt EXCEPT !.phase = "dispatching", !.active = slot] EXCEPT !.retries = retries]
  BY DEF Dispatching
<1> HIDE DEF slot
<1>4. /\ state \in States /\ state.runs = rt.runs /\ state.active = slot
      /\ state.cancel = rt.cancel
  BY <1>1, <1>2, <1>3 DEF States
<1> QED BY <1>1, <1>4 DEF StateMoves, slot

LEMMA StartedFacts ==
  ASSUME DriveInv, rt.runs < MaxRuns
  PROVE  /\ StateMoves(rt, Started(rt)) /\ Started(rt).runs = rt.runs + 1
         /\ Started(rt).active = Slot /\ Started(rt).cancel = rt.cancel
         /\ rt.runs + 1 \in Runs /\ rt.runs + 1 <= Started(rt).runs
<1> DEFINE slot == Slot
           more == rt.runs + 1
           r == rt
           q == [[r EXCEPT !.phase = "dispatching", !.active = slot]
                   EXCEPT !.runs = more, !.retries = 0]
<1>1. r \in States /\ rt.runs \in Nat /\ MaxRuns \in Nat
  BY StateFacts, SupervisorAssumption
<1>2. slot \in Nat
  BY SlotIsFree
<1>3. more \in 0..MaxRuns /\ more \in Runs /\ rt.runs <= more /\ more \in Nat
  BY <1>1 DEF Runs
<1>4. Started(rt) = q
  <2>1. Started(rt) = [[r EXCEPT !.phase = "dispatching", !.active = slot]
                          EXCEPT !.runs = @ + 1, !.retries = 0]
    BY DEF Started, Dispatching
  <2>2. [r EXCEPT !.phase = "dispatching", !.active = slot].runs = rt.runs
    BY <1>1 DEF States
  <2> QED BY <2>1, <2>2
<1> HIDE DEF slot, more, r
<1>5. q \in States /\ q.runs = more /\ q.active = slot /\ q.cancel = r.cancel
  BY <1>1, <1>2, <1>3 DEF States
<1> HIDE DEF q
<1>6. StateMoves(rt, q)
  BY <1>3, <1>5 DEF StateMoves, r
<1> QED BY <1>3, <1>4, <1>5, <1>6 DEF slot, more, r

LEMMA RecordAsFits ==
  ASSUME DriveInv, NEW s \in Supervisors, NEW plan, NEW kind \in Kinds, NEW run, NEW state,
         RecordAs(s, plan, kind, run, state),
         Current(s) => /\ run \in Runs /\ run <= state.runs /\ StateMoves(rt, state)
                       /\ state.active = Slot /\ state.cancel = rt.cancel
  PROVE  DriveInv'
<1>1. UNCHANGED <<mark, ledger, lease>>
  BY DEF RecordAs, runs
<1>2. lease.token' \in Nat
  BY <1>1 DEF DriveInv, RecordsOK
<1>3. CASE ~Current(s)
  <2>1. Refused(s, Again(drive[s]))
    BY <1>3 DEF RecordAs
  <2> QED BY <1>1, <2>1, RefusedFits
<1>4. CASE Current(s)
  <2>1. /\ SaveWith(s, 0, state, At(drive[s], "top")) /\ Record(kind, run) /\ UNCHANGED inbox
    BY <1>4 DEF RecordAs, Save, Again
  <2>2. PICK W : W = {"rt"} \cup GoalWrite(drive[s].next)
    OBVIOUS
  <2>3. /\ rt' = state /\ drive' = [Overtaken(W, 0) EXCEPT ![s] = At(drive[s], "top")]
        /\ goal' = IF drive[s].next = NoGoal THEN goal ELSE drive[s].next
    BY <2>1, <2>2 DEF SaveWith
  <2>4. drive[s].next # NoGoal => drive[s].goalFresh
    BY <1>4 DEF Current
  <2>5. goal' \in Goals /\ (Terminal(goal) => Terminal(goal'))
    BY <2>3, <2>4, NextGoal
  <2>6. "rt" \in W /\ ("goal" \notin W => goal' = goal)
    BY <2>2, <2>3 DEF GoalWrite
  <2>7. inbox' \in [Entries -> Deliveries]
    BY <2>1 DEF DriveInv, RecordsOK
  <2>8. /\ run \in Runs /\ run <= rt'.runs /\ StateMoves(rt, rt')
        /\ rt'.active = Slot /\ rt'.cancel = rt.cancel
    BY <1>4, <2>3
  <2>9. \E t \in Supervisors : drive' = [Overtaken(W, 0) EXCEPT ![t] = At(drive[t], "top")]
    BY <2>3
  <2>10. mark' = mark /\ ledger' = ledger
    BY <1>1
  <2> QED BY <1>2, <2>1, <2>5, <2>6, <2>7, <2>8, <2>9, <2>10, RecordFits
<1> QED BY <1>3, <1>4

LEMMA ActiveRunFacts ==
  ASSUME DriveInv, rt.active # 0
  PROVE  ActiveRun \in Runs /\ ActiveRun <= rt.runs
<1>1. rt.active \in DOMAIN intents
  BY DEF DriveInv, AllFit, Refers
<1>2. intents[rt.active] \in Intents /\ intents[rt.active].run <= rt.runs
  BY <1>1, IntentsDomain DEF DriveInv, AllFit, Refers
<1> QED BY <1>2 DEF ActiveRun, Intents

LEMMA RecordsFit ==
  ASSUME DriveInv, NEW s \in Supervisors,
         ScheduleRetry(s) \/ ResumeRun(s) \/ StartRun(s) \/ Supersede(s)
  PROVE  DriveInv'
<1>1. StateFits(drive[s], goal, rt, intents) /\ AtFits(drive[s], rt, intents)
      /\ GoalFits(drive[s], goal) /\ drive[s] \in Drives
  BY DriveOf
<1>2. Current(s) => drive[s].rtFresh
  BY DEF Current
<1>3. rt.retries \in Nat /\ rt.runs \in Nat
  BY StateFacts
<1>4. CASE ScheduleRetry(s)
  <2>1. Dispatching(rt).retries = rt.retries
    <3>1. rt \in States
      BY StateFacts
    <3> QED BY <3>1 DEF Dispatching, States
  <2>2. PICK state : state = [Dispatching(rt) EXCEPT !.retries = rt.retries + 1]
    OBVIOUS
  <2>3. RecordAs(s, "retry", "retry", ActiveRun, state) /\ drive[s].plan = "retry"
    <3>1. [Dispatching(rt) EXCEPT !.retries = @ + 1] = state
      BY <2>1, <2>2
    <3> QED BY <1>4, <3>1 DEF ScheduleRetry, RecordAs, Planned
  <2>4. Current(s) => rt.active # 0
    BY <1>1, <1>2, <2>3 DEF StateFits
  <2>5. StateMoves(rt, state) /\ state.runs = rt.runs /\ state.active = Slot /\ state.cancel = rt.cancel
    <3>1. PICK retries \in Nat : retries = rt.retries + 1
      BY <1>3
    <3>2. state = [Dispatching(rt) EXCEPT !.retries = retries]
      BY <2>2, <3>1
    <3> QED BY <3>2, DispatchFacts
  <2>6. Current(s) => ActiveRun \in Runs /\ ActiveRun <= state.runs
    BY <2>4, <2>5, ActiveRunFacts
  <2>7. "retry" \in Kinds
    BY DEF Kinds
  <2> QED BY <2>3, <2>5, <2>6, <2>7, RecordAsFits
<1>5. CASE ResumeRun(s)
  <2>1. PICK state : state = [Dispatching(rt) EXCEPT !.retries = 0]
    OBVIOUS
  <2>2. RecordAs(s, "resume", "resume", ActiveRun, state) /\ drive[s].plan = "resume"
    BY <1>5, <2>1 DEF ResumeRun, RecordAs, Planned
  <2>3. Current(s) => rt.active # 0
    BY <1>1, <1>2, <2>2 DEF StateFits
  <2>4. StateMoves(rt, state) /\ state.runs = rt.runs /\ state.active = Slot /\ state.cancel = rt.cancel
    <3>1. 0 \in Nat
      OBVIOUS
    <3> QED BY <2>1, <3>1, DispatchFacts
  <2>5. Current(s) => ActiveRun \in Runs /\ ActiveRun <= state.runs
    BY <2>3, <2>4, ActiveRunFacts
  <2>6. "resume" \in Kinds
    BY DEF Kinds
  <2> QED BY <2>2, <2>4, <2>5, <2>6, RecordAsFits
<1>6. CASE StartRun(s)
  <2>1. RecordAs(s, "auto", "start", rt.runs + 1, Started(rt)) /\ drive[s].plan = "auto"
    BY <1>6 DEF StartRun, RecordAs, Planned
  <2>2. Current(s) => rt.runs < MaxRuns
    BY <1>1, <1>2, <2>1 DEF StateFits
  <2>3. PICK state : state = Started(rt)
    OBVIOUS
  <2>4. PICK run : run = rt.runs + 1
    OBVIOUS
  <2>5. Current(s) => /\ run \in Runs /\ run <= state.runs /\ StateMoves(rt, state)
                      /\ state.active = Slot /\ state.cancel = rt.cancel
    BY <2>2, <2>3, <2>4, StartedFacts
  <2>6. "start" \in Kinds /\ RecordAs(s, "auto", "start", run, state)
    BY <2>1, <2>3, <2>4 DEF Kinds
  <2> QED BY <2>5, <2>6, RecordAsFits
<1>7. CASE Supersede(s)
  <2> DEFINE old == drive[s].copy
  <2>1. CASE rt.active = 0 /\ drive[s].rtFresh
    <3>1. Go(s, At(drive[s], "ending")) /\ UNCHANGED <<store, ledger, lease>>
      BY <1>7, <2>1 DEF Supersede, Stop, runs
    <3>2. lease.token' \in Nat
      BY <3>1 DEF DriveInv, RecordsOK
    <3> QED BY <3>1, <3>2, RestStep
  <2>2. CASE ~(rt.active = 0 /\ drive[s].rtFresh)
    <3>1. PICK kind : kind = IF old.kind = "start" /\ old.status = "launched" THEN "resume" ELSE old.kind
      OBVIOUS
    <3>2. PICK state : state = Dispatching(rt)
      OBVIOUS
    <3>3. RecordAs(s, "supersede", kind, old.run, state) /\ drive[s].plan = "supersede"
      BY <1>7, <2>2, <3>1, <3>2 DEF Supersede, RecordAs, Planned
    <3>4. old \in Intents /\ old.run <= rt.runs
      BY <1>1, <3>3 DEF AtFits, Drives, SomeIntent
    <3>5. kind \in Kinds /\ old.run \in Runs
      BY <3>1, <3>4 DEF Intents, Kinds
    <3>6. StateMoves(rt, state) /\ state.runs = rt.runs /\ state.active = Slot /\ state.cancel = rt.cancel
      <4>1. state = [Dispatching(rt) EXCEPT !.retries = rt.retries]
        <5>1. rt \in States /\ Slot \in Nat
          BY StateFacts, SlotIsFree
        <5> QED BY <3>2, <5>1 DEF Dispatching, States
      <4>2. PICK retries \in Nat : retries = rt.retries
        BY <1>3
      <4>3. state = [Dispatching(rt) EXCEPT !.retries = retries]
        BY <4>1, <4>2
      <4> QED BY <4>3, DispatchFacts
    <3>7. old.run <= state.runs
      BY <3>4, <3>6
    <3>8. PICK run : run = old.run
      OBVIOUS
    <3>9. RecordAs(s, "supersede", kind, run, state) /\ run \in Runs /\ run <= state.runs
      BY <3>3, <3>5, <3>7, <3>8
    <3> QED BY <3>5, <3>6, <3>9, RecordAsFits
  <2> QED BY <2>1, <2>2
<1> QED BY <1>4, <1>5, <1>6, <1>7

(* A write from outside any drive, of the goal or of the runtime state. *)
LEMMA WrittenFits ==
  ASSUME DriveInv, NEW written,
         \/ drive' = Overtaken(written, 0)
         \/ \E s \in Supervisors : drive' = [Overtaken(written, 0) EXCEPT ![s] = At(drive[s], "top")],
         "rt" \notin written => rt' = rt,
         "goal" \notin written => goal' = goal,
         UNCHANGED <<intents, mark, ledger>>, inbox' \in [Entries -> Deliveries],
         lease.token' \in Nat, goal' \in Goals, Terminal(goal) => Terminal(goal'),
         StateMoves(rt, rt'), rt'.active \in {0, rt.active},
         rt'.cancel = "applied" => Terminal(goal'),
         Named(goal, rt, intents) => Named(goal', rt', intents'),
         rt'.phase \in {"dispatching", "running", "draining"} => Named(goal', rt', intents')
  PROVE  DriveInv'
<1>1. intents' = intents /\ mark' = mark /\ ledger' = ledger
  OBVIOUS
<1>2. mark \in [Runs -> Nat] /\ ledger \in [Runs -> Nat] /\ rt.runs \in Nat /\ rt'.runs \in Nat
  BY DEF DriveInv, RecordsOK, States, StateMoves
<1>3. \A x \in Runs : ledger[x] <= ledger'[x]
  BY <1>1, <1>2
<1>4. Moves(written, 0, goal, goal', rt, rt', intents, intents', mark, mark', ledger, ledger')
  BY <1>1, <1>2, <1>3 DEF Moves, StateMoves
<1>5. \A t \in Supervisors : Spares(drive[t], 0, rt, rt', intents, intents')
  <2> TAKE t \in Supervisors
  <2>1. CASE drive[t].at = 0
    BY <2>1 DEF Spares
  <2>2. CASE drive[t].at # 0
    <3>1. drive[t].at \in DOMAIN intents /\ intents[drive[t].at].run \in Runs
      BY <2>2, IntentAt
    <3> QED BY <1>1, <2>2, <3>1 DEF Spares
  <2> QED BY <2>1, <2>2
<1>6. Refers(goal', rt', intents')
  <2>1. Refers(goal, rt, intents)
    BY DEF DriveInv, AllFit
  <2>2. \A i \in DOMAIN intents : intents[i].run <= rt'.runs
    <3> TAKE i \in DOMAIN intents
    <3>1. intents[i] \in Intents /\ intents[i].run <= rt.runs
      BY <2>1, IntentsDomain DEF DriveInv, Refers
    <3>2. intents[i].run \in Nat
      BY <3>1 DEF Intents, Runs
    <3> QED BY <1>2, <3>1, <3>2 DEF StateMoves
  <2>3. rt'.active # 0 => rt'.active \in DOMAIN intents
    BY <2>1 DEF Refers
  <2> QED BY <1>1, <2>2, <2>3 DEF Refers
<1>7. /\ rt' \in States /\ mark' \in [Runs -> Nat] /\ ledger' \in [Runs -> Nat]
      /\ intents' \in Seq(Intents)
  BY <1>1 DEF DriveInv, RecordsOK, StateMoves
<1>8. \A t \in Supervisors : OpenIn(intents', drive[t].at) => OpenIn(intents, drive[t].at)
  BY <1>1
<1>9. CASE drive' = Overtaken(written, 0)
  <2>1. /\ drive' \in [Supervisors -> Drives]
        /\ \A t \in Supervisors : Keeps(drive'[t], drive[t])
        /\ \A t \in Supervisors : Fits(drive'[t], goal', rt', intents', mark', ledger')
    BY <1>4, <1>5, <1>9, HostKeeps
  <2>2. \A t \in Supervisors : InLeg(drive'[t]) => InLeg(drive[t]) /\ drive'[t].at = drive[t].at
    BY <2>1 DEF Keeps, InLeg
  <2> QED BY <1>6, <1>7, <1>8, <2>1, <2>2, StoreFits
<1>10. CASE \E s \in Supervisors : drive' = [Overtaken(written, 0) EXCEPT ![s] = At(drive[s], "top")]
  <2>1. PICK s \in Supervisors : drive' = [Overtaken(written, 0) EXCEPT ![s] = At(drive[s], "top")]
    BY <1>10
  <2>2. PICK y : y = At(drive[s], "top")
    OBVIOUS
  <2>3. drive[s] \in Drives
    BY DriveOf
  <2>4. y \in Drives /\ Fits(y, goal', rt', intents', mark', ledger') /\ ~InLeg(y)
    BY <2>2, <2>3, RestFits
  <2>5. Writes(s, y, written, 0)
    BY <1>4, <1>5, <2>1, <2>2 DEF Writes
  <2>6. /\ drive' \in [Supervisors -> Drives] /\ drive'[s] = y
        /\ \A t \in Supervisors : t # s => Keeps(drive'[t], drive[t])
        /\ \A t \in Supervisors : Fits(drive'[t], goal', rt', intents', mark', ledger')
    BY <2>4, <2>5, WriteKeeps
  <2>7. \A t \in Supervisors : InLeg(drive'[t]) => InLeg(drive[t]) /\ drive'[t].at = drive[t].at
    BY <2>4, <2>6 DEF Keeps, InLeg
  <2> QED BY <1>6, <1>7, <1>8, <2>6, <2>7, StoreFits
<1> QED BY <1>9, <1>10

LEMMA SettleInboxFits ==
  ASSUME DriveInv, NEW s \in Supervisors, SettleInbox(s)
  PROVE  DriveInv'
<1> DEFINE x == drive[s]
           ok == /\ inbox[x.entry].as = "pending"
                 /\ x.next # NoGoal => x.goalFresh
                 /\ x.starts => x.rtFresh
<1>1. UNCHANGED <<mark, ledger, lease>> /\ x.plan = "settle"
  BY DEF SettleInbox, Planned, runs
<1>2. lease.token' \in Nat
  BY <1>1 DEF DriveInv, RecordsOK
<1>3. /\ x \in Drives /\ PlanFits(x) /\ StateFits(x, goal, rt, intents)
  BY DriveOf
<1>4. CASE ~ok
  <2>1. Refused(s, Again(drive[s]))
    BY <1>4 DEF SettleInbox
  <2> QED BY <1>1, <2>1, RefusedFits
<1>5. CASE ok
  <2>1. PICK W : W = (IF x.starts THEN {"rt"} ELSE {}) \cup GoalWrite(x.next)
    OBVIOUS
  <2>2. /\ inbox' = [inbox EXCEPT ![x.entry] = [as |-> x.as, dated |-> 0]]
        /\ goal' = IF drive[s].next = NoGoal THEN goal ELSE drive[s].next
        /\ IF x.starts THEN rt' = Started(rt) /\ Record("start", rt.runs + 1)
           ELSE UNCHANGED <<rt, intents>>
        /\ drive' = [Overtaken(W, 0) EXCEPT ![s] = At(drive[s], "top")]
    BY <1>5, <2>1 DEF SettleInbox, Again
  <2>3. inbox' \in [Entries -> Deliveries]
    <3>1. x.as \in Dispositions /\ x.entry \in Entries
      BY <1>1, <1>3 DEF PlanFits, Drives, Answers
    <3>2. [as |-> x.as, dated |-> 0] \in Deliveries
      BY <3>1 DEF Deliveries
    <3>3. inbox \in [Entries -> Deliveries]
      BY DEF DriveInv, RecordsOK
    <3> QED BY <2>2, <3>2, <3>3
  <2>4. drive[s].next # NoGoal => drive[s].goalFresh
    BY <1>5
  <2>5. goal' \in Goals /\ (Terminal(goal) => Terminal(goal'))
    BY <2>2, <2>4, NextGoal
  <2>6. "goal" \notin W => goal' = goal
    BY <2>1, <2>2 DEF GoalWrite
  <2>7. \E t \in Supervisors : drive' = [Overtaken(W, 0) EXCEPT ![t] = At(drive[t], "top")]
    BY <2>2
  <2>8. mark' = mark /\ ledger' = ledger
    BY <1>1
  <2>9. CASE x.starts
    <3>1. rt.runs < MaxRuns
      BY <1>3, <1>5, <2>9 DEF StateFits
    <3>2. rt' = Started(rt) /\ Record("start", rt.runs + 1) /\ "rt" \in W
      BY <2>1, <2>2, <2>9
    <3>3. PICK run : run = rt.runs + 1
      OBVIOUS
    <3>4. /\ Record("start", run) /\ run \in Runs /\ run <= rt'.runs /\ StateMoves(rt, rt')
          /\ rt'.active = Slot /\ rt'.cancel = rt.cancel
      BY <3>1, <3>2, <3>3, StartedFacts
    <3>5. "start" \in Kinds
      BY DEF Kinds
    <3> QED BY <1>2, <2>3, <2>5, <2>6, <2>7, <2>8, <3>2, <3>4, <3>5, RecordFits
  <2>10. CASE ~x.starts
    <3>1. rt' = rt /\ intents' = intents
      BY <2>2, <2>10
    <3>2. StateMoves(rt, rt') /\ rt'.active \in {0, rt.active}
      BY <3>1, StateFacts
    <3>3. Named(goal, rt, intents) => Named(goal', rt', intents')
      BY <2>5, <3>1 DEF Named
    <3>4. Refers(goal, rt, intents)
      BY DEF DriveInv, AllFit
    <3>5. /\ rt'.cancel = "applied" => Terminal(goal')
          /\ rt'.phase \in {"dispatching", "running", "draining"} => Named(goal', rt', intents')
      BY <2>5, <3>1, <3>3, <3>4 DEF Refers
    <3>6. UNCHANGED <<intents, mark, ledger>>
      BY <2>8, <3>1
    <3> QED BY <1>2, <2>3, <2>5, <2>6, <2>7, <3>1, <3>2, <3>3, <3>5, <3>6, WrittenFits
  <2> QED BY <2>9, <2>10
<1> QED BY <1>4, <1>5

LEMMA RequestCancelFits ==
  ASSUME DriveInv, RequestCancel
  PROVE  DriveInv'
<1>1. PICK state : state = [rt EXCEPT !.cancel = "asked"]
  OBVIOUS
<1>2. rt \in States /\ rt.runs \in Nat
  BY StateFacts
<1>3. /\ state \in States /\ state.runs = rt.runs /\ state.active = rt.active
      /\ state.cancel = "asked"
  BY <1>1, <1>2 DEF States
<1>4. PICK W : W = {"rt"} \cup GoalWrite(NoGoal)
  OBVIOUS
<1>5. /\ rt' = state /\ goal' = goal /\ drive' = Overtaken(W, 0)
      /\ UNCHANGED <<intents, inbox, mark, ledger, lease>>
  BY <1>1, <1>4 DEF RequestCancel, HostSave
<1>6. StateMoves(rt, rt') /\ rt'.active \in {0, rt.active}
  BY <1>2, <1>3, <1>5 DEF StateMoves
<1>7. Named(goal', rt', intents')
  BY <1>3, <1>5 DEF Named
<1>8. "rt" \in W
  BY <1>4
<1>9. goal' \in Goals /\ inbox' \in [Entries -> Deliveries] /\ lease.token' \in Nat
  BY <1>5 DEF DriveInv, RecordsOK
<1>10. rt'.cancel # "applied"
  BY <1>3, <1>5
<1> QED BY <1>5, <1>6, <1>7, <1>8, <1>9, <1>10, WrittenFits

LEMMA HostCommandFits ==
  ASSUME DriveInv, NEW type \in {"wait", "resume", "fail"}, HostCommand(type)
  PROVE  DriveInv'
<1> DEFINE next == Command(goal, type)
           ended == Terminal(next) /\ ~ActiveOpen
           state == IF ~ended THEN rt
                    ELSE IF rt.cancel = "asked" THEN CancelApplied(rt) ELSE Done(rt)
<1>1. /\ next # NoGoal /\ rt' = state /\ goal' = next
      /\ drive' = Overtaken({"rt"} \cup GoalWrite(next), 0)
      /\ UNCHANGED <<intents, inbox, mark, ledger, lease>>
  BY DEF HostCommand, HostSave
<1>2. goal \in Goals
  BY DEF DriveInv, RecordsOK
<1>3. ~Terminal(goal) /\ next \in Goals
  BY <1>1, <1>2, CommandGoal
<1>4. PICK W : W = {"rt"} \cup GoalWrite(next)
  OBVIOUS
<1>5. "rt" \in W /\ "goal" \in W
  BY <1>1, <1>4 DEF GoalWrite
<1>6. Refers(goal, rt, intents)
  BY DEF DriveInv, AllFit
<1> HIDE DEF next
<1>7. StateMoves(rt, state) /\ state.active \in {0, rt.active}
  BY StateFacts
<1>8. /\ state.cancel = "applied" => Terminal(goal')
      /\ Named(goal, rt, intents) => Named(goal', rt', intents')
      /\ state.phase \in {"dispatching", "running", "draining"} => Named(goal', rt', intents')
  <2>1. CASE ended
    <3>1. Terminal(goal')
      BY <1>1, <2>1
    <3> QED BY <3>1 DEF Named
  <2>2. CASE ~ended
    <3>1. state = rt /\ rt' = rt /\ intents' = intents
      BY <1>1, <2>2
    <3>2. rt.cancel # "applied"
      BY <1>3, <1>6 DEF Refers
    <3>3. Named(goal, rt, intents) => Named(goal', rt', intents')
      BY <1>3, <3>1 DEF Named
    <3> QED BY <1>6, <3>1, <3>2, <3>3 DEF Refers
  <2> QED BY <2>1, <2>2
<1> HIDE DEF state
<1>9. /\ StateMoves(rt, rt') /\ rt'.active \in {0, rt.active}
      /\ rt'.cancel = "applied" => Terminal(goal')
      /\ Named(goal, rt, intents) => Named(goal', rt', intents')
      /\ rt'.phase \in {"dispatching", "running", "draining"} => Named(goal', rt', intents')
  BY <1>1, <1>7, <1>8
<1>10. goal' \in Goals /\ inbox' \in [Entries -> Deliveries] /\ lease.token' \in Nat
  BY <1>1, <1>3 DEF DriveInv, RecordsOK
<1>11. drive' = Overtaken(W, 0) /\ UNCHANGED <<intents, mark, ledger>>
  BY <1>1, <1>4
<1> QED BY <1>3, <1>5, <1>9, <1>10, <1>11, WrittenFits

LEMMA HostResumeFits ==
  ASSUME DriveInv, HostResume
  PROVE  DriveInv'
<1>1. PICK next \in {NoGoal} \cup IF goal.status = "waiting" /\ ~late THEN {Active(goal)} ELSE {} :
        HostSave(next, [Dispatching(rt) EXCEPT !.retries = 0])
  BY DEF HostResume
<1>2. PICK state : state = [Dispatching(rt) EXCEPT !.retries = 0]
  OBVIOUS
<1>3. PICK W : W = {"rt"} \cup GoalWrite(next)
  OBVIOUS
<1>4. /\ rt' = state /\ drive' = Overtaken(W, 0)
      /\ goal' = IF next = NoGoal THEN goal ELSE next
  BY <1>1, <1>2, <1>3 DEF HostSave
<1>5. /\ rt.active # 0 /\ Record("resume", ActiveRun)
      /\ UNCHANGED <<inbox, mark, ledger, lease>>
  BY DEF HostResume, runs
<1>6. StateMoves(rt, state) /\ state.runs = rt.runs /\ state.active = Slot /\ state.cancel = rt.cancel
  <2>1. 0 \in Nat
    OBVIOUS
  <2> QED BY <1>2, <2>1, DispatchFacts
<1>7. PICK run : run = ActiveRun
  OBVIOUS
<1>8. /\ run \in Runs /\ Record("resume", run) /\ run <= rt'.runs /\ StateMoves(rt, rt')
      /\ rt'.active = Slot /\ rt'.cancel = rt.cancel
  BY <1>4, <1>5, <1>6, <1>7, ActiveRunFacts
<1>9. goal \in Goals /\ Active(goal) \in Goals /\ Active(goal).status = "active"
  BY ActiveGoal DEF DriveInv, RecordsOK
<1>10. goal' \in Goals /\ (Terminal(goal) => Terminal(goal'))
  BY <1>1, <1>4, <1>9 DEF Terminal
<1>11. "rt" \in W /\ ("goal" \notin W => goal' = goal)
  BY <1>3, <1>4 DEF GoalWrite
<1>12. inbox' \in [Entries -> Deliveries] /\ lease.token' \in Nat /\ mark' = mark /\ ledger' = ledger
  BY <1>5 DEF DriveInv, RecordsOK
<1>13. "resume" \in Kinds
  BY DEF Kinds
<1> QED BY <1>4, <1>8, <1>10, <1>11, <1>12, <1>13, RecordFits

(* A step that leaves the records and the drives alone, but for what runs  *)
(* have spent and what was delivered.                                      *)
LEMMA QuietFits ==
  ASSUME DriveInv, UNCHANGED <<goal, rt, intents, mark, drive>>,
         inbox' \in [Entries -> Deliveries], lease.token' \in Nat,
         ledger' \in [Runs -> Nat], \A x \in Runs : ledger[x] <= ledger'[x]
  PROVE  DriveInv'
<1>1. /\ goal' = goal /\ rt' = rt /\ intents' = intents /\ mark' = mark /\ drive' = drive
  OBVIOUS
<1>2. \A t \in Supervisors : Fits(drive[t], goal, rt, intents, mark, ledger')
  <2> TAKE t \in Supervisors
  <2>1. drive[t] \in Drives /\ Fits(drive[t], goal, rt, intents, mark, ledger)
    BY DriveOf
  <2>2. ChargeFits(drive[t], intents, mark, ledger')
    <3> SUFFICES ASSUME drive[t].pc \in {"marking", "advancing"}
                 PROVE  drive[t].totals <= ledger'[intents[drive[t].at].run]
      BY <2>1 DEF Fits, ChargeFits
    <3>1. drive[t].at # 0
      BY <2>1 DEF Fits, AtFits, LegPcs
    <3>2. PICK r \in Runs : r = intents[drive[t].at].run
      BY <3>1, IntentAt
    <3>3. drive[t].totals <= ledger[r]
      BY <2>1, <3>2 DEF Fits, ChargeFits
    <3>4. ledger[r] \in Nat /\ ledger'[r] \in Nat /\ drive[t].totals \in Nat
      BY <2>1, <3>2 DEF DriveInv, RecordsOK, Drives
    <3>5. ledger[r] <= ledger'[r]
      OBVIOUS
    <3> QED BY <3>2, <3>3, <3>4, <3>5
  <2> QED BY <2>1, <2>2 DEF Fits
<1>3. \A t \in Supervisors : Fits(drive'[t], goal', rt', intents', mark', ledger')
  BY <1>1, <1>2
<1>4. RecordsOK'
  BY <1>1 DEF DriveInv, RecordsOK
<1>5. Refers(goal', rt', intents') /\ LegsAgree(drive', goal', rt', intents')
  BY <1>1 DEF DriveInv, AllFit
<1> QED BY <1>3, <1>4, <1>5 DEF DriveInv, AllFit

LEMMA DrainFits ==
  ASSUME DriveInv, NEW s \in Supervisors, Drain(s)
  PROVE  DriveInv'
<1>1. UNCHANGED <<intents, inbox, mark, ledger, lease>>
  BY DEF Drain
<1>2. inbox' \in [Entries -> Deliveries] /\ lease.token' \in Nat /\ ledger' \in [Runs -> Nat]
      /\ goal \in Goals
  BY <1>1 DEF DriveInv, RecordsOK
<1>3. CASE In(s, "running") /\ ~drive[s].lost /\ rt.phase = "running"
  <2>1. PICK state : state = [rt EXCEPT !.phase = "draining"]
    OBVIOUS
  <2>2. PICK W : W = {"rt"} \cup GoalWrite(NoGoal)
    OBVIOUS
  <2>3. /\ rt' = state /\ goal' = goal /\ drive' = Overtaken(W, 0)
    BY <1>3, <2>1, <2>2 DEF Drain, HostSave
  <2>4. /\ StateMoves(rt, state) /\ state.active = rt.active /\ state.cancel = rt.cancel
    <3>1. "draining" \in {"idle", "dispatching", "running", "draining", "retrying", "done"}
      OBVIOUS
    <3> QED BY <2>1, <3>1, PhaseMoves
  <2>5. Refers(goal, rt, intents)
    BY DEF DriveInv, AllFit
  <2>6. Named(goal, rt, intents)
    BY <1>3, <2>5 DEF Refers
  <2>7. Named(goal', rt', intents')
    BY <1>1, <2>3, <2>4, <2>6 DEF Named
  <2>8. rt'.cancel = "applied" => Terminal(goal')
    BY <2>3, <2>4, <2>5 DEF Refers
  <2>9. "rt" \in W
    BY <2>2
  <2> QED BY <1>1, <1>2, <2>3, <2>4, <2>7, <2>8, <2>9, WrittenFits
<1>4. CASE ~(In(s, "running") /\ ~drive[s].lost /\ rt.phase = "running")
  <2>1. UNCHANGED <<rt, goal, drive>>
    BY <1>4 DEF Drain
  <2>2. \A x \in Runs : ledger[x] <= ledger'[x]
    BY <1>1 DEF DriveInv, RecordsOK
  <2> QED BY <1>1, <1>2, <2>1, <2>2, QuietFits
<1> QED BY <1>3, <1>4

LEMMA AdvanceFits ==
  ASSUME DriveInv, NEW s \in Supervisors, Advance(s)
  PROVE  DriveInv'
<1> DEFINE x == drive[s]
           r == RunOf(s)
<1>1. UNCHANGED <<rt, intents, inbox, ledger, lease>> /\ x.pc = "advancing"
  BY DEF Advance, In, runs
<1>2. lease.token' \in Nat
  BY <1>1 DEF DriveInv, RecordsOK
<1>3. /\ x \in Drives /\ PlanFits(x) /\ AtFits(x, rt, intents)
      /\ ChargeFits(x, intents, mark, ledger)
  BY DriveOf
<1>4. /\ x.at # 0 /\ x.at \in DOMAIN intents /\ x.leg # "none" /\ InLeg(drive[s])
      /\ x.pc \notin {"saved", "running"} /\ x.leg \in Legs /\ x.totals \in Nat
  BY <1>1, <1>3 DEF PlanFits, AtFits, LegPcs, InLeg, Drives
<1>5. r \in Runs /\ r = intents[x.at].run
  BY <1>4, IntentAt DEF RunOf
<1>6. x.totals <= ledger[r] /\ (x.markFresh => mark[r] < x.totals)
  BY <1>1, <1>3, <1>5 DEF ChargeFits
<1>7. CASE ~(x.markFresh /\ x.goalFresh)
  <2>1. UNCHANGED <<mark, goal>>
    BY <1>7 DEF Advance
  <2>2. UNCHANGED <<store, ledger>>
    BY <1>1, <2>1 DEF store
  <2>3. CASE LastTry(x)
    <3>1. PICK y : y = [Settling(x) EXCEPT !.gaveUp = TRUE]
      OBVIOUS
    <3>2. y \in Settlings(drive[s]) /\ Go(s, y)
      BY <1>7, <2>3, <3>1 DEF Advance, Settlings
    <3> QED BY <1>2, <1>4, <2>2, <3>2, SettlingStep
  <2>4. CASE ~LastTry(x)
    <3>1. PICK totals \in Nat : totals = x.totals
      BY <1>4
    <3>2. PICK tries \in Nat : tries = x.tries + 1
      BY <1>3 DEF Drives
    <3>3. PICK y : y = Marking(drive[s], totals, tries)
      OBVIOUS
    <3>4. Go(s, y)
      BY <1>7, <2>4, <3>1, <3>2, <3>3 DEF Advance
    <3>5. drive[s] \in Drives
      BY <1>3
    <3>6. /\ y \in Drives /\ y.pc = "marking" /\ y.at = drive[s].at /\ y.leg = drive[s].leg
          /\ y.seen = NoGoal /\ y.plan = "none" /\ y.copy = NoIntent /\ y.next = NoGoal
          /\ y.as = "none" /\ ~y.starts /\ y.totals = totals
      BY <3>3, <3>5, MarkingDrive
    <3>7. y.totals <= ledger[intents[y.at].run]
      BY <1>5, <1>6, <3>1, <3>6
    <3>8. /\ y.at # 0 /\ y.at \in DOMAIN intents /\ (y.pc # "running" => y.leg # "none")
          /\ y.pc \in {"running", "charging", "marking", "settling"}
      BY <1>4, <3>6
    <3>9. Fits(y, goal, rt, intents, mark, ledger) /\ InLeg(y)
      BY <3>6, <3>7, <3>8, LegFits
    <3> QED BY <1>2, <1>4, <2>2, <3>4, <3>6, <3>9, GoFits
  <2> QED BY <2>3, <2>4
<1>8. CASE x.markFresh /\ x.goalFresh
  <2>1. PICK y : y = Settling(x)
    OBVIOUS
  <2>2. PICK W : W = {"mark", "goal"}
    OBVIOUS
  <2>3. /\ mark' = [mark EXCEPT ![r] = x.totals]
        /\ goal' = Charged(goal, x.totals - mark[r], x.past)
        /\ drive' = [Overtaken(W, 0) EXCEPT ![s] = y]
    BY <1>8, <2>1, <2>2 DEF Advance
  <2>4. mark \in [Runs -> Nat] /\ ledger \in [Runs -> Nat] /\ goal \in Goals
    BY DEF DriveInv, RecordsOK
  <2>5. mark' \in [Runs -> Nat]
    BY <1>4, <1>5, <2>3, <2>4
  <2>6. goal' \in Goals /\ (Terminal(goal) => Terminal(goal'))
    <3>1. PICK more : more = x.totals - mark[r]
      OBVIOUS
    <3>2. more \in Nat
      <4>1. mark[r] \in Nat /\ x.totals \in Nat /\ mark[r] < x.totals
        BY <1>4, <1>5, <1>6, <1>8, <2>4
      <4> HIDE DEF x, r
      <4> QED BY <3>1, <4>1
    <3>3. goal' = Charged(goal, more, x.past)
      BY <2>3, <3>1
    <3>4. x.past \in BOOLEAN
      BY <1>3 DEF Drives
    <3> QED BY <2>4, <3>2, <3>3, <3>4, ChargedGoal
  <2>8. rt' = rt /\ intents' = intents /\ ledger' = ledger /\ inbox' = inbox
    BY <1>1
  <2>9. Named(goal, rt, intents) => Named(goal', rt', intents')
    BY <2>6, <2>8 DEF Named
  <2>10. /\ y \in Drives /\ Fits(y, goal', rt', intents', mark', ledger')
         /\ y.at = x.at /\ InLeg(y)
    <3>1. AtFits(x, rt', intents')
      BY <1>3, <2>8
    <3>2. InLeg(x) /\ x.pc \notin {"saved", "running"}
      BY <1>4
    <3>3. y \in Settlings(x)
      BY <2>1 DEF Settlings
    <3> QED BY <1>3, <2>1, <3>1, <3>2, <3>3, SettlingFits
  <2>11. rt.runs \in Nat
    BY StateFacts
  <2>12. \A k \in Runs : ledger[k] <= ledger'[k]
    BY <2>4, <2>8
  <2>13. rt.runs <= rt'.runs /\ "rt" \notin W /\ "goal" \in W /\ "mark" \in W
    BY <2>2, <2>8, <2>11
  <2>14. Moves(W, 0, goal, goal', rt, rt', intents, intents', mark, mark', ledger, ledger')
    BY <2>4, <2>5, <2>6, <2>8, <2>9, <2>11, <2>12, <2>13 DEF Moves
  <2>15. \A t \in Supervisors : Spares(drive[t], 0, rt, rt', intents, intents')
    <3> TAKE t \in Supervisors
    <3>1. CASE drive[t].at = 0
      BY <3>1 DEF Spares
    <3>2. CASE drive[t].at # 0
      <4>1. intents[drive[t].at].run \in Runs
        BY <3>2, IntentAt
      <4> QED BY <2>8, <4>1 DEF Spares
    <3> QED BY <3>1, <3>2
  <2>16. Writes(s, y, W, 0)
    BY <2>3, <2>14, <2>15 DEF Writes
  <2>17. /\ drive' \in [Supervisors -> Drives] /\ drive'[s] = y
         /\ \A t \in Supervisors : t # s => Keeps(drive'[t], drive[t])
         /\ \A t \in Supervisors : Fits(drive'[t], goal', rt', intents', mark', ledger')
    BY <2>10, <2>16, WriteKeeps
  <2>18. \A t \in Supervisors : InLeg(drive'[t]) => InLeg(drive[t]) /\ drive'[t].at = drive[t].at
    BY <1>4, <2>10, <2>17 DEF Keeps, InLeg
  <2>19. Refers(goal', rt', intents')
    BY <2>6, <2>8, <2>9 DEF DriveInv, AllFit, Refers
  <2>20. /\ rt' \in States /\ intents' \in Seq(Intents) /\ inbox' \in [Entries -> Deliveries]
         /\ ledger' \in [Runs -> Nat]
    BY <2>8 DEF DriveInv, RecordsOK
  <2>21. \A t \in Supervisors : OpenIn(intents', drive[t].at) => OpenIn(intents, drive[t].at)
    BY <2>8
  <2> QED BY <1>2, <2>5, <2>6, <2>9, <2>17, <2>18, <2>19, <2>20, <2>21, StoreFits
<1> QED BY <1>7, <1>8

-----------------------------------------------------------------------------
(* A drive that is gone: tokens are numbered again. *)

Renumbered(y, token, copy) == [y EXCEPT !.token = token, !.copy = copy]

\* The intents J are the intents I, and the copy the copy, but for their tokens.
ButTokens(y, copy, I, J) ==
  /\ DOMAIN J = DOMAIN I /\ \A j \in DOMAIN I : J[j].run = I[j].run
  /\ \A j : OpenIn(J, j) <=> OpenIn(I, j)
  /\ (copy = NoIntent) <=> (y.copy = NoIntent)
  /\ copy # NoIntent => copy.run = y.copy.run /\ copy.status = y.copy.status
  /\ y.at # 0 /\ y.copy = I[y.at] => copy = J[y.at]

LEMMA RenumberedFits ==
  ASSUME NEW y \in Drives, NEW token \in Nat, NEW copy \in SomeIntent,
         NEW g, NEW r, NEW I, NEW J, NEW m, NEW l, Fits(y, g, r, I, m, l),
         ButTokens(y, copy, I, J)
  PROVE  /\ Renumbered(y, token, copy) \in Drives
         /\ Fits(Renumbered(y, token, copy), g, r, J, m, l)
         /\ Renumbered(y, token, copy).pc = y.pc /\ Renumbered(y, token, copy).at = y.at
<1>0. /\ DOMAIN J = DOMAIN I /\ \A j \in DOMAIN I : J[j].run = I[j].run
      /\ \A j : OpenIn(J, j) <=> OpenIn(I, j)
      /\ (copy = NoIntent) <=> (y.copy = NoIntent)
      /\ copy # NoIntent => copy.run = y.copy.run /\ copy.status = y.copy.status
      /\ y.at # 0 /\ y.copy = I[y.at] => copy = J[y.at]
  BY DEF ButTokens
<1> DEFINE z == [y EXCEPT !.token = token, !.copy = copy]
<1>1. Renumbered(y, token, copy) = z
  BY DEF Renumbered
<1>2. z \in Drives
  BY DEF Drives
<1>3. /\ z.pc = y.pc /\ z.seen = y.seen /\ z.plan = y.plan /\ z.at = y.at /\ z.copy = copy
      /\ z.next = y.next /\ z.entry = y.entry
  BY DEF Drives
<1>4. /\ z.as = y.as /\ (z.starts <=> y.starts) /\ z.leg = y.leg /\ z.totals = y.totals
      /\ (z.goalFresh <=> y.goalFresh)
  BY DEF Drives
<1>5. /\ (z.rtFresh <=> y.rtFresh) /\ (z.copyFresh <=> y.copyFresh)
      /\ (z.markFresh <=> y.markFresh)
  BY DEF Drives
<1> HIDE DEF z
<1>6. PlanFits(z)
  BY <1>0, <1>3, <1>4, <1>5 DEF Fits, PlanFits
<1>7. AtFits(z, r, J)
  BY <1>0, <1>3, <1>4, <1>5 DEF Fits, AtFits
<1>8. GoalFits(z, g)
  BY <1>3, <1>4, <1>5 DEF Fits, GoalFits
<1>9. StateFits(z, g, r, J)
  <2>1. Named(g, r, I) => Named(g, r, J)
    BY <1>0 DEF Named
  <2> QED BY <1>0, <1>3, <1>4, <1>5, <2>1 DEF Fits, StateFits
<1>10. ChargeFits(z, J, m, l)
  <2>1. y.pc \in {"marking", "advancing"} => y.at \in DOMAIN I
    BY DEF Fits, AtFits, LegPcs
  <2>2. y.pc \in {"marking", "advancing"} => J[y.at].run = I[y.at].run
    BY <1>0, <2>1
  <2> QED BY <1>3, <1>4, <1>5, <2>2 DEF Fits, ChargeFits
<1> QED BY <1>1, <1>2, <1>3, <1>6, <1>7, <1>8, <1>9, <1>10 DEF Fits

LEMMA GoneFits ==
  ASSUME DriveInv, NEW s \in Supervisors, NEW holder, Gone(s, holder),
         UNCHANGED <<goal, rt, inbox, mark, ledger>>
  PROVE  DriveInv'
<1> DEFINE inUse == {lease.token} \cup {intents[i].token : i \in Open}
                      \cup {drive[x].token : x \in Supervisors \ {s}}
           below(token) == Cardinality({u \in inUse \ {0} : u <= token})
           rank(token) == IF token <= lease.token THEN below(token)
                          ELSE token - lease.token + below(lease.token)
           copyOf(x) == IF drive[x].copy = NoIntent THEN NoIntent
                        ELSE [drive[x].copy EXCEPT !.token = rank(drive[x].copy.token)]
<1>1. /\ lease' = [holder |-> holder, token |-> rank(lease.token)]
      /\ intents' = [i \in DOMAIN intents |->
                       [intents[i] EXCEPT !.token = rank(intents[i].token)]]
      /\ drive' = [x \in Supervisors |->
                     IF x = s THEN Idle
                     ELSE [drive[x] EXCEPT !.token = rank(drive[x].token), !.copy = copyOf(x)]]
  <2>1. lease' = [holder |-> holder, token |-> rank(lease.token)]
    BY DEF Gone
  <2>2. intents' = [i \in DOMAIN intents |->
                       [intents[i] EXCEPT !.token = rank(intents[i].token)]]
    BY DEF Gone
  <2>3. drive' = [x \in Supervisors |->
                     IF x = s THEN Idle
                     ELSE [drive[x] EXCEPT !.token = rank(drive[x].token), !.copy = copyOf(x)]]
    BY DEF Gone
  <2> QED BY <2>1, <2>2, <2>3
<1>2. /\ \A i \in DOMAIN intents : intents[i] \in Intents
      /\ \A x \in Supervisors : drive[x] \in Drives
      /\ lease.token \in Nat
  BY IntentsDomain DEF DriveInv, RecordsOK
<1>3. inUse \subseteq Nat
  <2>1. \A i \in Open : intents[i].token \in Nat
    BY <1>2 DEF Open, Intents
  <2>2. \A x \in Supervisors : drive[x].token \in Nat
    BY <1>2 DEF Drives
  <2> QED BY <1>2, <2>1, <2>2
<1>4. \A token \in Nat : below(token) \in Nat
  <2> TAKE token \in Nat
  <2> DEFINE S == {u \in inUse \ {0} : u <= token}
  <2>1. S \subseteq 0..token
    BY <1>3
  <2>2. IsFiniteSet(0..token)
    BY FS_Interval
  <2>3. IsFiniteSet(S)
    BY <2>1, <2>2, FS_Subset
  <2>4. Cardinality(S) \in Nat
    BY <2>3, FS_CardinalityType
  <2> QED BY <2>4
<1>5. \A token \in Nat : rank(token) \in Nat
  <2> HIDE DEF below
  <2> TAKE token \in Nat
  <2>1. below(token) \in Nat /\ below(lease.token) \in Nat
    BY <1>2, <1>4
  <2> QED BY <1>2, <2>1
<1> HIDE DEF rank, below, inUse
<1>6. \A i \in Intents : LET j == [i EXCEPT !.token = rank(i.token)]
                         IN j \in Intents /\ j.run = i.run /\ j.status = i.status
  <2> TAKE i \in Intents
  <2>1. rank(i.token) \in Nat
    BY <1>5 DEF Intents
  <2> QED BY <2>1 DEF Intents
<1>7. /\ DOMAIN intents' = DOMAIN intents
      /\ \A i \in DOMAIN intents :
           /\ intents'[i] = [intents[i] EXCEPT !.token = rank(intents[i].token)]
           /\ intents'[i] \in Intents /\ intents'[i].run = intents[i].run
           /\ intents'[i].status = intents[i].status
  BY <1>1, <1>2, <1>6
<1>8. intents' \in Seq(Intents)
  <2>1. Len(intents) \in Nat /\ DOMAIN intents = 1..Len(intents)
    BY IntentsDomain DEF DriveInv
  <2>2. intents' \in [1..Len(intents) -> Intents]
    BY <1>1, <1>7, <2>1
  <2> QED BY <2>1, <2>2, SeqDef
<1>9. \A j : OpenIn(intents', j) <=> OpenIn(intents, j)
  BY <1>7 DEF OpenIn
<1>10. lease.token' \in Nat
  BY <1>1, <1>2, <1>5
<1>11. goal' = goal /\ rt' = rt /\ inbox' = inbox /\ mark' = mark /\ ledger' = ledger
  OBVIOUS
<1>12. \A x \in Supervisors : x # s =>
         /\ drive'[x] \in Drives /\ drive'[x].pc = drive[x].pc /\ drive'[x].at = drive[x].at
         /\ Fits(drive'[x], goal, rt, intents', mark, ledger)
  <2> TAKE x \in Supervisors
  <2> HAVE x # s
  <2>1. drive[x] \in Drives /\ Fits(drive[x], goal, rt, intents, mark, ledger)
    BY DriveOf
  <2>2. PICK token : token = rank(drive[x].token)
    OBVIOUS
  <2>3. token \in Nat
    BY <1>5, <2>1, <2>2 DEF Drives
  <2>4. PICK copy : copy = copyOf(x)
    OBVIOUS
  <2>5. /\ copy \in SomeIntent
        /\ (copy = NoIntent) <=> (drive[x].copy = NoIntent)
        /\ copy # NoIntent => copy.run = drive[x].copy.run /\ copy.status = drive[x].copy.status
    <3>1. CASE drive[x].copy = NoIntent
      BY <2>4, <3>1 DEF SomeIntent
    <3>2. CASE drive[x].copy # NoIntent
      <4>1. drive[x].copy \in Intents
        BY <2>1, <3>2 DEF Drives, SomeIntent
      <4>2. copy \in Intents /\ copy.run = drive[x].copy.run /\ copy.status = drive[x].copy.status
        BY <1>6, <2>4, <3>2, <4>1
      <4> QED BY <3>2, <4>2, NoRecord DEF SomeIntent
    <3> QED BY <3>1, <3>2
  <2>6. drive[x].at # 0 /\ drive[x].copy = intents[drive[x].at] => copy = intents'[drive[x].at]
    <3> SUFFICES ASSUME drive[x].at # 0, drive[x].copy = intents[drive[x].at]
                 PROVE  copy = intents'[drive[x].at]
      OBVIOUS
    <3>1. drive[x].at \in DOMAIN intents /\ intents[drive[x].at] \in Intents
      BY IntentAt
    <3>2. drive[x].copy # NoIntent
      BY <3>1, NoRecord
    <3> QED BY <1>7, <2>4, <3>1, <3>2
  <2>7. drive'[x] = Renumbered(drive[x], token, copy)
    BY <1>1, <2>2, <2>4 DEF Renumbered
  <2>8. \A j \in DOMAIN intents : intents'[j].run = intents[j].run
    BY <1>7
  <2>9. PICK J : J = intents'
    OBVIOUS
  <2>10. /\ Renumbered(drive[x], token, copy) \in Drives
         /\ Fits(Renumbered(drive[x], token, copy), goal, rt, J, mark, ledger)
         /\ Renumbered(drive[x], token, copy).pc = drive[x].pc
         /\ Renumbered(drive[x], token, copy).at = drive[x].at
    <3>1. /\ DOMAIN J = DOMAIN intents /\ \A j \in DOMAIN intents : J[j].run = intents[j].run
      BY <1>7, <2>9
    <3>2. \A j : OpenIn(J, j) <=> OpenIn(intents, j)
      BY <1>9, <2>9
    <3>3. drive[x].at # 0 /\ drive[x].copy = intents[drive[x].at] => copy = J[drive[x].at]
      BY <2>6, <2>9
    <3>4. PICK y : y = drive[x]
      OBVIOUS
    <3>5. y \in Drives /\ Fits(y, goal, rt, intents, mark, ledger)
      BY <2>1, <3>4
    <3>6. copy \in SomeIntent
      BY <2>5
    <3>7. (copy = NoIntent) <=> (y.copy = NoIntent)
      BY <2>5, <3>4
    <3>8. copy # NoIntent => copy.run = y.copy.run /\ copy.status = y.copy.status
      BY <2>5, <3>4
    <3>9. y.at # 0 /\ y.copy = intents[y.at] => copy = J[y.at]
      BY <3>3, <3>4
    <3>10. PICK I : I = intents
      OBVIOUS
    <3>11. Fits(y, goal, rt, I, mark, ledger)
      BY <3>5, <3>10
    <3>12. DOMAIN J = DOMAIN I /\ \A j \in DOMAIN I : J[j].run = I[j].run
      BY <3>1, <3>10
    <3>13. \A j : OpenIn(J, j) <=> OpenIn(I, j)
      BY <3>2, <3>10
    <3>14. y.at # 0 /\ y.copy = I[y.at] => copy = J[y.at]
      BY <3>9, <3>10
    <3>15. /\ Renumbered(y, token, copy) \in Drives
           /\ Fits(Renumbered(y, token, copy), goal, rt, J, mark, ledger)
           /\ Renumbered(y, token, copy).pc = y.pc
           /\ Renumbered(y, token, copy).at = y.at
      <4>1. ButTokens(y, copy, I, J)
        BY <3>7, <3>8, <3>12, <3>13, <3>14 DEF ButTokens
      <4> QED BY <2>3, <3>5, <3>6, <3>11, <4>1, RenumberedFits
    <3> QED BY <3>4, <3>15
  <2> QED BY <2>7, <2>9, <2>10
<1>13. drive'[s] = Idle
  BY <1>1
<1>14. /\ drive' \in [Supervisors -> Drives]
       /\ \A t \in Supervisors : Fits(drive'[t], goal', rt', intents', mark', ledger')
       /\ \A t \in Supervisors : InLeg(drive'[t]) => InLeg(drive[t]) /\ drive'[t].at = drive[t].at
  <2>1. Idle \in Drives /\ ~InLeg(Idle)
    BY IdleDrive, IdleFits
  <2>2. Fits(Idle, goal, rt, intents', mark, ledger)
    BY IdleFits
  <2>3. \A t \in Supervisors : drive'[t] \in Drives
    BY <1>12, <1>13, <2>1
  <2>4. drive' \in [Supervisors -> Drives]
    BY <1>1, <2>3
  <2>5. \A t \in Supervisors : Fits(drive'[t], goal', rt', intents', mark', ledger')
    BY <1>11, <1>12, <1>13, <2>2
  <2>6. \A t \in Supervisors : InLeg(drive'[t]) => InLeg(drive[t]) /\ drive'[t].at = drive[t].at
    BY <1>12, <1>13, <2>1 DEF InLeg
  <2> QED BY <2>4, <2>5, <2>6
<1>15. Named(goal, rt, intents) => Named(goal', rt', intents')
  BY <1>9, <1>11 DEF Named
<1>16. Refers(goal', rt', intents')
  BY <1>7, <1>9, <1>11, <1>15 DEF DriveInv, AllFit, Refers
<1>17. /\ goal' \in Goals /\ rt' \in States /\ inbox' \in [Entries -> Deliveries]
       /\ mark' \in [Runs -> Nat] /\ ledger' \in [Runs -> Nat]
  BY <1>11 DEF DriveInv, RecordsOK
<1>18. \A t \in Supervisors : OpenIn(intents', drive[t].at) => OpenIn(intents, drive[t].at)
  BY <1>9
<1> QED BY <1>8, <1>10, <1>14, <1>15, <1>16, <1>17, <1>18, StoreFits

-----------------------------------------------------------------------------
(* Every step keeps the invariant. *)

\* The lease row has a holder and a token; the deadline has passed or not.
LeaseShape == DOMAIN lease = {"holder", "token"}
SupInv == DriveInv /\ LeaseShape /\ late \in BOOLEAN

LEMMA LeaseSteps ==
  ASSUME SupInv, [SupervisorNext]_supVars
  PROVE  LeaseShape'
<1> USE DEF SupInv, LeaseShape
<1>1. CASE UNCHANGED lease
  BY <1>1
<1>2. ASSUME NEW s \in Supervisors, Acquire(s) PROVE LeaseShape'
  BY <1>2 DEF Acquire
<1>3. ASSUME NEW s \in Supervisors, NEW holder, Gone(s, holder) PROVE LeaseShape'
  <2>1. lease'.holder = holder /\ DOMAIN lease' = {"holder", "token"}
    BY <1>3 DEF Gone
  <2> QED BY <2>1
<1>4. ASSUME Lapse \/ Expire \/ ProviderRestarts PROVE LeaseShape'
  BY <1>4 DEF Lapse, Expire, ProviderRestarts
<1>5. ASSUME NEW s \in Supervisors, Step(s) PROVE UNCHANGED lease \/ EndDrive(s)
  <2>1. CASE ReadGoal(s) \/ Decide(s) \/ Claim(s) \/ CloseIntent(s)
    BY <2>1 DEF ReadGoal, Decide, Claim, CloseIntent
  <2>2. CASE SaveCancel(s) \/ SaveEnded(s) \/ ApplyTime(s) \/ LinkRun(s) \/ SettleInbox(s)
    BY <2>2 DEF SaveCancel, SaveEnded, ApplyTime, LinkRun, SettleInbox, WriteAs
  <2>3. CASE ScheduleRetry(s) \/ ResumeRun(s) \/ StartRun(s) \/ Supersede(s)
    BY <2>3 DEF ScheduleRetry, ResumeRun, StartRun, Supersede, RecordAs
  <2>4. CASE SaveRunning(s) \/ Launch(s)
    BY <2>4 DEF SaveRunning, Launch
  <2>5. CASE ReadTotals(s) \/ ReadMark(s) \/ Advance(s)
    BY <2>5 DEF ReadTotals, ReadMark, Advance
  <2>6. CASE WeighGoal(s) \/ Weigh(s) \/ NoteLaunched(s) \/ SettleLeg(s)
    BY <2>6 DEF WeighGoal, Weigh, NoteLaunched, SettleLeg
  <2> QED BY <1>5, <2>1, <2>2, <2>3, <2>4, <2>5, <2>6 DEF Step
<1>6. ASSUME NEW s \in Supervisors, EndDrive(s) \/ Crash(s) PROVE LeaseShape'
  BY <1>3, <1>6 DEF EndDrive, Crash
<1>7. ASSUME NEW s \in Supervisors,
             \/ Spend(s) \/ LegEnds(s) \/ NoticeLoss(s) \/ HearCancel(s) \/ Drain(s) \/ Replaced(s)
      PROVE  UNCHANGED lease
  BY <1>7 DEF Spend, LegEnds, NoticeLoss, HearCancel, Drain, Replaced
<1>8. ASSUME NEW r \in Runs, RunLapses(r) PROVE UNCHANGED lease
  BY <1>8 DEF RunLapses
<1>9. ASSUME DeadlinePasses \/ Host PROVE UNCHANGED lease
  BY <1>9 DEF DeadlinePasses, Host, RequestCancel, HostResume, HostCommand, Deliver
<1>10. CASE UNCHANGED supVars
  BY <1>10 DEF supVars
<1> HIDE DEF SupInv, LeaseShape
<1> QED BY <1>1, <1>2, <1>4, <1>5, <1>6, <1>7, <1>8, <1>9, <1>10 DEF SupervisorNext

LEMMA LateSteps ==
  ASSUME late \in BOOLEAN, [SupervisorNext]_supVars
  PROVE  late' \in BOOLEAN
<1>1. ASSUME NEW s \in Supervisors, Step(s) PROVE UNCHANGED late
  <2>1. CASE ReadGoal(s) \/ Decide(s) \/ Claim(s) \/ CloseIntent(s)
    BY <2>1 DEF ReadGoal, Decide, Claim, CloseIntent
  <2>2. CASE SaveCancel(s) \/ SaveEnded(s) \/ ApplyTime(s) \/ LinkRun(s) \/ SettleInbox(s)
    BY <2>2 DEF SaveCancel, SaveEnded, ApplyTime, LinkRun, SettleInbox, WriteAs
  <2>3. CASE ScheduleRetry(s) \/ ResumeRun(s) \/ StartRun(s) \/ Supersede(s)
    BY <2>3 DEF ScheduleRetry, ResumeRun, StartRun, Supersede, RecordAs
  <2>4. CASE SaveRunning(s) \/ Launch(s) \/ EndDrive(s)
    BY <2>4 DEF SaveRunning, Launch, EndDrive
  <2>5. CASE ReadTotals(s) \/ ReadMark(s) \/ Advance(s)
    BY <2>5 DEF ReadTotals, ReadMark, Advance
  <2>6. CASE WeighGoal(s) \/ Weigh(s) \/ NoteLaunched(s) \/ SettleLeg(s)
    BY <2>6 DEF WeighGoal, Weigh, NoteLaunched, SettleLeg
  <2> QED BY <1>1, <2>1, <2>2, <2>3, <2>4, <2>5, <2>6 DEF Step
<1>2. ASSUME NEW s \in Supervisors,
             \/ Acquire(s) \/ Spend(s) \/ LegEnds(s) \/ NoticeLoss(s) \/ HearCancel(s)
             \/ Crash(s) \/ Drain(s) \/ Replaced(s)
      PROVE  UNCHANGED late
  BY <1>2 DEF Acquire, Spend, LegEnds, NoticeLoss, HearCancel, Crash, Drain, Replaced
<1>3. ASSUME NEW r \in Runs, RunLapses(r) PROVE UNCHANGED late
  BY <1>3 DEF RunLapses
<1>4. ASSUME Lapse \/ Expire \/ ProviderRestarts \/ Host PROVE UNCHANGED late
  BY <1>4 DEF Lapse, Expire, ProviderRestarts, Host, RequestCancel, HostResume, HostCommand,
              Deliver
<1>5. CASE DeadlinePasses
  BY <1>5 DEF DeadlinePasses
<1>6. CASE UNCHANGED supVars
  BY <1>6 DEF supVars
<1> QED BY <1>1, <1>2, <1>3, <1>4, <1>5, <1>6 DEF SupervisorNext

(* The steps of a drive. *)
LEMMA StepFits ==
  ASSUME DriveInv, late \in BOOLEAN, NEW s \in Supervisors, Step(s)
  PROVE  DriveInv'
<1>1. CASE ReadGoal(s)
  BY <1>1, ReadGoalFits
<1>2. CASE Decide(s)
  BY <1>2, DecideFits
<1>3. CASE Claim(s)
  BY <1>3, ClaimFits
<1>4. CASE CloseIntent(s)
  BY <1>4, CloseIntentFits
<1>5. CASE SaveCancel(s) \/ SaveEnded(s) \/ ApplyTime(s) \/ LinkRun(s)
  BY <1>5, WritesFit
<1>6. CASE SettleInbox(s)
  BY <1>6, SettleInboxFits
<1>7. CASE ScheduleRetry(s) \/ ResumeRun(s) \/ StartRun(s) \/ Supersede(s)
  BY <1>7, RecordsFit
<1>8. CASE SaveRunning(s)
  BY <1>8, SaveRunningFits
<1>9. CASE Launch(s)
  BY <1>9, LaunchFits
<1>10. CASE ReadTotals(s)
  BY <1>10, ReadTotalsFits
<1>11. CASE ReadMark(s)
  BY <1>11, ReadMarkFits
<1>12. CASE Advance(s)
  BY <1>12, AdvanceFits
<1>13. CASE WeighGoal(s)
  BY <1>13, WeighGoalFits
<1>14. CASE Weigh(s)
  BY <1>14, WeighFits
<1>15. CASE NoteLaunched(s)
  BY <1>15, NoteLaunchedFits
<1>16. CASE SettleLeg(s)
  BY <1>16, SettleLegFits
<1>17. CASE EndDrive(s)
  <2>1. PICK holder : Gone(s, holder)
    BY <1>17 DEF EndDrive
  <2>2. UNCHANGED <<goal, rt, inbox, mark, ledger>>
    BY <1>17 DEF EndDrive, runs
  <2> QED BY <2>1, <2>2, GoneFits
<1> QED BY <1>1, <1>2, <1>3, <1>4, <1>5, <1>6, <1>7, <1>8, <1>9, <1>10, <1>11, <1>12, <1>13,
           <1>14, <1>15, <1>16, <1>17 DEF Step

(* Steps that change no record and no drive. *)
LEMMA QuietStep ==
  ASSUME DriveInv, UNCHANGED <<store, ledger, drive>>, lease.token' \in Nat
  PROVE  DriveInv'
<1>1. UNCHANGED <<goal, rt, intents, mark, drive>> /\ inbox' = inbox /\ ledger' = ledger
  BY DEF store
<1>2. inbox \in [Entries -> Deliveries] /\ ledger \in [Runs -> Nat]
  BY DEF DriveInv, RecordsOK
<1>3. \A x \in Runs : ledger[x] \in Nat /\ ledger[x] <= ledger[x]
  BY <1>2
<1> QED BY <1>1, <1>2, <1>3, QuietFits

LEMMA SpendFacts ==
  ASSUME DriveInv, NEW s \in Supervisors, Spend(s)
  PROVE  /\ RunOf(s) \in Runs /\ RunOf(s) <= rt.runs
         /\ ledger' \in [Runs -> Nat] /\ ledger' = [ledger EXCEPT ![RunOf(s)] = @ + 1]
         /\ \A x \in Runs : ledger[x] <= ledger'[x]
<1>1. drive[s].pc = "running" /\ ledger' = [ledger EXCEPT ![RunOf(s)] = @ + 1]
  BY DEF Spend, In
<1>2. drive[s].at # 0
  BY <1>1, DriveOf DEF Fits, AtFits, LegPcs
<1>3. drive[s].at \in DOMAIN intents /\ intents[drive[s].at].run \in Runs
  BY <1>2, IntentAt
<1>4. RunOf(s) \in Runs /\ RunOf(s) <= rt.runs
  BY <1>3 DEF RunOf, DriveInv, AllFit, Refers
<1>5. ledger \in [Runs -> Nat]
  BY DEF DriveInv, RecordsOK
<1>6. ledger' \in [Runs -> Nat] /\ \A x \in Runs : ledger[x] <= ledger'[x]
  BY <1>1, <1>4, <1>5
<1> QED BY <1>1, <1>4, <1>6

LEMMA DeliverFits ==
  ASSUME DriveInv, NEW e \in Entries, Deliver(e)
  PROVE  DriveInv'
<1>1. inbox \in [Entries -> Deliveries] /\ goal.waits \in Nat /\ ledger \in [Runs -> Nat]
      /\ lease.token \in Nat
  BY DEF DriveInv, RecordsOK, Goals
<1>2. inbox' = [inbox EXCEPT ![e] = [as |-> "pending", dated |-> goal.waits]]
  BY DEF Deliver
<1>3. [as |-> "pending", dated |-> goal.waits] \in Deliveries
  BY <1>1 DEF Deliveries
<1>4. inbox' \in [Entries -> Deliveries]
  BY <1>1, <1>2, <1>3
<1>5. UNCHANGED <<goal, rt, intents, mark, drive>> /\ ledger' = ledger /\ lease' = lease
  BY DEF Deliver, runs
<1>6. \A x \in Runs : ledger[x] \in Nat /\ ledger[x] <= ledger'[x]
  BY <1>1, <1>5
<1> QED BY <1>1, <1>4, <1>5, <1>6, QuietFits

(* What the host does. *)
LEMMA HostFits ==
  ASSUME DriveInv, Host
  PROVE  DriveInv'
BY RequestCancelFits, HostResumeFits, HostCommandFits, DeliverFits DEF Host

LEMMA NextFits ==
  ASSUME SupInv, [SupervisorNext]_supVars
  PROVE  SupInv'
<1>1. DriveInv /\ LeaseShape /\ lease.token \in Nat /\ late \in BOOLEAN
  BY DEF SupInv, DriveInv, RecordsOK
<1>2. ASSUME NEW s \in Supervisors,
             \/ Acquire(s) \/ Step(s) \/ LegEnds(s) \/ NoticeLoss(s) \/ Drain(s)
      PROVE  DriveInv'
  BY <1>1, <1>2, AcquireFits, StepFits, LegEndsFits, NoticeFits, DrainFits
<1>3. ASSUME NEW s \in Supervisors, Crash(s) PROVE DriveInv'
  <2>1. Gone(s, lease.holder) /\ UNCHANGED <<goal, rt, inbox, mark, ledger>>
    BY <1>3 DEF Crash, runs
  <2> QED BY <1>1, <2>1, GoneFits
<1>4. ASSUME NEW s \in Supervisors, Spend(s) PROVE DriveInv'
  <2>1. ledger' \in [Runs -> Nat] /\ \A x \in Runs : ledger[x] <= ledger'[x]
    BY <1>1, <1>4, SpendFacts
  <2>2. UNCHANGED <<goal, rt, intents, mark, drive>> /\ inbox' = inbox /\ lease' = lease
    BY <1>4 DEF Spend, store
  <2>3. inbox \in [Entries -> Deliveries]
    BY <1>1 DEF DriveInv, RecordsOK
  <2> QED BY <1>1, <2>1, <2>2, <2>3, QuietFits
<1>5. ASSUME NEW s \in Supervisors, HearCancel(s) \/ Replaced(s) PROVE DriveInv'
  <2>1. UNCHANGED <<store, ledger, drive>> /\ lease' = lease
    BY <1>5 DEF HearCancel, Replaced, runs
  <2> QED BY <1>1, <2>1, QuietStep
<1>6. ASSUME NEW r \in Runs, RunLapses(r) PROVE DriveInv'
  <2>1. UNCHANGED <<store, ledger, drive>> /\ lease' = lease
    BY <1>6 DEF RunLapses
  <2> QED BY <1>1, <2>1, QuietStep
<1>7. ASSUME DeadlinePasses \/ UNCHANGED supVars PROVE DriveInv'
  <2>1. UNCHANGED <<store, ledger, drive>> /\ lease' = lease
    BY <1>7 DEF DeadlinePasses, runs, supVars
  <2> QED BY <1>1, <2>1, QuietStep
<1>8. ASSUME Lapse \/ Expire \/ ProviderRestarts PROVE DriveInv'
  <2>1. UNCHANGED <<store, ledger, drive>>
    BY <1>8 DEF Lapse, Expire, ProviderRestarts, runs
  <2>2. lease.token' \in Nat
    BY <1>1, <1>8 DEF Lapse, Expire, ProviderRestarts, LeaseShape
  <2> QED BY <1>1, <2>1, <2>2, QuietStep
<1>9. ASSUME Host PROVE DriveInv'
  BY <1>1, <1>9, HostFits
<1>10. DriveInv'
  BY <1>2, <1>3, <1>4, <1>5, <1>6, <1>7, <1>8, <1>9 DEF SupervisorNext
<1>11. late' \in BOOLEAN
  BY <1>1, LateSteps
<1> QED BY <1>10, <1>11, LeaseSteps DEF SupInv

LEMMA InitFits ==
  ASSUME SupervisorInit
  PROVE  SupInv
<1>1. PICK starts \in BOOLEAN :
        /\ goal = [status |-> "active", waiting |-> "none", waits |-> 0, accepted |-> FALSE,
                   run |-> IF starts THEN 1 ELSE 0, spent |-> 0]
        /\ rt = [phase |-> IF starts THEN "dispatching" ELSE "idle",
                 runs |-> IF starts THEN 1 ELSE 0, retries |-> 0, cancel |-> "none",
                 active |-> IF starts THEN 1 ELSE 0]
        /\ intents = IF starts
                     THEN <<[kind |-> "start", run |-> 1, status |-> "pending", token |-> 0]>>
                     ELSE <<>>
  BY DEF SupervisorInit
<1>2. /\ inbox = [e \in Entries |-> [as |-> "none", dated |-> 0]]
      /\ mark = [r \in Runs |-> 0] /\ ledger = [r \in Runs |-> 0]
      /\ lease = [holder |-> Nobody, token |-> 0]
      /\ drive = [s \in Supervisors |-> Idle]
  BY DEF SupervisorInit
<1>3. MaxRuns \in Nat /\ MaxRuns >= 1 /\ 1 \in Runs
  BY SupervisorAssumption DEF Runs
<1>4. goal \in Goals
  BY <1>1 DEF Goals, GoalStatuses
<1>5. rt \in States /\ rt.cancel = "none"
  BY <1>1, <1>3 DEF States
<1>6. intents \in Seq(Intents)
  <2>1. [kind |-> "start", run |-> 1, status |-> "pending", token |-> 0] \in Intents
    BY <1>3 DEF Intents, OpenStatuses
  <2> QED BY <1>1, <2>1
<1>7. inbox \in [Entries -> Deliveries]
  BY <1>2 DEF Deliveries
<1>8. mark \in [Runs -> Nat] /\ ledger \in [Runs -> Nat] /\ lease.token \in Nat
  BY <1>2
<1>9. drive \in [Supervisors -> Drives]
  BY <1>2, IdleDrive
<1>10. RecordsOK
  BY <1>4, <1>5, <1>6, <1>7, <1>8, <1>9 DEF RecordsOK
<1>11. Refers(goal, rt, intents)
  <2>1. CASE starts
    <3>1. /\ rt.active = 1 /\ rt.runs = 1 /\ DOMAIN intents = {1}
          /\ intents[1].run = 1 /\ intents[1].status = "pending"
      BY <1>1, <2>1
    <3>2. Named(goal, rt, intents)
      BY <3>1 DEF Named, OpenIn, OpenStatuses
    <3> QED BY <1>5, <3>1, <3>2 DEF Refers
  <2>2. CASE ~starts
    <3>1. rt.active = 0 /\ rt.phase = "idle" /\ DOMAIN intents = {}
      BY <1>1, <2>2
    <3> QED BY <1>5, <3>1 DEF Refers
  <2> QED BY <1>1, <2>1, <2>2
<1>12. \A t \in Supervisors : Fits(drive[t], goal, rt, intents, mark, ledger) /\ ~InLeg(drive[t])
  BY <1>2, IdleFits
<1>13. LegsAgree(drive, goal, rt, intents)
  BY <1>12 DEF LegsAgree
<1>14. DOMAIN lease = {"holder", "token"} /\ late \in BOOLEAN
  BY <1>2 DEF SupervisorInit
<1> QED BY <1>10, <1>11, <1>12, <1>13, <1>14 DEF SupInv, LeaseShape, DriveInv, AllFit

(* What every drive read and decided holds as far as its next write relies *)
(* on it: the plan is one its state allows, and the intent, the goal and   *)
(* the runtime state it was decided on are as they were unless a write it  *)
(* notices came between (DriveInv).                                        *)
THEOREM DrivesFit == SupervisorSpec => []SupInv
<1>1. SupervisorInit => SupInv
  BY InitFits
<1>2. SupInv /\ [SupervisorNext]_supVars => SupInv'
  BY NextFits
<1> QED BY <1>1, <1>2, PTL DEF SupervisorSpec

(* A state that says a run is on its way names an open intent for it,      *)
(* unless the goal is over or about to be (goal/runtime/store-shared.ts),  *)
(* for any supervisors, crashes and restarts of the lease provider.        *)
THEOREM WorkStaysNamed == SupervisorSpec => []WorkIsNamed
<1>1. SupInv => WorkIsNamed
  <2> SUFFICES ASSUME SupInv, rt.phase \in {"dispatching", "running", "draining"}
               PROVE  ActiveOpen \/ rt.cancel = "asked" \/ Terminal(goal)
    BY DEF WorkIsNamed
  <2>1. Refers(goal, rt, intents) /\ rt \in States
    BY DEF SupInv, DriveInv, AllFit, RecordsOK
  <2>2. Named(goal, rt, intents)
    BY <2>1 DEF Refers
  <2>3. rt.cancel \in {"none", "asked", "applied"}
    BY <2>1 DEF States
  <2>4. 0 \notin DOMAIN intents
    BY IntentsDomain DEF SupInv, DriveInv
  <2> QED BY <2>1, <2>2, <2>3, <2>4 DEF Refers, Named, OpenIn, ActiveOpen, OpenAt
<1> QED BY <1>1, DrivesFit, PTL

-----------------------------------------------------------------------------
(* The contract: every step of GoalSupervisor is a step of GoalContract, or  *)
(* changes nothing its host sees.  What a drive writes was decided earlier,  *)
(* on records that may have changed since; SupInv says what of that still    *)
(* holds when the write is made.                                             *)

Seen == [e \in Entries |-> inbox[e].as]
HostSees == <<goal.status, rt.cancel, rt.runs, Seen, ledger, mark, goal.spent>>
ContractStep == [Contract!ContractNext]_HostSees

-----------------------------------------------------------------------------
(* The steps of the contract, as changes of the records. *)

LEMMA StillStep ==
  ASSUME goal'.status = goal.status, goal'.spent = goal.spent,
         rt'.cancel = rt.cancel, rt'.runs = rt.runs, UNCHANGED <<inbox, mark, ledger>>
  PROVE  ContractStep
BY DEF ContractStep, HostSees, Seen

LEMMA TurnStep ==
  ASSUME goal' \in Goals, ~Terminal(goal), goal'.spent = goal.spent, rt'.runs = rt.runs,
         UNCHANGED <<inbox, mark, ledger>>,
         goal'.status = "cancelled" => rt'.cancel = "applied",
         \/ rt'.cancel = rt.cancel
         \/ rt.cancel \in {"none", "asked"} /\ rt'.cancel = "applied" /\ Terminal(goal')
  PROVE  ContractStep
<1>1. goal'.status \in {"active", "waiting"} \cup Contract!EndStatuses
  BY DEF Goals, GoalStatuses, Contract!EndStatuses
<1>2. ~Contract!HasEnded
  BY DEF Terminal, Contract!HasEnded, Contract!EndStatuses
<1>3. Seen' = Seen
  BY DEF Seen
<1>4. rt'.cancel # rt.cancel => goal'.status \in Contract!EndStatuses
  BY DEF Terminal, Contract!EndStatuses
<1>5. CASE rt'.cancel = rt.cancel
  <2>1. Contract!Turn
    BY <1>1, <1>2, <1>3, <1>5 DEF Contract!Turn, Seen
  <2> QED BY <2>1 DEF ContractStep, Contract!ContractNext
<1>6. CASE rt.cancel = "asked" /\ rt'.cancel = "applied"
  <2>1. Contract!Turn
    BY <1>1, <1>2, <1>3, <1>4, <1>6 DEF Contract!Turn, Seen
  <2> QED BY <2>1 DEF ContractStep, Contract!ContractNext
<1>7. CASE rt.cancel = "none" /\ rt'.cancel = "applied"
  <2>1. Contract!EndByRun
    BY <1>2, <1>3, <1>4, <1>7 DEF Contract!EndByRun, Seen
  <2> QED BY <2>1 DEF ContractStep, Contract!ContractNext
<1> QED BY <1>5, <1>6, <1>7

LEMMA AppliedStep ==
  ASSUME Terminal(goal), goal' = goal, rt.cancel = "asked", rt'.cancel = "applied",
         rt'.runs = rt.runs, UNCHANGED <<inbox, mark, ledger>>
  PROVE  ContractStep
<1>1. Contract!HasEnded
  BY DEF Terminal, Contract!HasEnded, Contract!EndStatuses
<1>2. Contract!ApplyToEnded
  BY <1>1 DEF Contract!ApplyToEnded, Seen
<1> QED BY <1>2 DEF ContractStep, Contract!ContractNext

LEMMA BeginStep ==
  ASSUME goal'.status = goal.status, goal'.spent = goal.spent,
         rt.cancel = "none", rt'.cancel = "none", rt.runs + 1 \in Runs, rt'.runs = rt.runs + 1,
         UNCHANGED <<inbox, mark, ledger>>
  PROVE  ContractStep
<1>1. Contract!Begin
  BY DEF Contract!Begin, Contract!MayBegin, Seen
<1> QED BY <1>1 DEF ContractStep, Contract!ContractNext

LEMMA SettleStep ==
  ASSUME NEW e \in Entries, NEW as \in Dispositions, NEW dated, inbox \in [Entries -> Deliveries],
         inbox[e].as = "pending", inbox' = [inbox EXCEPT ![e] = [as |-> as, dated |-> dated]],
         as = "applied" => goal.status = "waiting" /\ goal'.status = "active",
         as # "applied" => goal'.status = goal.status,
         as = "terminal" => Terminal(goal),
         goal'.spent = goal.spent, rt'.cancel = rt.cancel, UNCHANGED <<mark, ledger>>,
         \/ rt'.runs = rt.runs
         \/ /\ rt.cancel = "none" /\ as # "terminal"
            /\ rt.runs + 1 \in Runs /\ rt'.runs = rt.runs + 1
  PROVE  ContractStep
<1>1. Seen[e] = "pending" /\ Seen' = [Seen EXCEPT ![e] = as]
  BY DEF Seen
<1>2. as \in {"applied", "unmatched", "stale", "terminal"}
  BY DEF Dispositions
<1>3. as = "terminal" => Contract!HasEnded
  BY DEF Terminal, Contract!HasEnded, Contract!EndStatuses
<1>4. rt'.runs = rt.runs \/ (Contract!MayBegin /\ as # "terminal")
  BY DEF Contract!MayBegin
<1>5. IF as = "applied" THEN goal.status = "waiting" /\ goal'.status = "active"
      ELSE goal'.status = goal.status
  OBVIOUS
<1>6. Contract!Settle(e)
  BY <1>1, <1>2, <1>3, <1>4, <1>5 DEF Contract!Settle, Seen
<1> QED BY <1>6 DEF ContractStep, Contract!ContractNext

LEMMA DeliverStep ==
  ASSUME NEW e \in Entries, inbox \in [Entries -> Deliveries], Deliver(e)
  PROVE  ContractStep
<1>1. inbox[e].as = "none" /\ UNCHANGED <<goal, rt, mark, ledger>>
      /\ inbox' = [inbox EXCEPT ![e] = [as |-> "pending", dated |-> goal.waits]]
  BY DEF Deliver, runs
<1>2. Seen[e] = "none" /\ Seen' = [Seen EXCEPT ![e] = "pending"]
  BY <1>1 DEF Seen
<1>3. Contract!Deliver(e)
  BY <1>1, <1>2 DEF Contract!Deliver, Seen
<1> QED BY <1>3 DEF ContractStep, Contract!ContractNext

LEMMA SpendStep ==
  ASSUME SupInv, NEW s \in Supervisors, Spend(s)
  PROVE  ContractStep
<1>1. /\ RunOf(s) \in Runs /\ RunOf(s) <= rt.runs
      /\ ledger' = [ledger EXCEPT ![RunOf(s)] = @ + 1]
  BY SpendFacts DEF SupInv
<1>2. UNCHANGED <<goal, rt, inbox, mark>>
  BY DEF Spend, store
<1>3. PICK r \in Runs : r = RunOf(s)
  BY <1>1
<1>4. Contract!SpendMore(r)
  BY <1>1, <1>2, <1>3 DEF Contract!SpendMore, Seen
<1> QED BY <1>4 DEF ContractStep, Contract!ContractNext

-----------------------------------------------------------------------------
(* What a drive writes. *)

(* A checked write of the state and the goal, as it was planned. *)
LEMMA SaveStep ==
  ASSUME DriveInv, NEW s \in Supervisors,
         drive[s].next # NoGoal => drive[s].goalFresh,
         goal' = IF drive[s].next = NoGoal THEN goal ELSE drive[s].next,
         drive[s].plan # "settle",
         rt'.runs = rt.runs, UNCHANGED <<inbox, mark, ledger>>,
         drive[s].plan # "cancel" => rt'.cancel = rt.cancel,
         drive[s].plan = "cancel" =>
           /\ rt'.cancel = "applied"
           /\ drive[s].next = NoGoal => rt.cancel = "asked"
  PROVE  ContractStep
<1>1. /\ goal \in Goals /\ goal' \in Goals /\ goal'.spent = goal.spent
      /\ drive[s].next = NoGoal => goal' = goal
      /\ drive[s].next # NoGoal =>
           /\ goal' = drive[s].next /\ Follows(drive[s].plan, goal, goal')
           /\ goal'.status \in NextStatuses(drive[s].plan)
  BY NextGoal
<1>2. GoalFits(drive[s], goal) /\ Refers(goal, rt, intents) /\ rt \in States
  BY DriveOf DEF DriveInv, AllFit, RecordsOK
<1>3. CASE drive[s].next = NoGoal
  <2>1. goal' = goal
    BY <1>1, <1>3
  <2>2. CASE drive[s].plan = "cancel"
    <3>1. Terminal(goal)
      BY <1>2, <1>3, <2>2 DEF GoalFits
    <3> QED BY <1>3, <2>1, <2>2, <3>1, AppliedStep
  <2>3. CASE drive[s].plan # "cancel"
    BY <2>1, <2>3, StillStep
  <2> QED BY <2>2, <2>3
<1>4. CASE drive[s].next # NoGoal
  <2>1. ~Terminal(goal) /\ goal'.status \in NextStatuses(drive[s].plan)
    BY <1>1, <1>4 DEF Follows
  <2>2. CASE drive[s].plan = "cancel"
    <3>1. goal'.status \in {"failed", "cancelled"} /\ Terminal(goal')
      BY <2>1, <2>2 DEF NextStatuses, Terminal
    <3>2. rt.cancel \in {"none", "asked"}
      BY <1>2, <2>1 DEF Refers, States
    <3> QED BY <1>1, <2>1, <2>2, <3>1, <3>2, TurnStep
  <2>3. CASE drive[s].plan # "cancel"
    <3>1. goal'.status # "cancelled"
      BY <2>1, <2>3 DEF NextStatuses
    <3> QED BY <1>1, <2>1, <2>3, <3>1, TurnStep
  <2> QED BY <2>2, <2>3
<1> QED BY <1>3, <1>4

(* SaveCancel, SaveEnded, ApplyTime, LinkRun. *)
LEMMA WriteAsStep ==
  ASSUME DriveInv, NEW s \in Supervisors, NEW plan, NEW state, NEW then,
         WriteAs(s, plan, state, then), plan # "settle", state.runs = rt.runs,
         plan # "cancel" => state.cancel = rt.cancel,
         plan = "cancel" => state.cancel = "applied"
  PROVE  ContractStep
<1>1. UNCHANGED <<mark, ledger>> /\ drive[s].plan = plan /\ drive[s].pc = "writing"
  BY DEF WriteAs, Planned, In, runs
<1>2. CASE ~Current(s)
  <2>1. UNCHANGED <<rt, goal, inbox>>
    BY <1>2 DEF WriteAs, Refused
  <2> QED BY <1>1, <2>1, StillStep
<1>3. CASE Current(s)
  <2>1. /\ goal' = (IF drive[s].next = NoGoal THEN goal ELSE drive[s].next)
        /\ rt' = state /\ UNCHANGED inbox
    BY <1>3 DEF WriteAs, Save, SaveWith
  <2>2. drive[s].rtFresh /\ (drive[s].next # NoGoal => drive[s].goalFresh)
    BY <1>3 DEF Current
  <2>3. plan = "cancel" => rt.cancel = "asked"
    BY <1>1, <2>2, DriveOf DEF StateFits
  <2> QED BY <1>1, <2>1, <2>2, <2>3, SaveStep
<1> QED BY <1>2, <1>3

LEMMA WriteSteps ==
  ASSUME DriveInv, NEW s \in Supervisors,
         SaveCancel(s) \/ SaveEnded(s) \/ ApplyTime(s) \/ LinkRun(s)
  PROVE  ContractStep
<1>1. CASE SaveCancel(s)
  <2>1. WriteAs(s, "cancel", CancelApplied(rt), Stop(drive[s]))
    BY <1>1 DEF SaveCancel
  <2> QED BY <2>1, StateFacts, WriteAsStep
<1>2. CASE SaveEnded(s)
  <2>1. WriteAs(s, "ended", Done(rt), Stop(drive[s]))
    BY <1>2 DEF SaveEnded
  <2> QED BY <2>1, StateFacts, WriteAsStep
<1>3. CASE ApplyTime(s)
  <2>1. PICK state : state = IF rt.active = 0 THEN [rt EXCEPT !.phase = "done"] ELSE rt
    OBVIOUS
  <2>2. WriteAs(s, "time", state, Again(drive[s]))
    BY <1>3, <2>1 DEF ApplyTime
  <2>3. rt \in States
    BY StateFacts
  <2>4. state.runs = rt.runs /\ state.cancel = rt.cancel
    BY <2>1, <2>3 DEF States
  <2> QED BY <2>2, <2>4, WriteAsStep
<1>4. CASE LinkRun(s)
  <2>1. WriteAs(s, "link", rt, Again(drive[s]))
    BY <1>4 DEF LinkRun
  <2> QED BY <2>1, WriteAsStep
<1> QED BY <1>1, <1>2, <1>3, <1>4

(* A retry, a resume or a fresh intent for the same run. *)
LEMMA RecordAsStep ==
  ASSUME DriveInv, NEW s \in Supervisors, NEW plan \in {"retry", "resume", "supersede"},
         NEW kind, NEW run, NEW state, RecordAs(s, plan, kind, run, state),
         state.runs = rt.runs, state.cancel = rt.cancel
  PROVE  ContractStep
<1>1. UNCHANGED <<mark, ledger, inbox>> /\ drive[s].plan = plan
  BY DEF RecordAs, Planned, Refused, runs
<1>2. CASE ~Current(s)
  <2>1. UNCHANGED <<rt, goal>>
    BY <1>2 DEF RecordAs, Refused
  <2> QED BY <1>1, <2>1, StillStep
<1>3. CASE Current(s)
  <2>1. goal' = (IF drive[s].next = NoGoal THEN goal ELSE drive[s].next) /\ rt' = state
    BY <1>3 DEF RecordAs, Save, SaveWith
  <2>2. drive[s].next # NoGoal => drive[s].goalFresh
    BY <1>3 DEF Current
  <2>3. plan # "settle" /\ plan # "cancel"
    OBVIOUS
  <2> QED BY <1>1, <2>1, <2>2, <2>3, SaveStep
<1> QED BY <1>2, <1>3

(* A run begins of itself while nothing else is to be done. *)
LEMMA StartRunStep ==
  ASSUME DriveInv, NEW s \in Supervisors, StartRun(s)
  PROVE  ContractStep
<1>1. RecordAs(s, "auto", "start", rt.runs + 1, Started(rt))
  BY DEF StartRun
<1>2. UNCHANGED <<mark, ledger, inbox>> /\ drive[s].plan = "auto"
  BY <1>1 DEF RecordAs, Planned, Refused, runs
<1>3. CASE ~Current(s)
  <2>1. UNCHANGED <<rt, goal>>
    BY <1>1, <1>3 DEF RecordAs, Refused
  <2> QED BY <1>2, <2>1, StillStep
<1>4. CASE Current(s)
  <2>1. goal' = (IF drive[s].next = NoGoal THEN goal ELSE drive[s].next) /\ rt' = Started(rt)
    BY <1>1, <1>4 DEF RecordAs, Save, SaveWith
  <2>2. drive[s].rtFresh /\ (drive[s].next # NoGoal => drive[s].goalFresh)
    BY <1>4 DEF Current
  <2>3. rt.cancel = "none" /\ rt.runs < MaxRuns
    BY <1>2, <2>2, DriveOf DEF StateFits
  <2>4. /\ Started(rt).runs = rt.runs + 1 /\ Started(rt).cancel = rt.cancel
        /\ rt.runs + 1 \in Runs
    BY <2>3, StartedFacts
  <2>5. /\ goal'.spent = goal.spent
        /\ drive[s].next = NoGoal => goal' = goal
        /\ drive[s].next # NoGoal =>
             /\ Follows(drive[s].plan, goal, goal')
             /\ goal'.status \in NextStatuses(drive[s].plan)
    BY <2>1, <2>2, NextGoal
  <2>6. goal'.status = goal.status
    BY <1>2, <2>5 DEF Follows, NextStatuses
  <2> QED BY <1>2, <2>1, <2>3, <2>4, <2>5, <2>6, BeginStep
<1> QED BY <1>3, <1>4

LEMMA RecordSteps ==
  ASSUME DriveInv, NEW s \in Supervisors,
         ScheduleRetry(s) \/ ResumeRun(s) \/ StartRun(s) \/ Supersede(s)
  PROVE  ContractStep
<1>1. rt \in States /\ Slot \in Nat
  BY StateFacts, SlotIsFree
<1>2. CASE ScheduleRetry(s)
  <2>1. PICK state : state = [Dispatching(rt) EXCEPT !.retries = @ + 1]
    OBVIOUS
  <2>2. RecordAs(s, "retry", "retry", ActiveRun, state)
    BY <1>2, <2>1 DEF ScheduleRetry
  <2>3. state.runs = rt.runs /\ state.cancel = rt.cancel
    BY <1>1, <2>1 DEF Dispatching, States
  <2> QED BY <2>2, <2>3, RecordAsStep
<1>3. CASE ResumeRun(s)
  <2>1. PICK state : state = [Dispatching(rt) EXCEPT !.retries = 0]
    OBVIOUS
  <2>2. RecordAs(s, "resume", "resume", ActiveRun, state)
    BY <1>3, <2>1 DEF ResumeRun
  <2>3. state.runs = rt.runs /\ state.cancel = rt.cancel
    BY <1>1, <2>1 DEF Dispatching, States
  <2> QED BY <2>2, <2>3, RecordAsStep
<1>4. CASE StartRun(s)
  BY <1>4, StartRunStep
<1>5. CASE Supersede(s)
  <2>1. CASE rt.active = 0 /\ drive[s].rtFresh
    <3>1. UNCHANGED <<goal, rt, inbox, mark, ledger>>
      BY <1>5, <2>1 DEF Supersede, store, runs
    <3> QED BY <3>1, StillStep
  <2>2. CASE ~(rt.active = 0 /\ drive[s].rtFresh)
    <3>1. PICK kind, run, state : /\ RecordAs(s, "supersede", kind, run, state)
                                  /\ state = Dispatching(rt)
      BY <1>5, <2>2 DEF Supersede
    <3>2. state.runs = rt.runs /\ state.cancel = rt.cancel
      BY <1>1, <3>1 DEF Dispatching, States
    <3> QED BY <3>1, <3>2, RecordAsStep
  <2> QED BY <2>1, <2>2
<1> QED BY <1>2, <1>3, <1>4, <1>5

(* The last intent of a goal that is over closes with the state. *)
LEMMA CloseIntentStep ==
  ASSUME DriveInv, NEW s \in Supervisors, CloseIntent(s)
  PROVE  ContractStep
<1> DEFINE x == drive[s]
           ends == x.plan # "stray" /\ x.last
           ok == x.copyFresh /\ (ends => Current(s))
<1>1. UNCHANGED <<mark, ledger, inbox>> /\ x.pc = "held" /\ x.plan # "launch"
  BY DEF CloseIntent, In, Refused, runs
<1>2. CASE ~(ok /\ ends)
  <2>1. UNCHANGED <<rt, goal>>
    BY <1>2 DEF CloseIntent, Refused
  <2> QED BY <1>1, <2>1, StillStep
<1>3. CASE ok /\ ends
  <2>1. x.plan \in {"cancel", "ended"}
    BY <1>1, <1>3, DriveOf DEF PlanFits, HoldPlans
  <2>2. /\ goal' = (IF x.next = NoGoal THEN goal ELSE x.next)
        /\ rt' = IF x.plan = "cancel" THEN CancelApplied(rt) ELSE Done(rt)
    BY <1>3 DEF CloseIntent, SaveWith
  <2>3. x.rtFresh /\ (x.next # NoGoal => x.goalFresh)
    BY <1>3 DEF Current
  <2>4. x.plan = "cancel" => rt.cancel = "asked"
    BY <1>1, <2>3, DriveOf DEF StateFits
  <2>5. /\ Done(rt).runs = rt.runs /\ Done(rt).cancel = rt.cancel
        /\ CancelApplied(rt).runs = rt.runs /\ CancelApplied(rt).cancel = "applied"
    BY StateFacts
  <2>6. /\ rt'.runs = rt.runs /\ (x.plan # "cancel" => rt'.cancel = rt.cancel)
        /\ x.plan = "cancel" => rt'.cancel = "applied"
    BY <2>1, <2>2, <2>5
  <2>7. x.plan # "settle"
    BY <2>1
  <2> QED BY <1>1, <2>2, <2>3, <2>4, <2>6, <2>7, SaveStep
<1> QED BY <1>2, <1>3

(* Marking the run as working, and taking that back, is not seen. *)
LEMMA LaunchSteps ==
  ASSUME DriveInv, NEW s \in Supervisors, SaveRunning(s) \/ Launch(s)
  PROVE  ContractStep
<1>1. UNCHANGED <<mark, ledger, inbox>> /\ drive[s].plan = "launch"
  <2>1. CASE SaveRunning(s)
    BY <2>1 DEF SaveRunning, Planned, Refused, runs
  <2>2. CASE Launch(s)
    <3>1. drive[s].plan = "launch"
      BY <2>2, DriveOf DEF Launch, In, PlanFits
    <3> QED BY <2>2, <3>1 DEF Launch, runs
  <2> QED BY <2>1, <2>2
<1>2. drive[s].next = NoGoal
  BY <1>1, LaunchFacts
<1>3. goal' = goal /\ (\/ rt' = rt
                       \/ rt' = [rt EXCEPT !.phase = "running"]
                       \/ rt' = [rt EXCEPT !.phase = "dispatching"])
  <2>1. CASE SaveRunning(s)
    BY <1>2, <2>1 DEF SaveRunning, Save, SaveWith, Refused
  <2>2. CASE Launch(s)
    BY <1>2, <2>2 DEF Launch, Save, SaveWith
  <2> QED BY <2>1, <2>2
<1>4. rt \in States
  BY StateFacts
<1>5. rt'.runs = rt.runs /\ rt'.cancel = rt.cancel
  BY <1>3, <1>4 DEF States
<1> QED BY <1>1, <1>3, <1>5, StillStep

(* What a leg means for its goal. *)
LEMMA SettleLegStep ==
  ASSUME DriveInv, NEW s \in Supervisors, SettleLeg(s)
  PROVE  ContractStep
<1> DEFINE x == drive[s]
           ok == /\ x.plan # "verdict" => x.rtFresh
                 /\ x.next # NoGoal => x.goalFresh
                 /\ Closes(x.plan) => x.copyFresh
<1>1. UNCHANGED <<mark, ledger, inbox>> /\ x.pc = "settled"
  BY DEF SettleLeg, In, Refused, runs
<1>2. CASE ~ok
  <2>1. UNCHANGED <<rt, goal>>
    BY <1>2 DEF SettleLeg, Refused
  <2> QED BY <1>1, <2>1, StillStep
<1>3. CASE ok
  <2>1. x.plan \in LegPlans
    BY <1>1, DriveOf DEF PlanFits
  <2>2. /\ goal' = (IF x.next = NoGoal THEN goal ELSE x.next)
        /\ rt' = LegState(x.plan, x.next)
    BY <1>3 DEF SettleLeg, SaveWith
  <2>3. /\ LegState(x.plan, x.next).runs = rt.runs
        /\ x.plan = "cancel" => LegState(x.plan, x.next).cancel = "applied"
        /\ x.plan # "cancel" => LegState(x.plan, x.next).cancel = rt.cancel
    BY <2>1, LegStateFacts
  <2>4. x.plan = "cancel" /\ x.next = NoGoal => rt.cancel = "asked"
    BY <1>3, DriveOf DEF StateFits
  <2>5. x.plan # "settle"
    BY <2>1 DEF LegPlans
  <2>6. x.next # NoGoal => x.goalFresh
    BY <1>3
  <2>7. /\ rt'.runs = rt.runs /\ (x.plan # "cancel" => rt'.cancel = rt.cancel)
        /\ x.plan = "cancel" => rt'.cancel = "applied"
    BY <2>2, <2>3
  <2> QED BY <1>1, <2>2, <2>4, <2>5, <2>6, <2>7, SaveStep
<1> QED BY <1>2, <1>3

(* An event, with the run it starts. *)
LEMMA SettleInboxStep ==
  ASSUME DriveInv, NEW s \in Supervisors, SettleInbox(s)
  PROVE  ContractStep
<1> DEFINE x == drive[s]
           ok == /\ inbox[x.entry].as = "pending"
                 /\ x.next # NoGoal => x.goalFresh
                 /\ x.starts => x.rtFresh
<1>1. UNCHANGED <<mark, ledger>> /\ x.plan = "settle" /\ x.pc = "writing"
  BY DEF SettleInbox, Planned, In, runs
<1>2. CASE ~ok
  <2>1. UNCHANGED <<rt, goal, inbox>>
    BY <1>2 DEF SettleInbox, Refused
  <2> QED BY <1>1, <2>1, StillStep
<1>3. CASE ok
  <2>1. /\ inbox' = [inbox EXCEPT ![x.entry] = [as |-> x.as, dated |-> 0]]
        /\ goal' = (IF x.next = NoGoal THEN goal ELSE x.next)
        /\ x.starts => rt' = Started(rt)
        /\ ~x.starts => rt' = rt
    BY <1>3 DEF SettleInbox
  <2>2. /\ x.entry \in Entries /\ x.as # "none" /\ x.as \in Answers
        /\ x.as = "applied" <=> x.next # NoGoal
        /\ x.starts => x.as # "terminal"
    BY <1>1, DriveOf DEF PlanFits, Drives
  <2>3. x.as \in Dispositions
    BY <2>2 DEF Answers
  <2>4. x.as = "terminal" => Terminal(goal)
    BY DriveOf DEF GoalFits
  <2>5. /\ goal'.spent = goal.spent
        /\ x.next = NoGoal => goal' = goal
        /\ x.next # NoGoal =>
             /\ Follows(x.plan, goal, goal')
             /\ goal'.status \in NextStatuses(x.plan)
    BY <1>3, <2>1, NextGoal
  <2>6. /\ x.as = "applied" => goal.status = "waiting" /\ goal'.status = "active"
        /\ x.as # "applied" => goal'.status = goal.status
    BY <1>1, <2>2, <2>5 DEF Follows, NextStatuses
  <2>7. x.starts => rt.cancel = "none" /\ rt.runs < MaxRuns
    BY <1>1, <1>3, DriveOf DEF StateFits
  <2>8. /\ rt'.cancel = rt.cancel
        /\ \/ rt'.runs = rt.runs
           \/ /\ rt.cancel = "none" /\ x.as # "terminal"
              /\ rt.runs + 1 \in Runs /\ rt'.runs = rt.runs + 1
    BY <2>1, <2>2, <2>7, StartedFacts
  <2>9. inbox \in [Entries -> Deliveries] /\ inbox[x.entry].as = "pending"
    BY <1>3 DEF DriveInv, RecordsOK
  <2>10. PICK as \in Dispositions, e \in Entries : as = x.as /\ e = x.entry
    BY <2>2, <2>3
  <2>11. UNCHANGED <<mark, ledger>>
    BY <1>1
  <2>12. /\ inbox[e].as = "pending" /\ inbox' = [inbox EXCEPT ![e] = [as |-> as, dated |-> 0]]
         /\ as = "applied" => goal.status = "waiting" /\ goal'.status = "active"
         /\ as # "applied" => goal'.status = goal.status
         /\ as = "terminal" => Terminal(goal)
         /\ \/ rt'.runs = rt.runs
            \/ /\ rt.cancel = "none" /\ as # "terminal"
               /\ rt.runs + 1 \in Runs /\ rt'.runs = rt.runs + 1
    BY <2>1, <2>4, <2>6, <2>8, <2>9, <2>10
  <2> QED BY <2>5, <2>8, <2>9, <2>11, <2>12, SettleStep
<1> QED BY <1>2, <1>3

(* A charge: as much as the ledger holds above the watermark, or less. *)
LEMMA AdvanceStep ==
  ASSUME DriveInv, NEW s \in Supervisors, Advance(s)
  PROVE  ContractStep
<1> DEFINE x == drive[s]
<1>1. UNCHANGED <<rt, inbox, ledger>> /\ x.pc = "advancing"
  BY DEF Advance, In, runs
<1>2. CASE ~(x.markFresh /\ x.goalFresh)
  <2>1. UNCHANGED <<mark, goal>>
    BY <1>2 DEF Advance
  <2> QED BY <1>1, <2>1, StillStep
<1>3. CASE x.markFresh /\ x.goalFresh
  <2>1. PICK r : r = RunOf(s)
    OBVIOUS
  <2>2. /\ mark' = [mark EXCEPT ![r] = x.totals]
        /\ goal' = Charged(goal, x.totals - mark[r], x.past)
    BY <1>3, <2>1 DEF Advance
  <2>3. x \in Drives /\ AtFits(x, rt, intents) /\ ChargeFits(x, intents, mark, ledger)
    BY DriveOf
  <2>4. x.at # 0 /\ x.totals \in Nat
    BY <1>1, <2>3 DEF AtFits, LegPcs, Drives
  <2>5. r \in Runs
    BY <2>1, <2>4, IntentAt DEF RunOf
  <2>6. mark[r] < x.totals /\ x.totals <= ledger[r]
    BY <1>1, <1>3, <2>1, <2>3 DEF ChargeFits, RunOf
  <2>7. goal \in Goals /\ mark \in [Runs -> Nat] /\ ledger \in [Runs -> Nat]
    BY DEF DriveInv, RecordsOK
  <2>8. goal.spent \in Nat /\ mark[r] \in Nat /\ ledger[r] \in Nat
    BY <2>5, <2>7 DEF Goals
  <2>9. PICK more : more = x.totals - mark[r]
    OBVIOUS
  <2>10. more \in 1..(ledger[r] - mark[r]) /\ mark[r] < ledger[r]
    BY <2>4, <2>6, <2>8, <2>9
  <2>11. mark' = [mark EXCEPT ![r] = @ + more]
    <3>1. mark[r] + more = x.totals
      BY <2>4, <2>8, <2>9
    <3> QED BY <2>2, <3>1
  <2>12. /\ goal'.spent = goal.spent + more
         /\ goal'.status = goal.status \/ (~Terminal(goal) /\ goal'.status = "failed")
    <3>1. goal' = Charged(goal, more, x.past)
      BY <2>2, <2>9
    <3>2. more \in Nat /\ x.past \in BOOLEAN
      BY <2>3, <2>8, <2>10 DEF Drives
    <3> QED BY <2>7, <3>1, <3>2, ChargedGoal
  <2>13. Contract!Charge(r)
    <3>1. ~Terminal(goal) => ~Contract!HasEnded
      BY DEF Terminal, Contract!HasEnded, Contract!EndStatuses
    <3> QED BY <1>1, <2>10, <2>11, <2>12, <3>1 DEF Contract!Charge, Seen
  <2> QED BY <2>5, <2>13 DEF ContractStep, Contract!ContractNext
<1> QED BY <1>2, <1>3

-----------------------------------------------------------------------------
(* What the host does, and every other step. *)

LEMMA HostSteps ==
  ASSUME DriveInv, Host
  PROVE  ContractStep
<1>1. goal \in Goals /\ rt \in States /\ inbox \in [Entries -> Deliveries]
      /\ Refers(goal, rt, intents)
  BY DEF DriveInv, RecordsOK, AllFit
<1>2. CASE RequestCancel
  <2>1. /\ rt.cancel = "none" /\ rt' = [rt EXCEPT !.cancel = "asked"]
        /\ UNCHANGED <<goal, inbox, mark, ledger>>
    BY <1>2 DEF RequestCancel, HostSave
  <2>2. rt'.cancel = "asked" /\ rt'.runs = rt.runs
    BY <1>1, <2>1 DEF States
  <2>3. Contract!Ask
    BY <2>1, <2>2 DEF Contract!Ask, Seen
  <2> QED BY <2>3 DEF ContractStep, Contract!ContractNext
<1>3. CASE HostResume
  <2>1. PICK next \in {NoGoal} \cup IF goal.status = "waiting" /\ ~late THEN {Active(goal)} ELSE {} :
          HostSave(next, [Dispatching(rt) EXCEPT !.retries = 0])
    BY <1>3 DEF HostResume
  <2>2. UNCHANGED <<inbox, mark, ledger>>
    BY <1>3 DEF HostResume, runs
  <2>3. rt' = [Dispatching(rt) EXCEPT !.retries = 0] /\ goal' = (IF next = NoGoal THEN goal ELSE next)
    BY <2>1 DEF HostSave
  <2>4. Slot \in Nat
    BY SlotIsFree
  <2>5. rt'.runs = rt.runs /\ rt'.cancel = rt.cancel
    BY <1>1, <2>3, <2>4 DEF Dispatching, States
  <2>6. CASE next = NoGoal
    BY <2>2, <2>3, <2>5, <2>6, StillStep
  <2>7. CASE next # NoGoal
    <3>1. goal.status = "waiting" /\ goal' = Active(goal)
      BY <2>1, <2>3, <2>7
    <3>2. goal' \in Goals /\ goal'.status = "active" /\ goal'.spent = goal.spent
      BY <1>1, <3>1, ActiveGoal
    <3>3. ~Terminal(goal)
      BY <3>1 DEF Terminal
    <3> QED BY <2>2, <2>5, <3>2, <3>3, TurnStep
  <2> QED BY <2>6, <2>7
<1>4. ASSUME NEW type \in {"wait", "resume", "fail"}, HostCommand(type) PROVE ContractStep
  <2>1. PICK next : next = Command(goal, type)
    OBVIOUS
  <2>2. /\ next # NoGoal /\ goal' = next /\ UNCHANGED <<inbox, mark, ledger>>
        /\ \/ rt' = rt
           \/ Terminal(next) /\ rt.cancel = "asked" /\ rt' = CancelApplied(rt)
           \/ rt' = Done(rt)
    BY <1>4, <2>1 DEF HostCommand, HostSave
  <2>3. /\ ~Terminal(goal) /\ goal' \in Goals /\ goal'.spent = goal.spent
        /\ goal'.status \in {"active", "waiting", "failed"}
    BY <1>1, <2>1, <2>2, CommandGoal
  <2>4. /\ rt'.runs = rt.runs
        /\ \/ rt'.cancel = rt.cancel
           \/ rt.cancel = "asked" /\ rt'.cancel = "applied" /\ Terminal(goal')
    BY <2>2, StateFacts
  <2> QED BY <2>2, <2>3, <2>4, TurnStep
<1>5. ASSUME NEW e \in Entries, Deliver(e) PROVE ContractStep
  BY <1>1, <1>5, DeliverStep
<1> QED BY <1>2, <1>3, <1>4, <1>5 DEF Host

LEMMA DriveSteps ==
  ASSUME DriveInv, NEW s \in Supervisors, Step(s)
  PROVE  ContractStep
<1>1. CASE SaveCancel(s) \/ SaveEnded(s) \/ ApplyTime(s) \/ LinkRun(s)
  BY <1>1, WriteSteps
<1>2. CASE ScheduleRetry(s) \/ ResumeRun(s) \/ StartRun(s) \/ Supersede(s)
  BY <1>2, RecordSteps
<1>3. CASE CloseIntent(s)
  BY <1>3, CloseIntentStep
<1>4. CASE SaveRunning(s) \/ Launch(s)
  BY <1>4, LaunchSteps
<1>5. CASE SettleLeg(s)
  BY <1>5, SettleLegStep
<1>6. CASE SettleInbox(s)
  BY <1>6, SettleInboxStep
<1>7. CASE Advance(s)
  BY <1>7, AdvanceStep
<1>8. CASE ReadGoal(s) \/ Decide(s) \/ Claim(s) \/ ReadTotals(s) \/ ReadMark(s)
  <2>1. UNCHANGED <<goal, rt, inbox, mark, ledger>>
    BY <1>8 DEF ReadGoal, Decide, Claim, ReadTotals, ReadMark, store, runs
  <2> QED BY <2>1, StillStep
<1>9. CASE WeighGoal(s) \/ Weigh(s) \/ NoteLaunched(s) \/ EndDrive(s)
  <2>1. UNCHANGED <<goal, rt, inbox, mark, ledger>>
    BY <1>9 DEF WeighGoal, Weigh, NoteLaunched, EndDrive, store, runs
  <2> QED BY <2>1, StillStep
<1> QED BY <1>1, <1>2, <1>3, <1>4, <1>5, <1>6, <1>7, <1>8, <1>9 DEF Step

LEMMA EveryStep ==
  ASSUME SupInv, [SupervisorNext]_supVars
  PROVE  ContractStep
<1>1. DriveInv
  BY DEF SupInv
<1>2. ASSUME NEW s \in Supervisors, Step(s) PROVE ContractStep
  BY <1>1, <1>2, DriveSteps
<1>3. ASSUME NEW s \in Supervisors, Spend(s) PROVE ContractStep
  BY <1>3, SpendStep
<1>4. ASSUME NEW s \in Supervisors, Drain(s) PROVE ContractStep
  <2>1. UNCHANGED <<goal, inbox, mark, ledger>>
        /\ (rt' = rt \/ rt' = [rt EXCEPT !.phase = "draining"])
    BY <1>4 DEF Drain, HostSave
  <2>2. rt \in States
    BY <1>1, StateFacts
  <2>3. rt'.runs = rt.runs /\ rt'.cancel = rt.cancel
    BY <2>1, <2>2 DEF States
  <2> QED BY <2>1, <2>3, StillStep
<1>5. ASSUME NEW s \in Supervisors,
             \/ Acquire(s) \/ LegEnds(s) \/ NoticeLoss(s) \/ HearCancel(s) \/ Crash(s) \/ Replaced(s)
      PROVE  ContractStep
  <2>1. UNCHANGED <<goal, rt, inbox, mark, ledger>>
    BY <1>5 DEF Acquire, LegEnds, NoticeLoss, HearCancel, Crash, Replaced, store, runs
  <2> QED BY <2>1, StillStep
<1>6. ASSUME NEW r \in Runs, RunLapses(r) PROVE ContractStep
  <2>1. UNCHANGED <<goal, rt, inbox, mark, ledger>>
    BY <1>6 DEF RunLapses, store
  <2> QED BY <2>1, StillStep
<1>7. ASSUME \/ Lapse \/ Expire \/ ProviderRestarts \/ DeadlinePasses \/ UNCHANGED supVars
      PROVE  ContractStep
  <2>1. UNCHANGED <<goal, rt, inbox, mark, ledger>>
    BY <1>7 DEF Lapse, Expire, ProviderRestarts, DeadlinePasses, supVars, store, runs
  <2> QED BY <2>1, StillStep
<1>8. ASSUME Host PROVE ContractStep
  BY <1>1, <1>8, HostSteps
<1> QED BY <1>2, <1>3, <1>4, <1>5, <1>6, <1>7, <1>8 DEF SupervisorNext

LEMMA ContractStarts ==
  ASSUME SupervisorInit
  PROVE  Contract!ContractInit
<1>1. /\ goal.status = "active" /\ goal.spent = 0
      /\ rt.cancel = "none" /\ rt.runs \in {0, 1}
  BY DEF SupervisorInit
<1>2. /\ inbox = [e \in Entries |-> [as |-> "none", dated |-> 0]]
      /\ mark = [r \in Runs |-> 0] /\ ledger = [r \in Runs |-> 0]
  BY DEF SupervisorInit
<1>3. [e \in Entries |-> inbox[e].as] = [e \in Entries |-> "none"]
  BY <1>2
<1> QED BY <1>1, <1>2, <1>3 DEF Contract!ContractInit

(* The goal as its host sees it behaves as GoalContract says, whatever the *)
(* number of supervisors, runs, events and commands, their crashes, lost   *)
(* leases, drains and provider restarts: a goal that ended stays as it     *)
(* ended, a cancel is applied once and to an ended goal, an event is       *)
(* settled once, with the run it starts, and what a run spent is charged   *)
(* once at most (docs/content/docs/modules/goals.mdx, goal-runtime.mdx).   *)
THEOREM ContractIsKept == SupervisorSpec => KeepsContract
<1>1. SupervisorInit => Contract!ContractInit
  BY ContractStarts
<1>2. SupInv /\ [SupervisorNext]_supVars => [Contract!ContractNext]_Contract!contractVars
  BY EveryStep DEF ContractStep, HostSees, Seen, Contract!contractVars
<1> QED BY <1>1, <1>2, DrivesFit, PTL DEF SupervisorSpec, KeepsContract, Contract!ContractSpec

=============================================================================
