------------------------ MODULE SwarmExecutorProofs ------------------------
(***************************************************************************)
(* Proofs about SwarmExecutor, for any executors, tasks, dependencies,     *)
(* faults and bounds.                                                      *)
(*                                                                         *)
(* An executor works on a copy of the run, in slots, and its commits wait  *)
(* in a queue.  The invariant says how slots and queue fit each other, and *)
(* that an executor whose commits would be taken has the stored run.       *)
(***************************************************************************)
EXTENDS SwarmExecutor, FiniteSetTheorems, SequenceTheorems, WellFoundedInduction, TLAPS

Settled == {"completed", "partial", "cancelled", "suspended"}
Heads == [status : {"none", "running"} \cup Settled, cancel : BOOLEAN]
Statuses ==
  Terminal \cup {"absent", "pending", "running", "suspended", "needs_reconciliation"}
Records == [status : Statuses, saved : {"none", "active", "completed", "failed", "suspended"}]
Copies == [Tasks -> Records]

Kept == Outcomes \ {"needs_reconciliation"}
Ends == Terminal \cup {"suspended", "needs_reconciliation"}
Pieces ==
  [task : Tasks \cup {0}, at : {"none", "starting", "working", "saving", "saved", "finishing", "ended", "broken"},
   end : {"none", "active", "timeout"} \cup Ends, kids : SUBSET Tasks]
Works == [Slots -> Pieces]
Ofs == [start |-> "starting", save |-> "saving", finish |-> "finishing"]
Entries ==
  [kind : DOMAIN Ofs, slot : Slots] \cup [kind : {"skip", "settle", "cancel", "order"}, slot : {0}]

Answers ==
  {NoAnswer, [kind |-> "failed"]} \cup [kind : {"held", "lost"}, cancel : BOOLEAN, drain : BOOLEAN]
Still == {"checking", "asking", "checked", "settling", "failed", "ending", "releasing"}
Claimed == {"recorded", "opening"}
Early == {"idle", "claimed", "loaded", "collected", "restoring", "refused"} \cup Claimed
Driving == Claimed \cup Active
Pcs == Early \cup Active
Judged == {"checking", "asking", "checked", "settling"}

Minds ==
  [pc : Pcs, new : BOOLEAN, recovers : BOOLEAN, given : SUBSET Tasks, fresh : BOOLEAN,
   run : Heads, recs : Copies, work : Works, queue : Seq(Entries),
   failure : {"none", "store", "refused", "conflict", "lost"},
   skips : SUBSET Tasks, as : {"none", "blocked"} \cup Settled,
   found : {"no", "kept", "consumed"}, kept : BOOLEAN, consumed : BOOLEAN,
   draining : BOOLEAN, cancelling : {"no", "queued", "done"}, ordered : BOOLEAN,
   flight : Answers]
-----------------------------------------------------------------------------
\* An executor that does not drive has nothing under way.
Starts(x) ==
  /\ x.pc \in Early =>
       /\ x.queue = <<>> /\ x.work = [s \in Slots |-> NoWork]
       /\ x.flight = NoAnswer /\ ~x.ordered /\ x.cancelling = "no"
  /\ x.pc = "releasing" => x.flight = NoAnswer

\* What a piece of work is about.
Pieced(x) ==
  \A s \in Slots : LET w == x.work[s] IN
    /\ ~Over(w) => w.task \in Tasks
    /\ w.at = "saving" => w.end \in Kept \cup {"active"}
    /\ w.at = "saved" => w.end \in Kept
    /\ w.at = "finishing" => w.end \in Ends

\* What an entry of the queue is for.
Fitting(x, q) ==
  /\ q.kind \in DOMAIN Ofs => x.work[q.slot].at = Ofs[q.kind]
  /\ q.kind = "skip" => x.pc = "skipping"
  /\ q.kind = "settle" => x.pc = "settling"
  /\ q.kind = "cancel" => x.cancelling = "queued"
  /\ q.kind = "order" => x.ordered
Lined(x) ==
  /\ \A i \in DOMAIN x.queue : Fitting(x, x.queue[i])
  /\ \A i, j \in DOMAIN x.queue : x.queue[i] = x.queue[j] => i = j

Quiet(x) == x.pc \in Still => \A s \in Slots : Over(x.work[s])

Doing == {"working", "saving", "saved", "finishing"}
Heading(x) ==
  /\ x.pc \in Claimed \cup Beating => x.run.status = "running"
  /\ x.pc \in {"loaded", "ending", "releasing"} => x.run.status # "none"
  /\ x.pc = "collected" /\ ~x.new => x.run.status # "none"
  /\ x.pc = "skipping" => x.as \in {"cancelled", "blocked"}
  /\ x.pc \in Judged => x.as \in Settled

\* What the copy calls running is in a slot.
Going(x) ==
  x.pc \in Driving /\ x.failure = "none" =>
    \A t \in Tasks : x.recs[t].status = "running" =>
      \E s \in Slots : x.work[s].task = t /\ x.work[s].at \in Doing

\* What is decided before a run settles, still holds when it does.
AllDone(recs) == \A t \in Present(recs) : recs[t].status = "completed"
Settles(x) ==
  x.pc \in Judged /\ x.failure = "none" =>
    /\ x.as = "completed" => AllDone(x.recs)
    /\ x.as = "partial" => ~AllDone(x.recs) /\ \A t \in Present(x.recs) : x.recs[t].status \in Terminal
    /\ x.as = "cancelled" =>
         x.run.cancel /\ \A t \in Present(x.recs) : x.recs[t].status # "pending"

Fit(x) ==
  /\ x \in Minds
  /\ Starts(x) /\ Pieced(x) /\ Lined(x) /\ Quiet(x) /\ Heading(x) /\ Going(x) /\ Settles(x)

\* An executor that read the run.
Reads(x) == x.pc \in Driving \cup {"loaded"} \/ (x.pc = "collected" /\ ~x.new)
Agrees(x) == Reads(x) /\ x.fresh /\ x.failure = "none" => x.run = run /\ x.recs = task

\* A settled run agrees with its tasks.
SettledFits(r, recs) ==
  /\ r.status = "completed" => AllDone(recs)
  /\ r.status = "partial" => ~AllDone(recs) /\ \A t \in Present(recs) : recs[t].status \in Terminal
  /\ r.status = "cancelled" =>
       r.cancel /\ \A t \in Present(recs) : recs[t].status \notin {"pending", "running"}
  /\ r.status = "suspended" => \A t \in Present(recs) : recs[t].status # "running"

StoredOK ==
  /\ run \in Heads /\ task \in Copies /\ SettledFits(run, task)
  /\ run.status = "none" => task = [t \in Tasks |-> Absent]
SwarmInv ==
  /\ StoredOK /\ ex \in [Executors -> Minds]
  /\ \A e \in Executors : Fit(ex[e]) /\ Agrees(ex[e]) /\ (Reads(ex[e]) => run.status # "none")
-----------------------------------------------------------------------------
(* What one executor does to itself. *)

\* What `pc` may become when nothing else that Fit speaks of changes.
Turns(x, y) ==
  \/ y.pc = x.pc
  \/ /\ x.pc \notin {"skipping", "settling"} /\ y.pc \notin {"skipping", "settling"}
     /\ y.pc \in Early => x.pc \in Early
     /\ y.pc \in Still => x.pc \in Still
     /\ y.pc \in Claimed \cup Beating => x.pc \in Claimed \cup Beating
     /\ y.pc \in {"ending", "releasing"} => x.pc \in Claimed \cup Active
     /\ y.pc # "loaded" /\ (y.pc = "collected" => y.new \/ x.pc = "loaded")
     /\ y.pc \in Judged => x.pc \in Judged
     /\ y.pc \in Driving => x.pc \in Driving

LEMMA Same ==
  ASSUME NEW x, Fit(x), NEW y \in Minds, Turns(x, y),
         y.work = x.work, y.queue = x.queue, y.recs = x.recs, y.run = x.run,
         y.as = x.as, y.new = x.new, y.cancelling = x.cancelling, y.ordered = x.ordered,
         y.failure = "none" => x.failure = "none",
         y.pc \in Early \cup {"releasing"} => y.flight = NoAnswer
  PROVE  Fit(y)
<1>1. x \in Minds BY DEF Fit
<1>2. Starts(y)
  BY DEF Fit, Starts, Turns, Early, Claimed
<1>3. Pieced(y)
  BY DEF Fit, Pieced
<1>4. Lined(y)
  <2>1. \A q : Fitting(x, q) => Fitting(y, q)
    BY <1>1 DEF Fitting, Turns
  <2> QED BY <2>1 DEF Fit, Lined
<1>5. Quiet(y)
  BY DEF Fit, Quiet, Turns
<1>6. Heading(y)
  BY DEF Fit, Heading, Turns, Judged, Claimed, Beating, Active
<1>7. Going(y)
  BY DEF Fit, Going, Turns
<1>8. Settles(y)
  BY DEF Fit, Settles, Turns
<1> QED BY <1>2, <1>3, <1>4, <1>5, <1>6, <1>7, <1>8 DEF Fit

\* An executor that holds nothing.
LEMMA Blank ==
  ASSUME NEW y \in Minds, y.pc \in {"idle", "claimed"}, y.queue = <<>>,
         y.work = [s \in Slots |-> NoWork], y.flight = NoAnswer, ~y.ordered,
         y.cancelling = "no"
  PROVE  Fit(y) /\ ~Reads(y)
BY DEF Fit, Starts, Pieced, Lined, Quiet, Heading, Going, Settles, Early, Claimed, Active,
       Beating, Still, Judged, Driving, Over, NoWork, Reads

LEMMA IdleIs ==
  /\ Idle \in Minds /\ Idle.pc = "idle" /\ Idle.queue = <<>>
  /\ Idle.work = [s \in Slots |-> NoWork] /\ Idle.flight = NoAnswer /\ ~Idle.ordered
  /\ Idle.cancelling = "no"
<1>1. Absent \in Records /\ NoWork \in Pieces
  BY DEF Absent, Records, NoWork, Pieces, Statuses, Ends
<1>2. [t \in Tasks |-> Absent] \in Copies /\ [s \in Slots |-> NoWork] \in Works
  BY <1>1 DEF Copies, Works
<1>3. <<>> \in Seq(Entries) /\ NoAnswer \in Answers
  BY DEF Answers, NoAnswer
<1>4. [status |-> "none", cancel |-> FALSE] \in Heads
  BY DEF Heads
<1> QED BY <1>2, <1>3, <1>4 DEF Idle, Minds, Pcs, Early

\* Whether an executor was overtaken is no matter of how it fits itself.
LEMMA Later ==
  ASSUME NEW x, Fit(x)
  PROVE  /\ Fit(Overtaken(x)) /\ Overtaken(x) \in Minds
         /\ Reads(Overtaken(x)) <=> Reads(x)
         /\ Reads(x) => ~Overtaken(x).fresh
<1>1. x \in Minds BY DEF Fit
<1>2. CASE Overtaken(x) = x
  <2>1. CASE x.pc = "idle" \/ (x.pc = "claimed" /\ ~x.recovers)
    BY <1>1, <1>2, <2>1 DEF Reads, Driving, Claimed, Active, Beating
  <2>2. CASE ~(x.pc = "idle" \/ (x.pc = "claimed" /\ ~x.recovers))
    <3>1. x = [x EXCEPT !.fresh = FALSE] BY <1>2, <2>2 DEF Overtaken
    <3>2. x.fresh = FALSE BY <1>1, <3>1 DEF Minds
    <3> QED BY <1>1, <1>2, <3>2
  <2> QED BY <2>1, <2>2
<1>3. CASE Overtaken(x) = [x EXCEPT !.fresh = FALSE]
  <2> DEFINE y == [x EXCEPT !.fresh = FALSE]
  <2>1. y \in Minds /\ y.fresh = FALSE /\ y.pc = x.pc /\ y.flight = x.flight
    BY <1>1 DEF Minds
  <2>2. /\ y.work = x.work /\ y.queue = x.queue /\ y.recs = x.recs /\ y.run = x.run
        /\ y.as = x.as /\ y.new = x.new
    BY <1>1 DEF Minds
  <2>3. y.cancelling = x.cancelling /\ y.ordered = x.ordered /\ y.failure = x.failure
    BY <1>1 DEF Minds
  <2> HIDE DEF y
  <2>4. y.pc \in Early \cup {"releasing"} => y.flight = NoAnswer
    BY <2>1 DEF Fit, Starts
  <2>5. Turns(x, y) BY <2>1 DEF Turns
  <2>6. Fit(y) BY <2>1, <2>2, <2>3, <2>4, <2>5, Same
  <2> QED BY <1>3, <2>1, <2>2, <2>6 DEF Reads, y
<1> QED BY <1>2, <1>3 DEF Overtaken
-----------------------------------------------------------------------------
(* Steps that leave the stored run alone. *)

\* What an executor knows survives what it does to itself.
Knows(x, y) ==
  Reads(y) =>
    /\ Reads(x)
    /\ y.fresh /\ y.failure = "none" =>
         x.fresh /\ x.failure = "none" /\ y.run = x.run /\ y.recs = x.recs

LEMMA Others ==
  ASSUME SwarmInv, NEW e \in Executors, NEW y, To(e, y), UNCHANGED stored, Fit(y),
         Reads(y) => run.status # "none", Agrees(y)
  PROVE  SwarmInv'
<1>1. y \in Minds BY DEF Fit
<1>2. ex' = [ex EXCEPT ![e] = y] /\ run' = run /\ task' = task
  BY DEF To, stored
<1>3. ex' \in [Executors -> Minds] BY <1>1, <1>2 DEF SwarmInv
<1>4. StoredOK' BY <1>2 DEF SwarmInv, StoredOK, SettledFits, AllDone, Present
<1>5. ASSUME NEW d \in Executors
      PROVE  Fit(ex'[d]) /\ Agrees(ex[d])' /\ (Reads(ex'[d]) => run'.status # "none")
  <2>1. CASE d = e
    BY <1>2, <2>1 DEF SwarmInv, Agrees
  <2>2. CASE d # e
    BY <1>2, <2>2 DEF SwarmInv, Agrees
  <2> QED BY <2>1, <2>2
<1> QED BY <1>3, <1>4, <1>5 DEF SwarmInv

LEMMA Alone ==
  ASSUME SwarmInv, NEW e \in Executors, NEW y, To(e, y), UNCHANGED stored, Fit(y),
         Knows(ex[e], y)
  PROVE  SwarmInv'
<1>1. Reads(y) => run.status # "none" BY DEF SwarmInv, Knows
<1>2. Agrees(y) BY DEF SwarmInv, Knows, Agrees
<1> QED BY <1>1, <1>2, Others

LEMMA Still0 ==
  ASSUME SwarmInv, NEW e \in Executors
  PROVE  Fit(ex[e]) /\ ex[e] \in Minds
BY DEF SwarmInv, Fit

\* A step of the world outside that leaves the run and the executors alone.
LEMMA Outer ==
  ASSUME SwarmInv, UNCHANGED stored, UNCHANGED ex
  PROVE  SwarmInv'
BY DEF SwarmInv, StoredOK, SettledFits, AllDone, Present, Agrees, stored

LEMMA AcquireKeeps ==
  ASSUME SwarmInv, NEW e \in Executors, NEW x \in Minds, Acquire(e, x), x.queue = <<>>,
         x.work = [s \in Slots |-> NoWork], x.flight = NoAnswer, ~x.ordered,
         x.cancelling = "no"
  PROVE  SwarmInv'
<1> DEFINE y == [x EXCEPT !.pc = "claimed"]
<1>1. y \in Minds /\ y.pc = "claimed" /\ y.queue = x.queue /\ y.work = x.work
  BY DEF Minds, Pcs, Early
<1>2. y.flight = x.flight /\ y.ordered = x.ordered /\ y.cancelling = x.cancelling
  BY DEF Minds
<1>3. To(e, y) /\ UNCHANGED stored BY DEF Acquire
<1> HIDE DEF y
<1>4. Fit(y) /\ ~Reads(y) BY <1>1, <1>2, Blank
<1> QED BY <1>3, <1>4, Alone DEF Knows

LEMMA BeginKeeps ==
  ASSUME SwarmInv, NEW e \in Executors, Begin(e) \/ Resume(e) \/ Recover(e)
  PROVE  SwarmInv'
<1>1. CASE Begin(e)
  <2> DEFINE x == [Idle EXCEPT !.new = TRUE]
  <2>1. x \in Minds /\ x.queue = Idle.queue /\ x.work = Idle.work /\ x.flight = Idle.flight
    BY IdleIs DEF Minds
  <2>2. x.ordered = Idle.ordered /\ x.cancelling = Idle.cancelling
    BY IdleIs DEF Minds
  <2>3. Acquire(e, x) BY <1>1 DEF Begin
  <2> HIDE DEF x
  <2> QED BY <2>1, <2>2, <2>3, IdleIs, AcquireKeeps
<1>2. CASE Resume(e)
  <2>1. PICK given \in SUBSET Present(task) : Acquire(e, [Idle EXCEPT !.given = given])
    BY <1>2 DEF Resume
  <2> DEFINE x == [Idle EXCEPT !.given = given]
  <2>2. given \in SUBSET Tasks BY DEF Present
  <2>3. x \in Minds /\ x.queue = Idle.queue /\ x.work = Idle.work /\ x.flight = Idle.flight
    BY <2>2, IdleIs DEF Minds
  <2>4. x.ordered = Idle.ordered /\ x.cancelling = Idle.cancelling
    BY IdleIs DEF Minds
  <2>5. Acquire(e, x) BY <2>1
  <2> HIDE DEF x
  <2> QED BY <2>3, <2>4, <2>5, IdleIs, AcquireKeeps
<1>3. CASE Recover(e)
  <2> DEFINE x == [Idle EXCEPT !.recovers = TRUE]
  <2>1. x \in Minds /\ x.queue = Idle.queue /\ x.work = Idle.work /\ x.flight = Idle.flight
    BY IdleIs DEF Minds
  <2>2. x.ordered = Idle.ordered /\ x.cancelling = Idle.cancelling
    BY IdleIs DEF Minds
  <2>3. Acquire(e, x) BY <1>3 DEF Recover
  <2> HIDE DEF x
  <2> QED BY <2>1, <2>2, <2>3, IdleIs, AcquireKeeps
<1> QED BY <1>1, <1>2, <1>3

\* A claim that is refused.
LEMMA Refuses ==
  ASSUME NEW x, Fit(x), x.pc \in {"claimed", "loaded", "collected"}
  PROVE  /\ Fit(Refuse(x)) /\ Refuse(x) \in Minds /\ ~Reads(Refuse(x))
         /\ Refuse(x).failure = x.failure /\ Refuse(x).pc \in {"restoring", "refused"}
<1> DEFINE y == Refuse(x)
<1>1. x \in Minds BY DEF Fit
<1>2. y \in Minds /\ y.pc \in {"restoring", "refused"}
  BY <1>1 DEF Minds, Refuse, Pcs, Early
<1>3. /\ y.work = x.work /\ y.queue = x.queue /\ y.recs = x.recs /\ y.run = x.run
      /\ y.as = x.as /\ y.new = x.new
  BY <1>1 DEF Minds, Refuse
<1>4. /\ y.cancelling = x.cancelling /\ y.ordered = x.ordered /\ y.failure = x.failure
      /\ y.flight = x.flight
  BY <1>1 DEF Minds, Refuse
<1> HIDE DEF y
<1>5. Turns(x, y)
  BY <1>2 DEF Turns, Early, Still, Claimed, Beating, Judged, Driving, Active
<1>6. y.flight = NoAnswer BY <1>4 DEF Fit, Starts, Early
<1>7. Fit(y) BY <1>2, <1>3, <1>4, <1>5, <1>6, Same
<1> QED BY <1>2, <1>4, <1>7 DEF y, Reads, Driving, Claimed, Active, Beating

LEMMA LoadKeeps ==
  ASSUME SwarmInv, NEW e \in Executors, Load(e)
  PROVE  SwarmInv'
<1> DEFINE x == ex[e]
<1>1. Fit(x) /\ x \in Minds BY Still0
<1>2. x.pc = "claimed" /\ ~x.new BY DEF Load, At
<1>3. UNCHANGED stored BY DEF Load
<1>4. CASE To(e, Refuse(x))
  BY <1>1, <1>2, <1>3, <1>4, Refuses, Alone DEF Knows
<1>5. CASE To(e, [x EXCEPT !.pc = "loaded", !.run = run, !.recs = task]) /\ run.status # "none"
  <2> DEFINE y == [x EXCEPT !.pc = "loaded", !.run = run, !.recs = task]
  <2>1. run \in Heads /\ task \in Copies BY DEF SwarmInv, StoredOK
  <2>2. y \in Minds /\ y.pc = "loaded" /\ y.run = run /\ y.recs = task /\ y.new = x.new
    BY <1>1, <2>1 DEF Minds, Pcs, Early
  <2>3. /\ y.work = x.work /\ y.queue = x.queue /\ y.flight = x.flight
        /\ y.cancelling = x.cancelling /\ y.ordered = x.ordered
    BY <1>1 DEF Minds
  <2>4. To(e, y) BY <1>5
  <2> HIDE DEF y
  <2>5. /\ y.queue = <<>> /\ y.work = [s \in Slots |-> NoWork]
        /\ y.flight = NoAnswer /\ ~y.ordered /\ y.cancelling = "no"
    BY <1>1, <1>2, <2>3 DEF Fit, Starts, Early
  <2>6. Starts(y) /\ Pieced(y) /\ Lined(y) /\ Quiet(y)
    BY <2>2, <2>5 DEF Starts, Pieced, Lined, Quiet, Over, NoWork, Still
  <2>7. Heading(y) /\ Going(y) /\ Settles(y)
    BY <1>5, <2>2 DEF Heading, Going, Settles, Claimed, Beating, Judged, Driving, Active
  <2>8. Fit(y) BY <2>2, <2>6, <2>7 DEF Fit
  <2>9. Agrees(y) BY <2>2 DEF Agrees
  <2> QED BY <1>3, <1>5, <2>4, <2>8, <2>9, Others
<1> QED BY <1>4, <1>5 DEF Load

LEMMA AnswerIs ==
  ASSUME NEW e
  PROVE  /\ Answer(e) \in Answers /\ Answer(e) # NoAnswer
         /\ Answer(e).kind \in {"held", "lost"}
         /\ Answer(e).cancel \in BOOLEAN /\ Answer(e).drain \in BOOLEAN
BY DEF Answer, Answers, NoAnswer

LEMMA CollectKeeps ==
  ASSUME SwarmInv, NEW e \in Executors, Collect(e)
  PROVE  SwarmInv'
<1> DEFINE x == ex[e]
<1> DEFINE a == Answer(e)
<1> DEFINE found == IF ~a.cancel THEN "no" ELSE IF hasAck THEN "kept" ELSE "consumed"
<1>1. Fit(x) /\ x \in Minds BY Still0
<1>2. x.pc = "loaded" \/ (x.pc = "claimed" /\ x.new) BY DEF Collect, At
<1>3. UNCHANGED stored BY DEF Collect
<1>4. CASE To(e, Refuse(x))
  BY <1>1, <1>2, <1>3, <1>4, Refuses, Alone DEF Knows
<1>5. CASE To(e, [x EXCEPT !.pc = "collected", !.found = found, !.draining = a.drain])
  <2> DEFINE y == [x EXCEPT !.pc = "collected", !.found = found, !.draining = a.drain]
  <2>1. found \in {"no", "kept", "consumed"} /\ a.drain \in BOOLEAN BY AnswerIs
  <2> HIDE DEF found, a
  <2>2. y \in Minds /\ y.pc = "collected" BY <1>1, <2>1 DEF Minds, Pcs, Early
  <2>3. /\ y.work = x.work /\ y.queue = x.queue /\ y.recs = x.recs /\ y.run = x.run
        /\ y.as = x.as /\ y.new = x.new
    BY <1>1 DEF Minds
  <2>4. /\ y.cancelling = x.cancelling /\ y.ordered = x.ordered /\ y.failure = x.failure
        /\ y.flight = x.flight /\ y.fresh = x.fresh
    BY <1>1 DEF Minds
  <2>5. To(e, y) BY <1>5
  <2> HIDE DEF y
  <2>6. Turns(x, y)
    BY <1>2, <2>2, <2>3 DEF Turns, Early, Still, Claimed, Beating, Judged, Driving, Active
  <2>7. y.flight = NoAnswer BY <1>1, <1>2, <2>4 DEF Fit, Starts, Early
  <2>8. Fit(y) BY <1>1, <2>2, <2>3, <2>4, <2>6, <2>7, Same
  <2>9. Knows(x, y)
    BY <1>2, <2>2, <2>3, <2>4 DEF Knows, Reads, Driving, Claimed, Active, Beating
  <2> QED BY <1>3, <2>5, <2>8, <2>9, Alone
<1> QED BY <1>4, <1>5 DEF Collect

LEMMA AckMootKeeps ==
  ASSUME SwarmInv, NEW e \in Executors, AckMoot(e)
  PROVE  SwarmInv'
<1> DEFINE x == ex[e]
<1>1. Fit(x) /\ x \in Minds BY Still0
<1>2. x.pc = "collected" BY DEF AckMoot, At
<1>3. UNCHANGED stored BY DEF AckMoot
<1>4. CASE To(e, Refuse(x))
  BY <1>1, <1>2, <1>3, <1>4, Refuses, Alone DEF Knows
<1>5. CASE To(e, [x EXCEPT !.found = "consumed"])
  <2> DEFINE y == [x EXCEPT !.found = "consumed"]
  <2>1. y \in Minds /\ y.pc = x.pc BY <1>1 DEF Minds
  <2>2. /\ y.work = x.work /\ y.queue = x.queue /\ y.recs = x.recs /\ y.run = x.run
        /\ y.as = x.as /\ y.new = x.new
    BY <1>1 DEF Minds
  <2>3. /\ y.cancelling = x.cancelling /\ y.ordered = x.ordered /\ y.failure = x.failure
        /\ y.flight = x.flight /\ y.fresh = x.fresh
    BY <1>1 DEF Minds
  <2>4. To(e, y) BY <1>5
  <2> HIDE DEF y
  <2>5. Turns(x, y) BY <2>1 DEF Turns
  <2>6. y.flight = NoAnswer BY <1>1, <1>2, <2>3 DEF Fit, Starts, Early
  <2>7. Fit(y) BY <1>1, <2>1, <2>2, <2>3, <2>5, <2>6, Same
  <2>8. Knows(x, y) BY <2>1, <2>2, <2>3 DEF Knows, Reads
  <2> QED BY <1>3, <2>4, <2>7, <2>8, Alone
<1> QED BY <1>4, <1>5 DEF AckMoot

\* A step that moves `pc` only.
LEMMA MovesOn ==
  ASSUME SwarmInv, NEW e \in Executors, NEW pc \in Pcs, To(e, [ex[e] EXCEPT !.pc = pc]),
         UNCHANGED stored,
         \/ ex[e].pc = "recorded" /\ pc = "opening"
         \/ ex[e].pc = "restoring" /\ pc = "refused"
         \/ ex[e].pc = "ending" /\ pc = "releasing" /\ ex[e].flight = NoAnswer
         \/ ex[e].pc = "checking" /\ pc = "checked"
  PROVE  SwarmInv'
<1> DEFINE x == ex[e]
<1> DEFINE y == [x EXCEPT !.pc = pc]
<1>1. Fit(x) /\ x \in Minds BY Still0
<1>2. y \in Minds /\ y.pc = pc BY <1>1 DEF Minds
<1>3. /\ y.work = x.work /\ y.queue = x.queue /\ y.recs = x.recs /\ y.run = x.run
      /\ y.as = x.as /\ y.new = x.new
  BY <1>1 DEF Minds
<1>4. /\ y.cancelling = x.cancelling /\ y.ordered = x.ordered /\ y.failure = x.failure
      /\ y.flight = x.flight /\ y.fresh = x.fresh
  BY <1>1 DEF Minds
<1> HIDE DEF y
<1>5. Turns(x, y)
  BY <1>2 DEF Turns, Early, Still, Claimed, Beating, Judged, Driving, Active
<1>6. y.pc \in Early \cup {"releasing"} => y.flight = NoAnswer
  BY <1>1, <1>2, <1>4 DEF Fit, Starts, Early, Claimed
<1>7. Fit(y) BY <1>1, <1>2, <1>3, <1>4, <1>5, <1>6, Same
<1>8. Knows(x, y)
  BY <1>2, <1>3, <1>4 DEF Knows, Reads, Driving, Claimed, Active, Beating
<1> QED BY <1>7, <1>8, Alone DEF y

LEMMA TurnsKeep ==
  ASSUME SwarmInv, NEW e \in Executors, AckRecorded(e) \/ Restore(e) \/ End(e)
  PROVE  SwarmInv'
<1>1. {"opening", "refused", "releasing"} \subseteq Pcs
  BY DEF Pcs, Early, Claimed, Active
<1> QED BY <1>1, MovesOn DEF AckRecorded, Restore, End, At

\* A claim that created the run.
LEMMA CreateKeeps ==
  ASSUME SwarmAssumption, SwarmInv, NEW e \in Executors, Create(e)
  PROVE  SwarmInv'
<1> DEFINE x == ex[e]
<1> DEFINE r == [status |-> "running", cancel |-> FALSE]
<1> DEFINE recs == [t \in Tasks |-> IF t \in Roots THEN Fresh ELSE Absent]
<1> DEFINE y == [x EXCEPT !.pc = "opening", !.run = r, !.recs = recs, !.found = "no",
                          !.draining = FALSE]
<1>1. Fit(x) /\ x \in Minds BY Still0
<1>2. x.pc = "collected" /\ x.new BY DEF Create, At
<1>3. r \in Heads /\ recs \in Copies
  BY DEF Heads, Copies, Records, Fresh, Absent, Statuses
<1>4. \A t \in Tasks : recs[t].status # "running" BY DEF Fresh, Absent
<1>5. r.status = "running" OBVIOUS
<1> HIDE DEF r, recs
<1>6. y \in Minds /\ y.pc = "opening" /\ y.run = r /\ y.recs = recs
  BY <1>1, <1>3 DEF Minds, Pcs, Early, Claimed
<1>7. /\ y.work = x.work /\ y.queue = x.queue /\ y.flight = x.flight
      /\ y.cancelling = x.cancelling /\ y.ordered = x.ordered
  BY <1>1 DEF Minds
<1> HIDE DEF y
<1>8. /\ y.queue = <<>> /\ y.work = [s \in Slots |-> NoWork]
      /\ y.flight = NoAnswer /\ ~y.ordered /\ y.cancelling = "no"
  BY <1>1, <1>2, <1>7 DEF Fit, Starts, Early
<1>9. Starts(y) /\ Pieced(y) /\ Lined(y) /\ Quiet(y)
  BY <1>6, <1>8 DEF Starts, Pieced, Lined, Quiet, Over, NoWork, Still
<1>10. Heading(y) /\ Going(y) /\ Settles(y)
  BY <1>4, <1>5, <1>6 DEF Heading, Going, Settles, Claimed, Beating, Judged, Active
<1>11. Fit(y) BY <1>6, <1>9, <1>10 DEF Fit
<1>12. \/ UNCHANGED stored /\ To(e, Refuse(x))
       \/ /\ run.status = "none" /\ run' = r /\ task' = recs
          /\ To(e, y) \/ To(e, Refuse(x))
  BY DEF Create, r, recs, y
<1>13. CASE UNCHANGED stored /\ To(e, Refuse(x))
  BY <1>1, <1>2, <1>13, Refuses, Alone DEF Knows
<1>14. ASSUME run.status = "none", run' = r, task' = recs, NEW z, To(e, z), Fit(z),
              Reads(z) /\ z.fresh /\ z.failure = "none" => z.run = run' /\ z.recs = task'
       PROVE  SwarmInv'
  <2>1. ex' = [ex EXCEPT ![e] = z] /\ z \in Minds BY <1>14 DEF To, Fit
  <2>2. ex' \in [Executors -> Minds] BY <2>1 DEF SwarmInv
  <2>3. StoredOK' BY <1>3, <1>5, <1>14 DEF StoredOK, SettledFits
  <2>4. ASSUME NEW d \in Executors
        PROVE  Fit(ex'[d]) /\ Agrees(ex[d])' /\ (Reads(ex'[d]) => run'.status # "none")
    <3>1. CASE d = e
      BY <1>5, <1>14, <2>1, <3>1 DEF SwarmInv, Agrees
    <3>2. CASE d # e
      BY <1>5, <1>14, <2>1, <3>2 DEF SwarmInv, Agrees
    <3> QED BY <3>1, <3>2
  <2> QED BY <2>2, <2>3, <2>4 DEF SwarmInv
<1>15. CASE run.status = "none" /\ run' = r /\ task' = recs /\ To(e, y)
  BY <1>6, <1>11, <1>14, <1>15
<1>16. CASE run.status = "none" /\ run' = r /\ task' = recs /\ To(e, Refuse(x))
  BY <1>1, <1>2, <1>14, <1>16, Refuses
<1> QED BY <1>12, <1>13, <1>15, <1>16
-----------------------------------------------------------------------------
(* The heartbeat. *)

LEMMA ToldFits ==
  ASSUME NEW x, Fit(x), x.pc \in Beating \cup {"ending"}
  PROVE  /\ Fit(Told(x)) /\ Told(x) \in Minds /\ Knows(x, Told(x))
         /\ Told(x).pc \in Beating \cup {"ending"} /\ (x.pc = "ending" => Told(x).pc = "ending")
         /\ Told(x).failure = x.failure
<1> DEFINE y == Told(x)
<1>1. x \in Minds BY DEF Fit
<1>2. /\ y \in Minds
      /\ y.pc = IF x.pc = "asking" THEN "checked" ELSE IF x.pc = "failed" THEN "ending" ELSE x.pc
  BY <1>1 DEF Minds, Told, Pcs, Active, Beating
<1>3. /\ y.work = x.work /\ y.queue = x.queue /\ y.recs = x.recs /\ y.run = x.run
      /\ y.as = x.as /\ y.new = x.new
  BY <1>1 DEF Minds, Told
<1>4. /\ y.cancelling = x.cancelling /\ y.ordered = x.ordered /\ y.failure = x.failure
      /\ y.flight = x.flight /\ y.fresh = x.fresh
  BY <1>1 DEF Minds, Told
<1> HIDE DEF y
<1>5. Turns(x, y)
  BY <1>2 DEF Turns, Early, Still, Claimed, Beating, Judged, Driving, Active
<1>6. y.pc \notin Early \cup {"releasing"}
  BY <1>2 DEF Early, Claimed, Beating
<1>7. Fit(y) BY <1>2, <1>3, <1>4, <1>5, <1>6, Same
<1>8. Knows(x, y)
  BY <1>2, <1>3, <1>4 DEF Knows, Reads, Driving, Active, Beating
<1>9. y.pc \in Beating \cup {"ending"} /\ (x.pc = "ending" => y.pc = "ending")
  BY <1>2 DEF Beating
<1> QED BY <1>2, <1>4, <1>7, <1>8, <1>9 DEF y

\* A new answer under way, or a flag, is no matter of the copy.
LEMMA FlagsFit ==
  ASSUME NEW x, Fit(x), x.pc \in Beating \cup {"ending"}, NEW y \in Minds,
         y.pc = x.pc, y.work = x.work, y.queue = x.queue, y.recs = x.recs, y.run = x.run,
         y.as = x.as, y.new = x.new, y.cancelling = x.cancelling, y.ordered = x.ordered,
         y.fresh = x.fresh, y.failure = "none" => x.failure = "none"
  PROVE  Fit(y) /\ Knows(x, y)
<1>1. Turns(x, y) BY DEF Turns
<1>2. y.pc \notin Early \cup {"releasing"} BY DEF Early, Claimed, Beating
<1>3. Fit(y) BY <1>1, <1>2, Same
<1> QED BY <1>3 DEF Knows, Reads

LEMMA RenewalKeeps ==
  ASSUME SwarmInv, NEW e \in Executors, NEW x, Fit(x), Knows(ex[e], x), x.pc \in Beating,
         Renewal(e, x)
  PROVE  SwarmInv'
<1>1. x \in Minds BY DEF Fit
<1>2. UNCHANGED stored BY DEF Renewal
<1>3. CASE To(e, Told(x))
  <2>1. Fit(Told(x)) /\ Knows(x, Told(x)) BY ToldFits
  <2>2. Knows(ex[e], Told(x)) BY <2>1 DEF Knows
  <2> QED BY <1>2, <1>3, <2>1, <2>2, Alone
<1>4. ASSUME NEW a \in Answers, To(e, [x EXCEPT !.flight = a])
      PROVE  SwarmInv'
  <2> DEFINE y == [x EXCEPT !.flight = a]
  <2>1. /\ y \in Minds /\ y.pc = x.pc /\ y.work = x.work /\ y.queue = x.queue
        /\ y.recs = x.recs /\ y.run = x.run
    BY <1>1, <1>4 DEF Minds
  <2>2. /\ y.as = x.as /\ y.new = x.new /\ y.cancelling = x.cancelling
        /\ y.ordered = x.ordered /\ y.fresh = x.fresh /\ y.failure = x.failure
    BY <1>1 DEF Minds
  <2>3. To(e, y) BY <1>4
  <2> HIDE DEF y
  <2>4. Fit(y) /\ Knows(x, y) BY <2>1, <2>2, FlagsFit
  <2>5. Knows(ex[e], y) BY <2>4 DEF Knows
  <2> QED BY <1>2, <2>3, <2>4, <2>5, Alone
<1>5. \/ To(e, Told(x)) \/ To(e, [x EXCEPT !.flight = Answer(e)])
      \/ To(e, [x EXCEPT !.flight = [kind |-> "failed"]])
  BY DEF Renewal
<1>6. Answer(e) \in Answers /\ [kind |-> "failed"] \in Answers
  BY AnswerIs DEF Answers
<1> QED BY <1>3, <1>4, <1>5, <1>6

LEMMA BeatKeeps ==
  ASSUME SwarmInv, NEW e \in Executors, Beat(e)
  PROVE  SwarmInv'
<1>1. Fit(ex[e]) BY Still0
<1>2. ex[e].pc \in Beating /\ Renewal(e, ex[e]) BY DEF Beat, At
<1>3. Knows(ex[e], ex[e]) BY DEF Knows
<1> QED BY <1>1, <1>2, <1>3, RenewalKeeps

LEMMA LastBeatKeeps ==
  ASSUME SwarmInv, NEW e \in Executors, LastBeat(e)
  PROVE  SwarmInv'
<1> DEFINE x == ex[e]
<1>1. Fit(x) /\ x \in Minds BY Still0
<1>2. x.pc = "checking" BY DEF LastBeat, At
<1>3. CASE Renewal(e, [x EXCEPT !.pc = "asking"])
  <2> DEFINE y == [x EXCEPT !.pc = "asking"]
  <2>1. y \in Minds /\ y.pc = "asking" BY <1>1 DEF Minds, Pcs, Active, Beating
  <2>2. /\ y.work = x.work /\ y.queue = x.queue /\ y.recs = x.recs /\ y.run = x.run
        /\ y.as = x.as /\ y.new = x.new
    BY <1>1 DEF Minds
  <2>3. /\ y.cancelling = x.cancelling /\ y.ordered = x.ordered /\ y.failure = x.failure
        /\ y.flight = x.flight /\ y.fresh = x.fresh
    BY <1>1 DEF Minds
  <2>4. Renewal(e, y) BY <1>3
  <2> HIDE DEF y
  <2>5. Turns(x, y)
    BY <1>2, <2>1 DEF Turns, Early, Still, Claimed, Beating, Judged, Driving, Active
  <2>6. y.pc \notin Early \cup {"releasing"} /\ y.pc \in Beating
    BY <2>1 DEF Early, Claimed, Beating
  <2>7. Fit(y) BY <1>1, <2>1, <2>2, <2>3, <2>5, <2>6, Same
  <2>8. Knows(x, y)
    BY <1>2, <2>1, <2>2, <2>3 DEF Knows, Reads, Driving, Claimed, Active, Beating
  <2> QED BY <2>4, <2>6, <2>7, <2>8, RenewalKeeps
<1>4. CASE To(e, [x EXCEPT !.pc = "checked"]) /\ UNCHANGED stored
  <2>1. "checked" \in Pcs BY DEF Pcs, Active, Beating
  <2> QED BY <1>2, <1>4, <2>1, MovesOn
<1> QED BY <1>3, <1>4 DEF LastBeat

\* What joins the queue behind what is there.
LEMMA Joins ==
  ASSUME NEW x, Lined(x), x.queue \in Seq(Entries), NEW y, NEW q,
         y.queue = Append(x.queue, q), Fitting(y, q), ~Fitting(x, q),
         \A p \in Entries : Fitting(x, p) => Fitting(y, p)
  PROVE  Lined(y)
<1> DEFINE n == Len(x.queue)
<1>1. n \in Nat /\ DOMAIN x.queue = 1..n /\ DOMAIN y.queue = 1..n+1
  BY SMT
<1>2. \A i \in 1..n : y.queue[i] = x.queue[i] BY SMT
<1>3. y.queue[n+1] = q BY SMT
<1> HIDE DEF n
<1>4. \A i \in 1..n : x.queue[i] \in Entries /\ Fitting(x, x.queue[i])
  BY <1>1 DEF Lined
<1>5. \A i \in 1..n+1 : Fitting(y, y.queue[i])
  <2> SUFFICES ASSUME NEW i \in 1..n+1 PROVE Fitting(y, y.queue[i]) OBVIOUS
  <2>1. CASE i \in 1..n BY <1>2, <1>4, <2>1
  <2>2. CASE i = n+1 BY <1>3, <2>2
  <2> QED BY <1>1, <2>1, <2>2
<1>6. \A i, j \in 1..n+1 : y.queue[i] = y.queue[j] => i = j
  <2> SUFFICES ASSUME NEW i \in 1..n+1, NEW j \in 1..n+1, y.queue[i] = y.queue[j]
               PROVE  i = j
    OBVIOUS
  <2>1. CASE i \in 1..n /\ j \in 1..n BY <1>1, <1>2, <2>1 DEF Lined
  <2>2. CASE i \in 1..n /\ j = n+1 BY <1>2, <1>3, <1>4, <2>2
  <2>3. CASE i = n+1 /\ j \in 1..n BY <1>2, <1>3, <1>4, <2>3
  <2> QED BY <1>1, <2>1, <2>2, <2>3
<1> QED BY <1>1, <1>5, <1>6 DEF Lined

\* What leaves the queue is its head, and nothing else there is alike.
LEMMA Leaves ==
  ASSUME NEW x, Lined(x), x.queue \in Seq(Entries), x.queue # <<>>, NEW y,
         y.queue = Tail(x.queue),
         \A p \in Entries : p # Head(x.queue) /\ Fitting(x, p) => Fitting(y, p)
  PROVE  Lined(y) /\ Head(x.queue) \in Entries /\ Fitting(x, Head(x.queue))
<1> DEFINE n == Len(x.queue)
<1>1. n \in Nat /\ n > 0 /\ DOMAIN x.queue = 1..n /\ DOMAIN y.queue = 1..n-1
  BY SMT
<1>2. \A i \in 1..n-1 : y.queue[i] = x.queue[i+1] /\ i+1 \in 1..n BY SMT
<1>3. Head(x.queue) = x.queue[1] /\ \A i \in 1..n : x.queue[i] \in Entries BY SMT
<1> HIDE DEF n
<1>4. \A i \in 1..n : Fitting(x, x.queue[i]) BY <1>1 DEF Lined
<1>5. \A i \in 1..n-1 : Fitting(y, y.queue[i])
  <2> SUFFICES ASSUME NEW i \in 1..n-1 PROVE Fitting(y, y.queue[i]) OBVIOUS
  <2>1. i+1 \in 1..n /\ 1 \in 1..n /\ i+1 # 1 BY <1>1
  <2>2. x.queue[i+1] # Head(x.queue) BY <1>1, <1>3, <2>1 DEF Lined
  <2> QED BY <1>2, <1>3, <1>4, <2>1, <2>2
<1>6. \A i, j \in 1..n-1 : y.queue[i] = y.queue[j] => i = j
  <2> SUFFICES ASSUME NEW i \in 1..n-1, NEW j \in 1..n-1, y.queue[i] = y.queue[j]
               PROVE  i = j
    OBVIOUS
  <2>1. i+1 \in 1..n /\ j+1 \in 1..n /\ x.queue[i+1] = x.queue[j+1] BY <1>1, <1>2
  <2>2. i+1 = j+1 BY <1>1, <2>1 DEF Lined
  <2> QED BY <2>2
<1>7. Lined(y) BY <1>1, <1>5, <1>6 DEF Lined
<1>8. 1 \in 1..n BY <1>1
<1> QED BY <1>3, <1>4, <1>7, <1>8

\* Steps that change the queue, and not the copy nor the slots.
LEMMA Requeued ==
  ASSUME NEW x, Fit(x), x.pc \in Active, NEW y \in Minds, Lined(y), y.pc \in Active,
         y.work = x.work, y.recs = x.recs, y.run = x.run,
         y.failure = "none" => x.failure = "none",
         y.pc = "releasing" => y.flight = NoAnswer,
         y.pc \in Still => x.pc \in Still \/ Working(x) = {},
         y.pc \in Beating => x.pc \in Beating,
         y.pc = "skipping" => x.pc = "skipping" /\ y.as = x.as,
         y.pc \in Judged => x.pc \in Judged /\ y.as = x.as
  PROVE  Fit(y)
<1>1. y.pc \notin Early /\ y.pc \notin Claimed /\ y.pc \notin {"loaded", "collected"}
  BY DEF Early, Claimed, Active, Beating
<1>2. Starts(y) /\ Pieced(y) /\ Quiet(y)
  BY <1>1 DEF Fit, Starts, Pieced, Quiet, Working
<1>3. Heading(y)
  BY <1>1 DEF Fit, Heading, Active
<1>4. Going(y) /\ Settles(y)
  BY DEF Fit, Going, Settles, Driving
<1> QED BY <1>2, <1>3, <1>4 DEF Fit

LEMMA OrdersFit ==
  ASSUME NEW x, Fit(x), x.pc \in Beating \cup {"ending"}, NEW flag
  PROVE  Fit(Orders(x, flag)) /\ Knows(x, Orders(x, flag))
<1>1. x \in Minds BY DEF Fit
<1>2. CASE Orders(x, flag) = x BY <1>2 DEF Knows
<1>3. CASE Orders(x, flag) # x
  <2> DEFINE q == Entry("cancel", 0)
  <2> DEFINE y == [x EXCEPT !.cancelling = "queued", !.queue = Append(@, q)]
  <2>1. x.cancelling = "no" /\ Orders(x, flag) = y BY <1>3 DEF Orders
  <2>2. q \in Entries /\ q.kind = "cancel" BY DEF Entry, Entries, Ofs
  <2>3. x.queue \in Seq(Entries) BY <1>1 DEF Minds
  <2>4. Append(x.queue, q) \in Seq(Entries) BY <2>2, <2>3
  <2> HIDE DEF q
  <2>5. /\ y \in Minds /\ y.pc = x.pc /\ y.queue = Append(x.queue, q) /\ y.work = x.work
        /\ y.recs = x.recs /\ y.run = x.run
    BY <1>1, <2>4 DEF Minds
  <2>6. /\ y.as = x.as /\ y.new = x.new /\ y.cancelling = "queued" /\ y.ordered = x.ordered
        /\ y.fresh = x.fresh /\ y.failure = x.failure /\ y.flight = x.flight
    BY <1>1 DEF Minds
  <2> HIDE DEF y
  <2>7. Lined(y)
    <3>1. \A p : Fitting(x, p) => Fitting(y, p) BY <2>5, <2>6 DEF Fitting
    <3>2. Fitting(y, q) /\ ~Fitting(x, q) BY <2>1, <2>2, <2>6 DEF Fitting, Ofs
    <3> QED BY <2>3, <2>5, <3>1, <3>2, Joins DEF Fit
  <2>8. x.pc \in Active /\ x.pc # "releasing" BY DEF Active, Beating
  <2>9. Fit(y) BY <2>5, <2>6, <2>7, <2>8, Requeued
  <2> QED BY <2>1, <2>5, <2>6, <2>9 DEF Knows, Reads
<1> QED BY <1>2, <1>3

LEMMA NotedFits ==
  ASSUME NEW x, Fit(x), x.pc \in Beating \cup {"ending"}
  PROVE  /\ Fit(Noted(x)) /\ Noted(x) \in Minds /\ Knows(x, Noted(x))
         /\ Noted(x).pc \in Beating \cup {"ending"}
<1> DEFINE z == Told(x)
<1>1. Fit(z) /\ z \in Minds /\ z.pc \in Beating \cup {"ending"} /\ Knows(x, z)
  BY ToldFits
<1> HIDE DEF z
<1>2. NoAnswer \in Answers BY DEF Answers
<1>3. ASSUME NEW k \in BOOLEAN, NEW c \in BOOLEAN, NEW y,
             y = [z EXCEPT !.flight = NoAnswer, !.kept = k, !.consumed = c]
      PROVE  y \in Minds /\ Fit(y) /\ Knows(x, y) /\ y.pc = z.pc
  <2>1. /\ y \in Minds /\ y.pc = z.pc /\ y.work = z.work /\ y.queue = z.queue
        /\ y.recs = z.recs /\ y.run = z.run
    BY <1>1, <1>2, <1>3 DEF Minds
  <2>2. /\ y.as = z.as /\ y.new = z.new /\ y.cancelling = z.cancelling
        /\ y.ordered = z.ordered /\ y.fresh = z.fresh /\ y.failure = z.failure
    BY <1>1, <1>3 DEF Minds
  <2>3. Fit(y) /\ Knows(z, y) BY <1>1, <2>1, <2>2, FlagsFit
  <2> QED BY <1>1, <2>1, <2>3 DEF Knows
<1>4. z.kept \in BOOLEAN /\ z.consumed \in BOOLEAN BY <1>1 DEF Minds
<1>5. z = [z EXCEPT !.kept = z.kept, !.consumed = z.consumed] BY <1>1 DEF Minds
<1>6. [z EXCEPT !.flight = NoAnswer]
        = [z EXCEPT !.flight = NoAnswer, !.kept = z.kept, !.consumed = z.consumed]
  BY <1>1 DEF Minds
<1>7. [[z EXCEPT !.flight = NoAnswer] EXCEPT !.kept = TRUE]
        = [z EXCEPT !.flight = NoAnswer, !.kept = TRUE, !.consumed = z.consumed]
  BY <1>1 DEF Minds
<1>8. [[z EXCEPT !.flight = NoAnswer] EXCEPT !.consumed = TRUE]
        = [z EXCEPT !.flight = NoAnswer, !.kept = z.kept, !.consumed = TRUE]
  BY <1>1 DEF Minds
<1>9. \/ Noted(x) = [z EXCEPT !.flight = NoAnswer]
      \/ Noted(x) = [[z EXCEPT !.flight = NoAnswer] EXCEPT !.kept = TRUE]
      \/ Noted(x) = [[z EXCEPT !.flight = NoAnswer] EXCEPT !.consumed = TRUE]
  BY DEF Noted, z
<1>10. \E k, c \in BOOLEAN :
         Noted(x) = [z EXCEPT !.flight = NoAnswer, !.kept = k, !.consumed = c]
  BY <1>4, <1>6, <1>7, <1>8, <1>9
<1> QED BY <1>1, <1>3, <1>10

LEMMA LosesFits ==
  ASSUME NEW x, Fit(x), x.pc \in Beating \cup {"ending"}
  PROVE  Fit(Loses(x)) /\ Knows(x, Loses(x))
<1> DEFINE y == Loses(x)
<1>1. x \in Minds BY DEF Fit
<1>2. /\ y \in Minds /\ y.pc = x.pc /\ y.work = x.work /\ y.queue = x.queue
      /\ y.recs = x.recs /\ y.run = x.run
  BY <1>1 DEF Minds, Loses
<1>3. /\ y.as = x.as /\ y.new = x.new /\ y.cancelling = x.cancelling
      /\ y.ordered = x.ordered /\ y.fresh = x.fresh
      /\ y.failure = "none" => x.failure = "none"
  BY <1>1 DEF Minds, Loses
<1> HIDE DEF y
<1>4. Fit(y) /\ Knows(x, y) BY <1>2, <1>3, FlagsFit
<1> QED BY <1>4 DEF y

\* Where an answer may be under way.
LEMMA Flying ==
  ASSUME NEW x, Fit(x), x.flight # NoAnswer
  PROVE  x.pc \in Beating \cup {"ending"}
BY DEF Fit, Minds, Starts, Pcs, Active

LEMMA HearKeeps ==
  ASSUME SwarmInv, NEW e \in Executors, Hear(e)
  PROVE  SwarmInv'
<1> DEFINE x == ex[e]
<1> DEFINE a == x.flight
<1> DEFINE y == Noted(x)
<1>1. Fit(x) /\ x.flight # NoAnswer BY Still0 DEF Hear
<1>2. x.pc \in Beating \cup {"ending"} BY <1>1, Flying
<1>3. Fit(y) /\ y \in Minds /\ Knows(x, y) BY <1>1, <1>2, NotedFits
<1>4. UNCHANGED stored BY DEF Hear
<1>5. y.pc \in Beating \cup {"ending"} BY <1>1, <1>2, NotedFits
<1> HIDE DEF y
<1>6. CASE To(e, y) BY <1>3, <1>4, <1>6, Alone
<1>7. CASE To(e, Loses(y))
  <2>1. Fit(Loses(y)) /\ Knows(y, Loses(y)) BY <1>3, <1>5, LosesFits
  <2>2. Knows(x, Loses(y)) BY <1>3, <2>1 DEF Knows
  <2> QED BY <1>4, <1>7, <2>1, <2>2, Alone
<1>8. CASE a.kind = "held" /\ To(e, Orders([y EXCEPT !.draining = @ \/ a.drain], a.cancel))
  <2> DEFINE z == [y EXCEPT !.draining = @ \/ a.drain]
  <2>1. (y.draining \/ a.drain) \in BOOLEAN OBVIOUS
  <2>2. /\ z \in Minds /\ z.pc = y.pc /\ z.work = y.work /\ z.queue = y.queue
        /\ z.recs = y.recs /\ z.run = y.run
    BY <1>3, <2>1 DEF Minds
  <2>3. /\ z.as = y.as /\ z.new = y.new /\ z.cancelling = y.cancelling
        /\ z.ordered = y.ordered /\ z.fresh = y.fresh /\ z.failure = y.failure
    BY <1>3 DEF Minds
  <2>4. To(e, Orders(z, a.cancel)) BY <1>8
  <2> HIDE DEF z
  <2>5. Fit(z) /\ Knows(y, z) BY <1>3, <1>5, <2>2, <2>3, FlagsFit
  <2>6. Fit(Orders(z, a.cancel)) /\ Knows(z, Orders(z, a.cancel))
    BY <1>5, <2>2, <2>5, OrdersFit
  <2>7. Knows(x, Orders(z, a.cancel)) BY <1>3, <2>5, <2>6 DEF Knows
  <2> QED BY <1>4, <2>4, <2>6, <2>7, Alone
<1> QED BY <1>6, <1>7, <1>8 DEF Hear, y

LEMMA OrderKeeps ==
  ASSUME SwarmInv, NEW e \in Executors, Order(e)
  PROVE  SwarmInv'
<1> DEFINE x == ex[e]
<1> DEFINE q == Entry("order", 0)
<1> DEFINE y == [x EXCEPT !.ordered = TRUE, !.queue = Append(@, q)]
<1>1. Fit(x) /\ x \in Minds BY Still0
<1>2. x.pc \in Active /\ ~x.ordered /\ To(e, y) /\ UNCHANGED stored
  BY DEF Order, At
<1>3. q \in Entries /\ q.kind = "order" BY DEF Entry, Entries, Ofs
<1>4. x.queue \in Seq(Entries) BY <1>1 DEF Minds
<1>5. Append(x.queue, q) \in Seq(Entries) BY <1>3, <1>4
<1> HIDE DEF q
<1>6. /\ y \in Minds /\ y.pc = x.pc /\ y.queue = Append(x.queue, q) /\ y.work = x.work
      /\ y.recs = x.recs /\ y.run = x.run
  BY <1>1, <1>5 DEF Minds
<1>7. /\ y.as = x.as /\ y.new = x.new /\ y.cancelling = x.cancelling /\ y.ordered
      /\ y.fresh = x.fresh /\ y.failure = x.failure /\ y.flight = x.flight
  BY <1>1 DEF Minds
<1> HIDE DEF y
<1>8. Lined(y)
  <2>1. \A p : Fitting(x, p) => Fitting(y, p) BY <1>6, <1>7 DEF Fitting
  <2>2. Fitting(y, q) /\ ~Fitting(x, q) BY <1>2, <1>3, <1>7 DEF Fitting, Ofs
  <2> QED BY <1>1, <1>4, <1>6, <2>1, <2>2, Joins DEF Fit
<1>9. y.pc = "releasing" => y.flight = NoAnswer BY <1>1, <1>6, <1>7 DEF Fit, Starts
<1>10. Fit(y) BY <1>1, <1>2, <1>6, <1>7, <1>8, <1>9, Requeued
<1>11. Knows(x, y) BY <1>6, <1>7 DEF Knows, Reads
<1> QED BY <1>2, <1>10, <1>11, Alone

LEMMA DrainHereKeeps ==
  ASSUME SwarmInv, NEW e \in Executors, DrainHere(e)
  PROVE  SwarmInv'
<1> DEFINE x == ex[e]
<1> DEFINE y == [x EXCEPT !.draining = TRUE]
<1>1. Fit(x) /\ x \in Minds BY Still0
<1>2. x.pc \in Beating /\ To(e, y) /\ UNCHANGED stored BY DEF DrainHere, At
<1>3. /\ y \in Minds /\ y.pc = x.pc /\ y.work = x.work /\ y.queue = x.queue
      /\ y.recs = x.recs /\ y.run = x.run
  BY <1>1 DEF Minds
<1>4. /\ y.as = x.as /\ y.new = x.new /\ y.cancelling = x.cancelling
      /\ y.ordered = x.ordered /\ y.fresh = x.fresh /\ y.failure = x.failure
  BY <1>1 DEF Minds
<1> HIDE DEF y
<1> QED BY <1>1, <1>2, <1>3, <1>4, FlagsFit, Alone

\* What is over leaves its slot.
LEMMA Cleared ==
  ASSUME NEW x, Fit(x),
         NEW y, y = [x EXCEPT !.work = [s \in Slots |-> IF Over(@[s]) THEN NoWork ELSE @[s]]]
  PROVE  /\ Fit(y) /\ y \in Minds /\ Knows(x, y) /\ y.pc = x.pc /\ y.failure = x.failure
         /\ y.run = x.run /\ y.recs = x.recs /\ y.queue = x.queue /\ y.draining = x.draining
         /\ y.work = [s \in Slots |-> IF Over(x.work[s]) THEN NoWork ELSE x.work[s]]
         /\ Working(y) = Working(x)
         /\ y.skips = x.skips /\ y.as = x.as /\ y.fresh = x.fresh /\ y.new = x.new
<1> DEFINE work == [s \in Slots |-> IF Over(x.work[s]) THEN NoWork ELSE x.work[s]]
<1>1. x \in Minds /\ x.work \in Works BY DEF Fit, Minds
<1>2. NoWork \in Pieces BY IdleIs DEF NoWork, Pieces, Ends
<1>3. work \in Works BY <1>1, <1>2 DEF Works
<1>4. \A s \in Slots : work[s] = IF Over(x.work[s]) THEN NoWork ELSE x.work[s] OBVIOUS
<1>5. y = [x EXCEPT !.work = work] OBVIOUS
<1> HIDE DEF work
<1>6. /\ y \in Minds /\ y.work = work /\ y.pc = x.pc /\ y.queue = x.queue
      /\ y.recs = x.recs /\ y.run = x.run /\ y.flight = x.flight
  BY <1>1, <1>3, <1>5 DEF Minds
<1>7. /\ y.as = x.as /\ y.new = x.new /\ y.cancelling = x.cancelling
      /\ y.ordered = x.ordered /\ y.fresh = x.fresh /\ y.failure = x.failure
      /\ y.skips = x.skips /\ y.draining = x.draining
  BY <1>1, <1>5 DEF Minds
<1>8. Over(NoWork) BY DEF Over, NoWork
<1>9. Starts(y)
  <2>1. ASSUME y.pc \in Early PROVE y.work = [s \in Slots |-> NoWork]
    <3>1. x.work = [s \in Slots |-> NoWork] BY <1>6, <2>1 DEF Fit, Starts
    <3>2. \A s \in Slots : work[s] = NoWork BY <1>4, <3>1
    <3> QED BY <1>3, <1>6, <3>2 DEF Works
  <2> QED BY <1>6, <1>7, <2>1 DEF Fit, Starts
<1>10. Pieced(y) /\ Quiet(y)
  BY <1>4, <1>6, <1>8 DEF Fit, Pieced, Quiet, NoWork
<1>11. Lined(y)
  <2>1. \A i \in DOMAIN x.queue : x.queue[i] \in Entries BY <1>1 DEF Minds
  <2>2. \A q \in Entries : Fitting(x, q) => Fitting(y, q)
    BY <1>4, <1>6, <1>7 DEF Fitting, Entries, Ofs, Over
  <2> QED BY <1>6, <2>1, <2>2 DEF Fit, Lined
<1>12. Heading(y) BY <1>6, <1>7 DEF Fit, Heading
<1>13. Going(y)
  <2>1. \A s \in Slots : x.work[s].at \in Doing => work[s] = x.work[s]
    BY <1>4 DEF Doing, Over
  <2> QED BY <1>6, <1>7, <2>1 DEF Fit, Going
<1>14. Settles(y) BY <1>6, <1>7 DEF Fit, Settles
<1>15. Working(y) = Working(x) BY <1>4, <1>6, <1>8 DEF Working
<1>16. Fit(y) BY <1>6, <1>9, <1>10, <1>11, <1>12, <1>13, <1>14 DEF Fit
<1> QED BY <1>6, <1>7, <1>15, <1>16 DEF Knows, Reads, work
-----------------------------------------------------------------------------
(* Steps of the drive that write nothing. *)

\* A step that moves `pc` and what is decided, and not the queue.
Parts(x, pc) ==
  \/ x.pc = "checked" /\ pc \in {"failing", "top"}
  \/ x.pc = "failing" /\ Working(x) = {} /\ pc \in {"ending", "failed"}
  \/ x.pc \in {"racing", "top"} /\ pc = "failing"
Moved(x, pc, as, y) == y = [x EXCEPT !.pc = pc, !.as = as]

LEMMA Decides ==
  ASSUME NEW x, Fit(x), NEW pc, Parts(x, pc), NEW as \in {"none", "blocked"} \cup Settled, NEW y,
         Moved(x, pc, as, y)
  PROVE  Fit(y) /\ Knows(x, y) /\ y.pc = pc
<1>1. x \in Minds BY DEF Fit
<1>2. /\ pc \in {"failing", "top", "ending", "failed"}
      /\ x.pc \in {"checked", "failing", "racing", "top"}
  BY DEF Parts
<1>3. pc \in Pcs /\ pc \in Active /\ x.pc \in Active
  BY <1>2 DEF Pcs, Active, Beating
<1>4. /\ y \in Minds /\ y.pc = pc /\ y.work = x.work /\ y.recs = x.recs /\ y.run = x.run
      /\ y.queue = x.queue
  BY <1>1, <1>3 DEF Minds, Moved
<1>5. /\ y.failure = x.failure /\ y.fresh = x.fresh /\ y.flight = x.flight
      /\ y.cancelling = x.cancelling /\ y.ordered = x.ordered
  BY <1>1 DEF Minds, Moved
<1>6. Lined(y)
  <2>1. \A q : Fitting(x, q) => Fitting(y, q) BY <1>2, <1>4, <1>5 DEF Fitting
  <2> QED BY <1>4, <2>1 DEF Fit, Lined
<1>7. x.pc \in Beating /\ pc \notin Judged /\ pc # "releasing" /\ pc # "skipping"
  BY <1>2 DEF Beating, Judged
<1>8. pc \in Still => Working(x) = {} BY DEF Still, Parts
<1>9. Fit(y) BY <1>3, <1>4, <1>5, <1>6, <1>7, <1>8, Requeued
<1>10. Knows(x, y) BY <1>3, <1>4, <1>5 DEF Knows, Reads, Driving
<1> QED BY <1>4, <1>9, <1>10

LEMMA CheckedKeeps ==
  ASSUME SwarmInv, NEW e \in Executors, Checked(e)
  PROVE  SwarmInv'
<1> DEFINE x == ex[e]
<1>1. Fit(x) /\ x \in Minds BY Still0
<1>2. x.pc = "checked" /\ UNCHANGED stored BY DEF Checked, At
<1>3. ASSUME NEW pc \in {"failing", "top"}, To(e, [x EXCEPT !.pc = pc, !.as = "none"])
      PROVE  SwarmInv'
  <2> DEFINE y == [x EXCEPT !.pc = pc, !.as = "none"]
  <2>1. To(e, y) /\ Moved(x, pc, "none", y) BY <1>3 DEF Moved
  <2> HIDE DEF y, x
  <2>3. Parts(x, pc) BY <1>2, <1>3 DEF Parts
  <2>2. Fit(y) /\ Knows(x, y) BY <1>1, <2>1, <2>3, Decides
  <2> QED BY <1>2, <2>1, <2>2, Alone DEF x
<1>5. CASE To(e, [x EXCEPT !.pc = "settling", !.queue = Append(@, Entry("settle", 0))])
  <2> DEFINE q == Entry("settle", 0)
  <2> DEFINE y == [x EXCEPT !.pc = "settling", !.queue = Append(@, q)]
  <2>1. q \in Entries /\ q.kind = "settle" BY DEF Entry, Entries, Ofs
  <2>2. x.queue \in Seq(Entries) BY <1>1 DEF Minds
  <2>3. Append(x.queue, q) \in Seq(Entries) BY <2>1, <2>2
  <2>4. To(e, y) BY <1>5
  <2> HIDE DEF q
  <2>5. /\ y \in Minds /\ y.pc = "settling" /\ y.queue = Append(x.queue, q)
        /\ y.work = x.work /\ y.recs = x.recs /\ y.run = x.run
    BY <1>1, <2>3 DEF Minds, Pcs, Active, Beating
  <2>6. /\ y.as = x.as /\ y.cancelling = x.cancelling /\ y.ordered = x.ordered
        /\ y.fresh = x.fresh /\ y.failure = x.failure
    BY <1>1 DEF Minds
  <2> HIDE DEF y
  <2>7. Lined(y)
    <3>1. \A p : Fitting(x, p) => Fitting(y, p) BY <1>2, <2>5, <2>6 DEF Fitting
    <3>2. Fitting(y, q) /\ ~Fitting(x, q) BY <1>2, <2>1, <2>5 DEF Fitting, Ofs
    <3> QED BY <1>1, <2>2, <2>5, <3>1, <3>2, Joins DEF Fit
  <2>8. x.pc \in Active /\ x.pc \in Still /\ x.pc \in Judged /\ x.pc \in Beating /\ y.pc \in Active
    BY <1>2, <2>5 DEF Active, Beating, Still, Judged
  <2>9. Fit(y) BY <1>1, <2>5, <2>6, <2>7, <2>8, Requeued
  <2>10. Knows(x, y) BY <2>5, <2>6, <2>8 DEF Knows, Reads, Driving
  <2> QED BY <1>2, <2>4, <2>9, <2>10, Alone
<1> QED BY <1>3, <1>5 DEF Checked

LEMMA FailKeeps ==
  ASSUME SwarmInv, NEW e \in Executors, Fail(e)
  PROVE  SwarmInv'
<1> DEFINE w == ex[e]
<1> DEFINE x == [w EXCEPT !.work = [s \in Slots |-> IF Over(@[s]) THEN NoWork ELSE @[s]]]
<1>1. Fit(w) BY Still0
<1>2. Fit(x) /\ x \in Minds /\ Knows(w, x) /\ x.pc = w.pc /\ Working(x) = Working(w)
  BY <1>1, Cleared
<1>3. w.pc = "failing" /\ Working(w) = {} BY DEF Fail, At, StillHere
<1>4. \/ To(e, [x EXCEPT !.pc = "ending"]) /\ UNCHANGED stored
      \/ Renewal(e, [x EXCEPT !.pc = "failed"])
  BY DEF Fail
<1> HIDE DEF x
<1>5. x.as \in {"none", "blocked"} \cup Settled BY <1>2 DEF Minds
<1>6. [x EXCEPT !.pc = "ending"] = [x EXCEPT !.pc = "ending", !.as = x.as]
  BY <1>2 DEF Minds
<1>7. [x EXCEPT !.pc = "failed"] = [x EXCEPT !.pc = "failed", !.as = x.as]
  BY <1>2 DEF Minds
<1>10. Parts(x, "ending") /\ Parts(x, "failed") BY <1>2, <1>3 DEF Parts
<1>8. CASE To(e, [x EXCEPT !.pc = "ending"]) /\ UNCHANGED stored
  <2> DEFINE y == [x EXCEPT !.pc = "ending"]
  <2>9. Moved(x, "ending", x.as, y) BY <1>6 DEF Moved
  <2>2. To(e, y) BY <1>8
  <2> HIDE DEF y
  <2>1. Fit(y) /\ Knows(x, y) BY <1>2, <1>5, <1>10, <2>9, Decides
  <2>3. Knows(w, y) BY <1>2, <2>1 DEF Knows
  <2> QED BY <1>8, <2>1, <2>2, <2>3, Alone
<1>9. CASE Renewal(e, [x EXCEPT !.pc = "failed"])
  <2> DEFINE y == [x EXCEPT !.pc = "failed"]
  <2>9. Moved(x, "failed", x.as, y) BY <1>7 DEF Moved
  <2>4. Renewal(e, y) BY <1>9
  <2> HIDE DEF y
  <2>1. Fit(y) /\ Knows(x, y) /\ y.pc = "failed" BY <1>2, <1>5, <1>10, <2>9, Decides
  <2>2. Knows(w, y) /\ Renewal(e, y) BY <1>2, <2>1, <2>4 DEF Knows
  <2>3. y.pc \in Beating BY <2>1 DEF Beating
  <2> QED BY <2>1, <2>2, <2>3, RenewalKeeps
<1> QED BY <1>4, <1>8, <1>9

LEMMA LeavesKeep ==
  ASSUME SwarmInv, NEW e \in Executors, Unclaim(e) \/ Crash(e)
  PROVE  SwarmInv'
<1>1. To(e, Idle) /\ UNCHANGED stored BY DEF Unclaim, Crash
<1>2. Fit(Idle) /\ ~Reads(Idle) BY IdleIs, Blank
<1> QED BY <1>1, <1>2, Alone DEF Knows

LEMMA WorldKeeps ==
  ASSUME SwarmInv, World
  PROVE  SwarmInv'
<1>1. CASE ReadHead \/ SignalHolder \/ SignalDrain \/ Lapse \/ Expire
  BY <1>1, Outer DEF ReadHead, SignalHolder, SignalDrain, Lapse, Expire, Outside, stored
<1>2. CASE RecordRequest
  <2>1. CASE UNCHANGED stored /\ UNCHANGED ex BY <2>1, Outer
  <2>2. CASE /\ run' = [run EXCEPT !.cancel = TRUE] /\ task' = task
             /\ ex' = [d \in Executors |-> Overtaken(ex[d])]
    <3>1. run \in Heads /\ task \in Copies BY DEF SwarmInv, StoredOK
    <3>2. run' \in Heads /\ run'.status = run.status /\ run'.cancel
      BY <2>2, <3>1 DEF Heads
    <3>3. StoredOK'
      BY <2>2, <3>2 DEF SwarmInv, StoredOK, SettledFits, AllDone, Present
    <3>4. ASSUME NEW d \in Executors
          PROVE  /\ Fit(ex'[d]) /\ Agrees(ex[d])' /\ (Reads(ex'[d]) => run'.status # "none")
                 /\ ex'[d] \in Minds
      <4>1. ex'[d] = Overtaken(ex[d]) BY <2>2
      <4>2. Fit(ex[d]) BY Still0
      <4> QED BY <3>2, <4>1, <4>2, Later DEF SwarmInv, Agrees
    <3>5. ex' \in [Executors -> Minds] BY <2>2, <3>4
    <3> QED BY <3>3, <3>4, <3>5 DEF SwarmInv
  <2> QED BY <1>2, <2>1, <2>2 DEF RecordRequest, stored
<1> QED BY <1>1, <1>2 DEF World
-----------------------------------------------------------------------------
(* Commits. *)

With(recs, kids) == [t \in Tasks |-> IF t \in kids THEN Fresh ELSE recs[t]]
Taken(y, r, recs) == [y EXCEPT !.run = r, !.recs = recs]
Whys == {"store", "refused", "conflict", "lost"}
Failed(y, why) == [y EXCEPT !.failure = why]

\* What one write does: it is taken, with or without an answer, or it is not.
LEMMA WriteIs ==
  ASSUME SwarmInv, NEW e \in Executors, NEW r, NEW recs, NEW kids, NEW done, NEW failed,
         Write(e, r, recs, kids, done, failed), failed.failure = ex[e].failure
  PROVE  \/ /\ ex[e].failure = "none" /\ ex[e].fresh /\ Accepts(task, kids)
            /\ run' = r /\ task' = With(recs, kids)
            /\ \E y : /\ \/ y = Taken(done, r, With(recs, kids))
                         \/ \E why \in Whys : y = Failed(failed, why)
                      /\ ex' = [d \in Executors |-> IF d = e THEN y ELSE Overtaken(ex[d])]
         \/ /\ UNCHANGED stored
            /\ \E why \in Whys : To(e, Failed(failed, why))
<1> DEFINE x == ex[e]
<1> DEFINE fails(why) == [failed EXCEPT !.failure = IF x.failure = "none" THEN why ELSE @]
<1> DEFINE ok == x.failure = "none" /\ Takes(x) /\ Accepts(task, kids)
<1>1. x \in Minds BY Still0
<1>2. x.failure \in Whys \cup {"none"} BY <1>1 DEF Minds, Whys
<1>3. \A why \in Whys : \E other \in Whys : fails(why) = Failed(failed, other)
  BY <1>2 DEF Failed
<1>4. {"store", "refused", "conflict"} \subseteq Whys BY DEF Whys
<1> HIDE DEF fails
<1>5. \/ ok /\ Stored(r, With(recs, kids))
         /\ \E y : /\ y = Taken(done, r, With(recs, kids)) \/ y = fails("store")
                   /\ ex' = [d \in Executors |-> IF d = e THEN y ELSE Overtaken(ex[d])]
      \/ UNCHANGED stored /\ \E why \in {"store", "refused", "conflict"} : To(e, fails(why))
  BY DEF Write, fails, With, Taken
<1> QED BY <1>3, <1>4, <1>5 DEF Stored, Takes

LEMMA WriteKeeps ==
  ASSUME SwarmInv, NEW e \in Executors, NEW r \in Heads, NEW recs, NEW kids,
         NEW done, NEW failed \in Minds,
         Write(e, r, recs, kids, done, failed), failed.failure = ex[e].failure,
         Reads(ex[e]), r.status # "none", With(recs, kids) \in Copies,
         ex[e].failure = "none" /\ ex[e].run = run /\ ex[e].recs = task =>
           /\ Fit(Taken(done, r, With(recs, kids)))
           /\ SettledFits(r, With(recs, kids)),
         \A why \in Whys : Fit(Failed(failed, why))
  PROVE  SwarmInv'
<1> DEFINE all == With(recs, kids)
<1>1. run.status # "none" BY DEF SwarmInv
<1>2. ASSUME NEW why \in Whys PROVE Failed(failed, why).failure # "none"
  BY DEF Failed, Minds, Whys
<1>3. CASE UNCHANGED stored /\ \E why \in Whys : To(e, Failed(failed, why))
  <2>1. PICK why \in Whys : To(e, Failed(failed, why)) BY <1>3
  <2>2. Agrees(Failed(failed, why)) BY <1>2 DEF Agrees
  <2> QED BY <1>1, <1>3, <2>1, <2>2, Others
<1>4. ASSUME ex[e].failure = "none", ex[e].fresh, run' = r, task' = all, NEW y,
             \/ y = Taken(done, r, all) \/ \E why \in Whys : y = Failed(failed, why),
             ex' = [d \in Executors |-> IF d = e THEN y ELSE Overtaken(ex[d])]
      PROVE  SwarmInv'
  <2>1. ex[e].run = run /\ ex[e].recs = task BY <1>4 DEF SwarmInv, Agrees
  <2>2. Fit(y) BY <1>4, <2>1
  <2>3. y.failure = "none" => y.run = r /\ y.recs = all
    <3>1. CASE y = Taken(done, r, all)
      <4>1. y \in Minds BY <2>2 DEF Fit
      <4>2. y.run = r /\ y.recs = all
        <5>1. y = [done EXCEPT !.run = r, !.recs = all] BY <3>1 DEF Taken
        <5>2. DOMAIN y = DOMAIN done /\ "run" \in DOMAIN y /\ "recs" \in DOMAIN y
          BY <4>1, <5>1 DEF Minds
        <5> QED BY <5>1, <5>2
      <4> QED BY <4>2
    <3>2. CASE \E why \in Whys : y = Failed(failed, why) BY <1>2, <3>2
    <3> QED BY <1>4, <3>1, <3>2
  <2>4. StoredOK' BY <1>4, <2>1 DEF StoredOK
  <2>5. ASSUME NEW d \in Executors
        PROVE  /\ Fit(ex'[d]) /\ Agrees(ex[d])' /\ (Reads(ex'[d]) => run'.status # "none")
               /\ ex'[d] \in Minds
    <3>1. CASE d = e
      BY <1>4, <2>2, <2>3, <3>1 DEF Agrees, Fit
    <3>2. CASE d # e
      <4>1. ex'[d] = Overtaken(ex[d]) BY <1>4, <3>2
      <4>2. Fit(ex[d]) BY Still0
      <4> QED BY <1>4, <4>1, <4>2, Later DEF Agrees
    <3> QED BY <3>1, <3>2
  <2>6. ex' \in [Executors -> Minds] BY <1>4, <2>5
  <2> QED BY <2>4, <2>5, <2>6 DEF SwarmInv
<1> QED BY <1>3, <1>4, WriteIs

\* Fit but for what only an executor without failure owes.
Shaped(x) == x \in Minds /\ Starts(x) /\ Pieced(x) /\ Lined(x) /\ Quiet(x) /\ Heading(x)

LEMMA FailedFits ==
  ASSUME NEW x, Shaped(x)
  PROVE  \A why \in Whys : Fit(Failed(x, why))
<1> SUFFICES ASSUME NEW why \in Whys PROVE Fit(Failed(x, why)) OBVIOUS
<1> DEFINE y == Failed(x, why)
<1>1. x \in Minds BY DEF Shaped
<1>2. /\ y \in Minds /\ y.pc = x.pc /\ y.work = x.work /\ y.queue = x.queue
      /\ y.run = x.run /\ y.failure = why
  BY <1>1 DEF Minds, Failed, Whys
<1>3. /\ y.as = x.as /\ y.new = x.new /\ y.cancelling = x.cancelling
      /\ y.ordered = x.ordered /\ y.flight = x.flight
  BY <1>1 DEF Minds, Failed
<1> HIDE DEF y
<1>4. Starts(y) /\ Pieced(y) /\ Quiet(y) /\ Heading(y)
  BY <1>2, <1>3 DEF Shaped, Starts, Pieced, Quiet, Heading
<1>5. Lined(y)
  <2>1. \A q : Fitting(x, q) => Fitting(y, q) BY <1>2, <1>3 DEF Fitting
  <2> QED BY <1>2, <2>1 DEF Shaped, Lined
<1>6. why # "none" BY DEF Whys
<1>7. Going(y) /\ Settles(y) BY <1>2, <1>6 DEF Going, Settles
<1> QED BY <1>2, <1>4, <1>5, <1>7 DEF Fit, y

\* What a taken commit leaves in the executor's copy.
LEMMA TakenIs ==
  ASSUME NEW y \in Minds, NEW r \in Heads, NEW recs \in Copies
  PROVE  LET z == Taken(y, r, recs) IN
           /\ z \in Minds /\ z.run = r /\ z.recs = recs /\ z.pc = y.pc /\ z.work = y.work
           /\ z.queue = y.queue /\ z.failure = y.failure /\ z.as = y.as /\ z.new = y.new
           /\ z.cancelling = y.cancelling /\ z.ordered = y.ordered /\ z.flight = y.flight
<1> DEFINE z == Taken(y, r, recs)
<1>1. z \in Minds /\ z.run = r /\ z.recs = recs /\ z.pc = y.pc /\ z.work = y.work
  BY DEF Minds, Taken
<1>2. z.queue = y.queue /\ z.failure = y.failure /\ z.as = y.as /\ z.new = y.new
  BY DEF Minds, Taken
<1>3. z.cancelling = y.cancelling /\ z.ordered = y.ordered /\ z.flight = y.flight
  BY DEF Minds, Taken
<1> HIDE DEF z
<1> QED BY <1>1, <1>2, <1>3 DEF z

LEMMA TakenFits ==
  ASSUME NEW y, Shaped(y), NEW r \in Heads, NEW recs \in Copies,
         y.pc \in Claimed \cup Beating => r.status = "running",
         y.pc \in {"ending", "releasing"} => r.status # "none",
         y.pc \notin {"loaded", "collected"},
         Going(Taken(y, r, recs)), Settles(Taken(y, r, recs))
  PROVE  Fit(Taken(y, r, recs))
<1> DEFINE z == Taken(y, r, recs)
<1>1. y \in Minds BY DEF Shaped
<1>2. /\ z \in Minds /\ z.run = r /\ z.recs = recs /\ z.pc = y.pc /\ z.work = y.work
      /\ z.queue = y.queue /\ z.failure = y.failure /\ z.as = y.as /\ z.new = y.new
      /\ z.cancelling = y.cancelling /\ z.ordered = y.ordered /\ z.flight = y.flight
  BY <1>1, TakenIs
<1> HIDE DEF z
<1>3. Starts(z) /\ Pieced(z) /\ Quiet(z)
  BY <1>2 DEF Shaped, Starts, Pieced, Quiet
<1>4. Heading(z) BY <1>2 DEF Shaped, Heading
<1>5. Lined(z)
  <2>1. \A q : Fitting(y, q) => Fitting(z, q) BY <1>2 DEF Fitting
  <2> QED BY <1>2, <2>1 DEF Shaped, Lined
<1> QED BY <1>2, <1>3, <1>4, <1>5 DEF Fit, z

LEMMA WithNone ==
  ASSUME NEW recs \in Copies
  PROVE  With(recs, {}) = recs
BY DEF With, Copies

LEMMA FitShaped ==
  ASSUME NEW x, Fit(x)
  PROVE  Shaped(x) /\ x \in Minds /\ x.run \in Heads /\ x.recs \in Copies /\ x.work \in Works
         /\ x.queue \in Seq(Entries)
BY DEF Fit, Shaped, Minds

LEMMA OpenKeeps ==
  ASSUME SwarmInv, NEW e \in Executors, Open(e)
  PROVE  SwarmInv'
<1> DEFINE x == ex[e]
<1> DEFINE done == [x EXCEPT !.pc = "top"]
<1> DEFINE failed == [x EXCEPT !.pc = "ending"]
<1>1. Fit(x) /\ x \in Minds /\ x.run \in Heads /\ x.recs \in Copies BY Still0, FitShaped
<1>2. x.pc = "opening" BY DEF Open, At
<1>3. Write(e, x.run, x.recs, {}, done, failed) BY DEF Open
<1>4. ASSUME NEW pc \in {"top", "ending"}, NEW y, y = [x EXCEPT !.pc = pc]
      PROVE  Shaped(y) /\ y.pc = pc /\ y.work = x.work /\ y.failure = x.failure /\ y.recs = x.recs
  <2>1. /\ y \in Minds /\ y.pc = pc /\ y.work = x.work /\ y.queue = x.queue
        /\ y.run = x.run /\ y.failure = x.failure /\ y.recs = x.recs
    BY <1>1, <1>4 DEF Minds, Pcs, Active, Beating
  <2>2. /\ y.cancelling = x.cancelling /\ y.ordered = x.ordered
    BY <1>1, <1>4 DEF Minds
  <2>3. y.work = [s \in Slots |-> NoWork] /\ y.queue = <<>>
    BY <1>1, <1>2, <2>1 DEF Fit, Starts, Early, Claimed
  <2>4. Starts(y) BY <2>1 DEF Starts, Early, Claimed
  <2>5. Pieced(y) /\ Lined(y) /\ Quiet(y)
    BY <2>3 DEF Pieced, Lined, Quiet, Over, NoWork
  <2>6. x.run.status = "running" BY <1>1, <1>2 DEF Fit, Heading, Claimed
  <2>7. Heading(y) BY <2>1, <2>6 DEF Heading, Judged, Claimed
  <2> QED BY <2>1, <2>4, <2>5, <2>7 DEF Shaped
<1>5. Shaped(done) /\ done.pc = "top" /\ done.work = x.work /\ done.failure = x.failure
  BY <1>4
<1>6. Shaped(failed) /\ failed.failure = x.failure BY <1>4
<1> HIDE DEF done, failed
<1>7. x.run.status = "running" BY <1>1, <1>2 DEF Fit, Heading, Claimed
<1>8. With(x.recs, {}) = x.recs BY <1>1, WithNone
<1>9. Fit(Taken(done, x.run, x.recs))
  <2> DEFINE z == Taken(done, x.run, x.recs)
  <2>1. z.pc = "top" /\ z.recs = x.recs /\ z.work = x.work /\ z.failure = x.failure
    BY <1>1, <1>5, TakenIs DEF Shaped
  <2> HIDE DEF z
  <2>2. Going(z) /\ Settles(z)
    BY <1>1, <1>2, <2>1 DEF Fit, Going, Settles, Judged, Driving, Claimed
  <2> QED BY <1>1, <1>5, <1>7, <2>2, TakenFits DEF z
<1>10. \A why \in Whys : Fit(Failed(failed, why)) BY <1>6, FailedFits
<1>11. Reads(x) /\ failed \in Minds BY <1>2, <1>6 DEF Reads, Driving, Claimed, Shaped
<1>12. SettledFits(x.run, x.recs) BY <1>7 DEF SettledFits
<1> QED BY <1>1, <1>3, <1>6, <1>7, <1>8, <1>9, <1>10, <1>11, <1>12, WriteKeeps

LEMMA PreparedIs ==
  ASSUME NEW x \in Minds, NEW t \in Tasks
  PROVE  /\ Prepared(x, t) \in Records /\ Prepared(x, t).status # "running"
         /\ x.recs[t].status \in Terminal => Prepared(x, t) = x.recs[t]
<1> DEFINE rec == x.recs[t]
<1>1. rec \in Records BY DEF Minds, Copies
<1>2. \A status \in Statuses : [rec EXCEPT !.status = status] \in Records
        /\ [rec EXCEPT !.status = status].status = status
  BY <1>1 DEF Records
<1>3. {"pending", "suspended", "needs_reconciliation"} \subseteq Statuses BY DEF Statuses
<1>4. \/ Prepared(x, t) = rec /\ rec.status \notin {"running"}
      \/ /\ rec.status \in {"running", "needs_reconciliation", "suspended"}
         /\ \E status \in {"pending", "suspended", "needs_reconciliation"} :
              Prepared(x, t) = [rec EXCEPT !.status = status]
  BY DEF Prepared
<1>5. CASE Prepared(x, t) = rec /\ rec.status \notin {"running"} BY <1>1, <1>5
<1>6. CASE /\ rec.status \in {"running", "needs_reconciliation", "suspended"}
           /\ \E status \in {"pending", "suspended", "needs_reconciliation"} :
                Prepared(x, t) = [rec EXCEPT !.status = status]
  <2>1. rec.status \notin Terminal BY <1>6 DEF Terminal
  <2>2. PICK status \in {"pending", "suspended", "needs_reconciliation"} :
          Prepared(x, t) = [rec EXCEPT !.status = status]
    BY <1>6
  <2> HIDE DEF rec
  <2>3. Prepared(x, t) \in Records /\ Prepared(x, t).status = status
    BY <1>2, <1>3, <2>2
  <2> QED BY <2>1, <2>3 DEF rec
<1> QED BY <1>4, <1>5, <1>6

LEMMA ClaimKeeps ==
  ASSUME SwarmInv, NEW e \in Executors, Claim(e)
  PROVE  SwarmInv'
<1> DEFINE x == ex[e]
<1> DEFINE r == [status |-> "running", cancel |-> x.run.cancel \/ CancelNow(x)]
<1> DEFINE recs == [t \in Tasks |-> Prepared(x, t)]
<1> DEFINE pc == IF x.found = "kept" THEN "recorded" ELSE "opening"
<1> DEFINE done == [x EXCEPT !.pc = pc, !.found = "no"]
<1> DEFINE failed == Refuse(x)
<1>1. Fit(x) /\ x \in Minds BY Still0
<1>2. x.pc = "collected" /\ ~x.new BY DEF Claim, At
<1>3. Write(e, r, recs, {}, done, failed) BY DEF Claim
<1>4. r \in Heads /\ r.status = "running" BY DEF Heads
<1>5. recs \in Copies /\ \A t \in Tasks : recs[t].status # "running"
  BY <1>1, PreparedIs DEF Copies
<1>6. With(recs, {}) = recs BY <1>5, WithNone
<1> HIDE DEF r, recs
<1>7. pc \in Claimed BY DEF Claimed
<1> HIDE DEF pc
<1>8. /\ done \in Minds /\ done.pc = pc /\ done.work = x.work /\ done.queue = x.queue
      /\ done.flight = x.flight
  BY <1>1, <1>7 DEF Minds, Pcs, Early
<1>9. /\ done.cancelling = x.cancelling /\ done.ordered = x.ordered
  BY <1>1, <1>7 DEF Minds
<1>10. /\ done.queue = <<>> /\ done.work = [s \in Slots |-> NoWork]
       /\ done.flight = NoAnswer /\ ~done.ordered /\ done.cancelling = "no"
  BY <1>1, <1>2, <1>8, <1>9 DEF Fit, Starts, Early
<1> HIDE DEF done
<1>11. Fit(Taken(done, r, recs))
  <2> DEFINE z == Taken(done, r, recs)
  <2>1. /\ z \in Minds /\ z.run = r /\ z.recs = recs /\ z.pc = done.pc /\ z.work = done.work
        /\ z.queue = done.queue /\ z.cancelling = done.cancelling /\ z.ordered = done.ordered
        /\ z.flight = done.flight
    BY <1>4, <1>5, <1>8, TakenIs
  <2> HIDE DEF z
  <2>2. Starts(z) /\ Pieced(z) /\ Lined(z) /\ Quiet(z)
    BY <1>7, <1>8, <1>10, <2>1
    DEF Starts, Pieced, Lined, Quiet, Over, NoWork, Still, Claimed
  <2>3. Heading(z) /\ Going(z) /\ Settles(z)
    BY <1>4, <1>5, <1>7, <1>8, <2>1 DEF Heading, Going, Settles, Claimed, Beating, Judged
  <2> QED BY <2>1, <2>2, <2>3 DEF Fit, z
<1>12. failed \in Minds /\ failed.failure = x.failure /\ Fit(failed)
  BY <1>1, <1>2, Refuses
<1> HIDE DEF failed
<1>13. \A why \in Whys : Fit(Failed(failed, why)) BY <1>12, FitShaped, FailedFits
<1>14. Reads(x) BY <1>2 DEF Reads
<1>15. SettledFits(r, recs) BY <1>4 DEF SettledFits
<1> QED BY <1>3, <1>4, <1>5, <1>6, <1>11, <1>12, <1>13, <1>14, <1>15, WriteKeeps
-----------------------------------------------------------------------------
(* Commits that wait in the queue. *)

LEMMA Queueing ==
  ASSUME NEW x, Fit(x), x.queue # <<>>
  PROVE  /\ x \in Minds /\ x.pc \in Active /\ x.pc \notin Early /\ Reads(x)
         /\ x.queue \in Seq(Entries) /\ Tail(x.queue) \in Seq(Entries)
         /\ Head(x.queue) \in Entries /\ Fitting(x, Head(x.queue))
<1>1. x \in Minds /\ x.queue \in Seq(Entries) BY DEF Fit, Minds
<1>2. x.pc \in Active /\ x.pc \notin Early BY <1>1 DEF Fit, Starts, Minds, Pcs
<1>3. Tail(x.queue) \in Seq(Entries) BY <1>1
<1>4. Reads(x) BY <1>2 DEF Reads, Driving
<1>5. Head(x.queue) = x.queue[1] /\ 1 \in DOMAIN x.queue /\ x.queue[1] \in Entries
  BY <1>1, SMT
<1>6. Fitting(x, Head(x.queue)) BY <1>5 DEF Fit, Lined
<1> QED BY <1>1, <1>2, <1>3, <1>4, <1>5, <1>6

\* No two entries of a kind that is about no slot.
LEMMA Alike ==
  ASSUME NEW p \in Entries, NEW q \in Entries, p.kind = q.kind, p.kind \notin DOMAIN Ofs
  PROVE  p = q
BY DEF Entries, Ofs

\* What leaves a queue without touching the slots.
LEMMA Shapes ==
  ASSUME NEW x, Fit(x), x.queue # <<>>, NEW y \in Minds, y.queue = Tail(x.queue),
         y.work = x.work, y.run = x.run, y.pc \in Active, y.flight = x.flight,
         y.pc \in Still => x.pc \in Still, y.pc = "releasing" => x.pc = "releasing",
         y.pc \in Beating => x.pc \in Beating,
         y.pc = "skipping" => x.pc = "skipping" /\ y.as = x.as,
         y.pc \in Judged => x.pc \in Judged /\ y.as = x.as,
         \A p \in Entries : p # Head(x.queue) /\ Fitting(x, p) => Fitting(y, p)
  PROVE  Shaped(y)
<1>1. x \in Minds /\ x.pc \in Active /\ x.queue \in Seq(Entries) BY Queueing
<1>2. y.pc \notin Early /\ y.pc \notin Claimed /\ y.pc \notin {"loaded", "collected"}
  BY DEF Early, Claimed, Active, Beating
<1>3. Starts(y) /\ Pieced(y) /\ Quiet(y)
  BY <1>2 DEF Fit, Starts, Pieced, Quiet
<1>4. Heading(y)
  BY <1>1, <1>2 DEF Fit, Heading, Active
<1>5. Lined(y) BY <1>1, Leaves DEF Fit
<1> QED BY <1>3, <1>4, <1>5 DEF Shaped

LEMMA RecordCancelKeeps ==
  ASSUME SwarmInv, NEW e \in Executors, RecordCancel(e)
  PROVE  SwarmInv'
<1> DEFINE x == ex[e]
<1> DEFINE heard == Queued(x, "cancel")
<1> DEFINE r == [x.run EXCEPT !.cancel = TRUE]
<1> DEFINE done == [Dequeued(x) EXCEPT !.cancelling = IF heard THEN "done" ELSE @,
                                       !.ordered = @ /\ heard]
<1>1. Fit(x) BY Still0
<1>2. x.queue # <<>> /\ (Head(x.queue).kind = "cancel" \/ Head(x.queue).kind = "order")
  BY DEF RecordCancel, Queued
<1>3. /\ x \in Minds /\ x.pc \in Active /\ x.pc \notin Early /\ Reads(x)
      /\ Tail(x.queue) \in Seq(Entries) /\ Head(x.queue) \in Entries
  BY <1>1, <1>2, Queueing
<1>4. Write(e, r, x.recs, {}, done, done) BY DEF RecordCancel
<1>5. heard \in BOOLEAN /\ (heard <=> Head(x.queue).kind = "cancel")
  BY <1>2 DEF Queued
<1>6. x.run \in Heads /\ x.recs \in Copies /\ x.ordered \in BOOLEAN BY <1>3 DEF Minds
<1>7. r \in Heads /\ r.status = x.run.status /\ r.cancel BY <1>6 DEF Heads
<1> HIDE DEF r, heard
<1>8. /\ done \in Minds /\ done.pc = x.pc /\ done.work = x.work /\ done.queue = Tail(x.queue)
      /\ done.run = x.run /\ done.flight = x.flight
  BY <1>3, <1>5, <1>6 DEF Minds, Dequeued
<1>9. /\ done.as = x.as /\ done.failure = x.failure /\ done.ordered = (x.ordered /\ heard)
      /\ done.cancelling = IF heard THEN "done" ELSE x.cancelling
  BY <1>3, <1>5, <1>6 DEF Minds, Dequeued
<1> HIDE DEF done
<1>10. ASSUME NEW p \in Entries, p # Head(x.queue), Fitting(x, p)
       PROVE  Fitting(done, p)
  <2>1. p.kind = "cancel" => ~heard
    BY <1>3, <1>5, <1>10, Alike DEF Ofs
  <2>2. p.kind = "order" => heard
    BY <1>2, <1>3, <1>5, <1>10, Alike DEF Ofs
  <2> QED BY <1>8, <1>9, <1>10, <2>1, <2>2 DEF Fitting
<1>11. Shaped(done) BY <1>1, <1>2, <1>3, <1>8, <1>9, <1>10, Shapes
<1>12. With(x.recs, {}) = x.recs BY <1>6, WithNone
<1>13. Fit(Taken(done, r, x.recs))
  <2> DEFINE z == Taken(done, r, x.recs)
  <2>1. /\ z.run = r /\ z.recs = x.recs /\ z.pc = x.pc /\ z.work = x.work /\ z.as = x.as
        /\ z.failure = x.failure
    BY <1>6, <1>7, <1>8, <1>9, TakenIs
  <2> HIDE DEF z
  <2>2. Going(z) /\ Settles(z) BY <1>1, <1>7, <2>1 DEF Fit, Going, Settles
  <2>3. /\ x.pc \in Claimed \cup Beating => r.status = "running"
        /\ x.pc \in {"ending", "releasing"} => r.status # "none"
    BY <1>1, <1>7 DEF Fit, Heading
  <2>4. x.pc \notin {"loaded", "collected"} BY <1>3 DEF Early
  <2> QED BY <1>6, <1>7, <1>8, <1>11, <2>2, <2>3, <2>4, TakenFits DEF z
<1>14. r.status # "none"
  BY <1>1, <1>3, <1>7 DEF Fit, Heading, Active
<1>15. x.run = run /\ x.recs = task => SettledFits(r, x.recs)
  BY <1>7 DEF SwarmInv, StoredOK, SettledFits
<1>16. \A why \in Whys : Fit(Failed(done, why)) BY <1>11, FailedFits
<1> QED BY <1>3, <1>4, <1>6, <1>7, <1>8, <1>9, <1>12, <1>13, <1>14, <1>15, <1>16, WriteKeeps

LEMMA SkipKeeps ==
  ASSUME SwarmInv, NEW e \in Executors, Skip(e)
  PROVE  SwarmInv'
<1> DEFINE x == ex[e]
<1> DEFINE recs == [t \in Tasks |-> IF t \in x.skips THEN [x.recs[t] EXCEPT !.status = x.as]
                                   ELSE x.recs[t]]
<1> DEFINE y == [Dequeued(x) EXCEPT !.skips = {}, !.as = "none"]
<1> DEFINE done == [y EXCEPT !.pc = "top"]
<1> DEFINE failed == [y EXCEPT !.pc = "failing"]
<1>1. Fit(x) BY Still0
<1>2. x.queue # <<>> /\ Head(x.queue).kind = "skip" BY DEF Skip, Queued
<1>3. /\ x \in Minds /\ Reads(x) /\ Tail(x.queue) \in Seq(Entries)
      /\ Head(x.queue) \in Entries /\ Fitting(x, Head(x.queue))
  BY <1>1, <1>2, Queueing
<1>4. x.pc = "skipping" BY <1>2, <1>3 DEF Fitting, Ofs
<1>5. Write(e, x.run, recs, {}, done, failed) BY DEF Skip
<1>6. x.run \in Heads /\ x.recs \in Copies BY <1>3 DEF Minds
<1>7. x.as \in {"cancelled", "blocked"} /\ x.run.status = "running"
  BY <1>1, <1>4 DEF Fit, Heading, Beating
<1>8. /\ recs \in Copies
      /\ \A t \in Tasks : recs[t].status = "running" => x.recs[t].status = "running"
  BY <1>6, <1>7 DEF Copies, Records, Statuses, Terminal
<1> HIDE DEF recs
<1>9. ASSUME NEW pc \in {"top", "failing"}, NEW z, z = [y EXCEPT !.pc = pc]
      PROVE  Shaped(z) /\ z.pc = pc /\ z.work = x.work /\ z.failure = x.failure
  <2>1. /\ z \in Minds /\ z.pc = pc /\ z.work = x.work /\ z.queue = Tail(x.queue)
        /\ z.run = x.run /\ z.flight = x.flight
    BY <1>3, <1>9 DEF Minds, Dequeued, Pcs, Active, Beating
  <2>2. z.failure = x.failure /\ z.ordered = x.ordered /\ z.cancelling = x.cancelling
    BY <1>3, <1>9 DEF Minds, Dequeued
  <2>3. ASSUME NEW p \in Entries, p # Head(x.queue), Fitting(x, p)
        PROVE  Fitting(z, p)
    <3>1. p.kind # "skip" BY <1>2, <1>3, <2>3, Alike DEF Ofs
    <3> QED BY <1>4, <2>1, <2>2, <2>3, <3>1 DEF Fitting
  <2>4. /\ pc \in Active /\ pc \notin Still /\ pc # "releasing" /\ pc # "skipping"
        /\ pc \notin Judged /\ x.pc \in Beating
    BY <1>4 DEF Active, Beating, Still, Judged
  <2> QED BY <1>1, <1>2, <2>1, <2>2, <2>3, <2>4, Shapes
<1>10. Shaped(done) /\ done.pc = "top" /\ done.work = x.work /\ done.failure = x.failure
  BY <1>9
<1>11. Shaped(failed) /\ failed.failure = x.failure BY <1>9
<1> HIDE DEF done, failed, y
<1>12. With(recs, {}) = recs BY <1>8, WithNone
<1>13. Fit(Taken(done, x.run, recs))
  <2> DEFINE z == Taken(done, x.run, recs)
  <2>1. z.pc = "top" /\ z.recs = recs /\ z.work = x.work /\ z.failure = x.failure
    BY <1>6, <1>8, <1>10, TakenIs DEF Shaped
  <2> HIDE DEF z
  <2>2. Going(z) /\ Settles(z)
    BY <1>1, <1>4, <1>8, <2>1 DEF Fit, Going, Settles, Judged, Driving, Active, Beating
  <2> QED BY <1>6, <1>7, <1>8, <1>10, <2>2, TakenFits DEF z
<1>14. \A why \in Whys : Fit(Failed(failed, why)) BY <1>11, FailedFits
<1>15. SettledFits(x.run, recs) BY <1>7 DEF SettledFits
<1> QED BY <1>3, <1>5, <1>6, <1>7, <1>8, <1>11, <1>12, <1>13, <1>14, <1>15, WriteKeeps
        DEF Shaped

LEMMA SettleKeeps ==
  ASSUME SwarmInv, NEW e \in Executors, Settle(e)
  PROVE  SwarmInv'
<1> DEFINE x == ex[e]
<1> DEFINE r == [x.run EXCEPT !.status = x.as]
<1> DEFINE y == [Dequeued(x) EXCEPT !.as = "none"]
<1> DEFINE done == [y EXCEPT !.pc = "ending"]
<1> DEFINE failed == [y EXCEPT !.pc = "failing"]
<1>1. Fit(x) BY Still0
<1>2. x.queue # <<>> /\ Head(x.queue).kind = "settle" BY DEF Settle, Queued
<1>3. /\ x \in Minds /\ Reads(x) /\ Tail(x.queue) \in Seq(Entries)
      /\ Head(x.queue) \in Entries /\ Fitting(x, Head(x.queue))
  BY <1>1, <1>2, Queueing
<1>4. x.pc = "settling" BY <1>2, <1>3 DEF Fitting, Ofs
<1>5. Write(e, r, x.recs, {}, done, failed) BY DEF Settle
<1>6. x.run \in Heads /\ x.recs \in Copies BY <1>3 DEF Minds
<1>7. x.as \in Settled BY <1>1, <1>4 DEF Fit, Heading, Judged
<1>8. r \in Heads /\ r.status = x.as /\ r.cancel = x.run.cancel /\ r.status \notin {"none", "running"}
  BY <1>6, <1>7 DEF Heads, Settled
<1> HIDE DEF r
<1>9. ASSUME NEW pc \in {"ending", "failing"}, NEW z, z = [y EXCEPT !.pc = pc]
      PROVE  /\ Shaped(z) /\ z.pc = pc /\ z.work = x.work /\ z.failure = x.failure
  <2>1. /\ z \in Minds /\ z.pc = pc /\ z.work = x.work /\ z.queue = Tail(x.queue)
        /\ z.run = x.run /\ z.flight = x.flight
    BY <1>3, <1>9 DEF Minds, Dequeued, Pcs, Active, Beating
  <2>2. z.failure = x.failure /\ z.ordered = x.ordered /\ z.cancelling = x.cancelling
    BY <1>3, <1>9 DEF Minds, Dequeued
  <2>3. ASSUME NEW p \in Entries, p # Head(x.queue), Fitting(x, p)
        PROVE  Fitting(z, p)
    <3>1. p.kind # "settle" BY <1>2, <1>3, <2>3, Alike DEF Ofs
    <3> QED BY <1>4, <2>1, <2>2, <2>3, <3>1 DEF Fitting
  <2>4. /\ pc \in Active /\ x.pc \in Still /\ pc # "releasing" /\ pc # "skipping"
        /\ pc \notin Judged /\ x.pc \in Beating
    BY <1>4 DEF Active, Beating, Still, Judged
  <2> QED BY <1>1, <1>2, <2>1, <2>2, <2>3, <2>4, Shapes
<1>10. Shaped(done) /\ done.pc = "ending" /\ done.work = x.work /\ done.failure = x.failure
  BY <1>9
<1>11. Shaped(failed) /\ failed.failure = x.failure BY <1>9
<1> HIDE DEF done, failed, y
<1>12. With(x.recs, {}) = x.recs BY <1>6, WithNone
<1>13. Fit(Taken(done, r, x.recs))
  <2> DEFINE z == Taken(done, r, x.recs)
  <2>1. z.pc = "ending" /\ z.recs = x.recs /\ z.work = x.work /\ z.failure = x.failure
    BY <1>6, <1>8, <1>10, TakenIs DEF Shaped
  <2> HIDE DEF z
  <2>2. Going(z) /\ Settles(z)
    BY <1>1, <1>4, <2>1 DEF Fit, Going, Settles, Judged, Driving, Active, Beating
  <2>3. "ending" \notin Claimed \cup Beating BY DEF Claimed, Beating
  <2> QED BY <1>6, <1>8, <1>10, <2>2, <2>3, TakenFits DEF z
<1>14. \A why \in Whys : Fit(Failed(failed, why)) BY <1>11, FailedFits
<1>15. x.failure = "none" => SettledFits(r, x.recs)
  <2> SUFFICES ASSUME x.failure = "none" PROVE SettledFits(r, x.recs) OBVIOUS
  <2>1. \A t \in Present(x.recs) : x.recs[t].status # "running"
    <3>1. x.pc \in Driving /\ x.pc \in Still BY <1>4 DEF Driving, Active, Beating, Still
    <3>2. \A s \in Slots : Over(x.work[s]) BY <1>1, <3>1 DEF Fit, Quiet
    <3> QED BY <1>1, <3>1, <3>2 DEF Fit, Going, Present, Over, Doing
  <2>2. x.pc \in Judged BY <1>4 DEF Judged
  <2> QED BY <1>1, <1>8, <2>1, <2>2 DEF Fit, Settles, SettledFits
<1> QED BY <1>3, <1>5, <1>6, <1>8, <1>11, <1>12, <1>13, <1>14, <1>15, WriteKeeps
        DEF Shaped
-----------------------------------------------------------------------------
(* Commits of a task's attempt. *)

Whole(w) ==
  /\ w \in Pieces /\ (~Over(w) => w.task \in Tasks)
  /\ w.at = "saving" => w.end \in Kept \cup {"active"}
  /\ w.at = "saved" => w.end \in Kept
  /\ w.at = "finishing" => w.end \in Ends
Put(x, s, w) == [Dequeued(x) EXCEPT !.work = [@ EXCEPT ![s] = w]]

\* The slot the head of the queue is about.
LEMMA HeadSlot ==
  ASSUME NEW x, Fit(x), x.queue # <<>>, Head(x.queue).kind \in DOMAIN Ofs
  PROVE  LET s == Head(x.queue).slot IN
           /\ s \in Slots /\ x.work[s].at = Ofs[Head(x.queue).kind]
           /\ Whole(x.work[s]) /\ x.work[s].task \in Tasks
           /\ x.pc \in Active /\ x.pc \notin Still /\ Reads(x)
<1> DEFINE s == Head(x.queue).slot
<1>1. /\ x \in Minds /\ x.pc \in Active /\ Reads(x)
      /\ Head(x.queue) \in Entries /\ Fitting(x, Head(x.queue))
  BY Queueing
<1>2. s \in Slots /\ x.work[s].at = Ofs[Head(x.queue).kind]
  BY <1>1 DEF Entries, Ofs, Fitting
<1>3. x.work[s] \in Pieces BY <1>1, <1>2 DEF Minds, Works
<1>4. ~Over(x.work[s]) BY <1>2 DEF Ofs, Over
<1>5. Whole(x.work[s]) /\ x.work[s].task \in Tasks
  BY <1>2, <1>3, <1>4 DEF Fit, Pieced, Whole
<1>6. x.pc \notin Still BY <1>2, <1>4 DEF Fit, Quiet
<1> QED BY <1>1, <1>2, <1>5, <1>6

LEMMA PutShapes ==
  ASSUME NEW x, Fit(x), x.queue # <<>>, Head(x.queue).kind \in DOMAIN Ofs,
         NEW w, Whole(w)
  PROVE  LET y == Put(x, Head(x.queue).slot, w) IN
           /\ Shaped(y) /\ y.pc = x.pc /\ y.failure = x.failure
           /\ y.work = [x.work EXCEPT ![Head(x.queue).slot] = w]
<1> DEFINE s == Head(x.queue).slot
<1> DEFINE y == Put(x, s, w)
<1> DEFINE work == [x.work EXCEPT ![s] = w]
<1>1. /\ x \in Minds /\ x.queue \in Seq(Entries) /\ Tail(x.queue) \in Seq(Entries)
      /\ Head(x.queue) \in Entries /\ x.pc \notin Early
  BY Queueing
<1>2. /\ s \in Slots /\ x.work[s].at = Ofs[Head(x.queue).kind]
      /\ x.pc \in Active /\ x.pc \notin Still
  BY HeadSlot
<1>3. x.work \in Works BY <1>1 DEF Minds
<1>4. work \in Works /\ work[s] = w /\ \A u \in Slots \ {s} : work[u] = x.work[u]
  BY <1>2, <1>3 DEF Works, Whole
<1>5. y = [x EXCEPT !.queue = Tail(x.queue), !.work = work]
  BY <1>1 DEF Put, Dequeued, Minds
<1> HIDE DEF work, y, s
<1>6. /\ y \in Minds /\ y.pc = x.pc /\ y.work = work /\ y.queue = Tail(x.queue)
      /\ y.run = x.run /\ y.flight = x.flight
  BY <1>1, <1>4, <1>5 DEF Minds
<1>7. /\ y.as = x.as /\ y.new = x.new /\ y.failure = x.failure
      /\ y.cancelling = x.cancelling /\ y.ordered = x.ordered
  BY <1>1, <1>5 DEF Minds
<1>8. Starts(y) /\ Quiet(y)
  BY <1>1, <1>2, <1>6 DEF Fit, Starts, Quiet
<1>9. Pieced(y)
  <2> SUFFICES ASSUME NEW u \in Slots
               PROVE  /\ ~Over(y.work[u]) => y.work[u].task \in Tasks
                      /\ y.work[u].at = "saving" => y.work[u].end \in Kept \cup {"active"}
                      /\ y.work[u].at = "saved" => y.work[u].end \in Kept
                      /\ y.work[u].at = "finishing" => y.work[u].end \in Ends
    BY DEF Pieced
  <2>1. CASE u = s BY <1>4, <1>6, <2>1 DEF Whole
  <2>2. CASE u # s
    <3>1. y.work[u] = x.work[u] BY <1>4, <1>6, <2>2
    <3> QED BY <3>1 DEF Fit, Pieced
  <2> QED BY <2>1, <2>2
<1>10. Heading(y) BY <1>6, <1>7 DEF Fit, Heading
<1>11. ASSUME NEW p \in Entries, p # Head(x.queue), Fitting(x, p)
       PROVE  Fitting(y, p)
  <2>1. CASE p.kind \in DOMAIN Ofs
    <3>1. x.work[p.slot].at = Ofs[p.kind] /\ p.slot \in Slots
      BY <1>11, <2>1 DEF Fitting, Entries, Ofs
    <3>2. p.slot # s
      <4> SUFFICES ASSUME p.slot = s PROVE FALSE OBVIOUS
      <4>1. Ofs[p.kind] = Ofs[Head(x.queue).kind] BY <1>2, <3>1
      <4>2. p.kind = Head(x.queue).kind BY <2>1, <4>1 DEF Ofs
      <4>3. p = Head(x.queue) BY <1>1, <2>1, <4>2 DEF Entries, Ofs, s
      <4> QED BY <1>11, <4>3
    <3>3. y.work[p.slot] = x.work[p.slot] BY <1>4, <1>6, <3>1, <3>2
    <3> QED BY <1>6, <1>7, <1>11, <3>3 DEF Fitting
  <2>2. CASE p.kind \notin DOMAIN Ofs
    BY <1>6, <1>7, <1>11, <2>2 DEF Fitting
  <2> QED BY <2>1, <2>2
<1>12. Lined(y) BY <1>1, <1>6, <1>11, Leaves DEF Fit
<1> QED BY <1>6, <1>7, <1>8, <1>9, <1>10, <1>12 DEF Shaped, y, s, work

\* A commit of the slot at the head of the queue; what is running after it is
\* in that slot, or was running in another.
Commits(e, w, broken, recs, kids) ==
  LET x == ex[e]
      s == Head(x.queue).slot
  IN /\ x.queue # <<>> /\ Head(x.queue).kind \in DOMAIN Ofs
     /\ Write(e, x.run, recs, kids, Put(x, s, w), Put(x, s, broken))
     /\ \A t \in Tasks : With(recs, kids)[t].status = "running" =>
          \/ w.task = t /\ w.at \in Doing
          \/ x.recs[t].status = "running" /\ (x.work[s].at \in Doing => x.work[s].task # t)

LEMMA SlotKeeps ==
  ASSUME SwarmInv, NEW e \in Executors, NEW w, NEW broken, Whole(w), Whole(broken),
         NEW recs, NEW kids, With(recs, kids) \in Copies, Commits(e, w, broken, recs, kids)
  PROVE  SwarmInv'
<1> DEFINE x == ex[e]
<1> DEFINE s == Head(x.queue).slot
<1> DEFINE done == Put(x, s, w)
<1> DEFINE failed == Put(x, s, broken)
<1> DEFINE all == With(recs, kids)
<1>1. Fit(x) BY Still0
<1>0. x.queue # <<>> /\ Head(x.queue).kind \in DOMAIN Ofs BY DEF Commits
<1>2. s \in Slots /\ x.pc \in Active /\ x.pc \notin Still /\ Reads(x)
  BY <1>0, <1>1, HeadSlot
<1>3. /\ Shaped(done) /\ done.pc = x.pc /\ done.failure = x.failure
      /\ done.work = [x.work EXCEPT ![s] = w]
  BY <1>0, <1>1, PutShapes
<1>4. Shaped(failed) /\ failed.failure = x.failure BY <1>0, <1>1, PutShapes
<1>5. x.run \in Heads /\ x.work \in Works BY <1>1, FitShaped
<1>6. Write(e, x.run, recs, kids, done, failed) BY DEF Commits
<1>7. \A t \in Tasks : all[t].status = "running" =>
        \/ w.task = t /\ w.at \in Doing
        \/ x.recs[t].status = "running" /\ (x.work[s].at \in Doing => x.work[s].task # t)
  BY DEF Commits
<1>8. all \in Copies OBVIOUS
<1> HIDE DEF done, failed, x, s, all
<1>9. x.pc \in Beating
  BY <1>2 DEF Active, Still
<1>10. x.run.status = "running" BY <1>1, <1>9 DEF Fit, Heading
<1>11. Fit(Taken(done, x.run, all))
  <2> DEFINE z == Taken(done, x.run, all)
  <2>1. z.pc = x.pc /\ z.recs = all /\ z.work = done.work /\ z.failure = x.failure
    BY <1>3, <1>5, <1>8, TakenIs DEF Shaped
  <2> HIDE DEF z
  <2>2. Going(z)
    <3> SUFFICES ASSUME z.failure = "none", NEW t \in Tasks, z.recs[t].status = "running"
                 PROVE  \E u \in Slots : z.work[u].task = t /\ z.work[u].at \in Doing
      BY DEF Going
    <3>1. CASE w.task = t /\ w.at \in Doing
      <4>1. z.work[s] = w BY <1>2, <1>3, <1>5, <2>1 DEF Works
      <4> QED BY <1>2, <3>1, <4>1
    <3>2. CASE x.recs[t].status = "running" /\ (x.work[s].at \in Doing => x.work[s].task # t)
      <4>1. x.failure = "none" /\ x.pc \in Driving BY <1>2, <2>1 DEF Driving
      <4>2. PICK u \in Slots : x.work[u].task = t /\ x.work[u].at \in Doing
        BY <1>1, <3>2, <4>1 DEF Fit, Going
      <4>3. u # s BY <3>2, <4>2
      <4>4. z.work[u] = x.work[u] BY <1>3, <1>5, <2>1, <4>2, <4>3 DEF Works
      <4> QED BY <4>2, <4>4
    <3> QED BY <1>7, <2>1, <3>1, <3>2
  <2>3. Settles(z) BY <1>2, <2>1 DEF Settles, Judged, Still
  <2>4. x.pc \notin {"loaded", "collected"} BY <1>9 DEF Beating
  <2>5. x.pc \notin {"ending", "releasing"} BY <1>9 DEF Beating
  <2> QED BY <1>3, <1>5, <1>8, <1>10, <2>2, <2>3, <2>4, <2>5, TakenFits DEF z
<1>12. \A why \in Whys : Fit(Failed(failed, why)) BY <1>4, FailedFits
<1>13. SettledFits(x.run, all) BY <1>10 DEF SettledFits
<1>14. failed \in Minds BY <1>4 DEF Shaped
<1> QED BY <1>2, <1>4, <1>5, <1>6, <1>8, <1>10, <1>11, <1>12, <1>13, <1>14, WriteKeeps
        DEF x, all

LEMMA StartKeeps ==
  ASSUME SwarmInv, NEW e \in Executors, Start(e)
  PROVE  SwarmInv'
<1> DEFINE x == ex[e]
<1> DEFINE s == Head(x.queue).slot
<1> DEFINE t == x.work[s].task
<1> DEFINE w == [x.work[s] EXCEPT !.at = "working"]
<1> DEFINE broken == [x.work[s] EXCEPT !.at = "broken"]
<1> DEFINE recs == [x.recs EXCEPT ![t].status = "running"]
<1>1. Fit(x) BY Still0
<1>2. x.queue # <<>> /\ Head(x.queue).kind = "start" BY DEF Start, Queued
<1>3. Head(x.queue).kind \in DOMAIN Ofs BY <1>2 DEF Ofs
<1>4. /\ s \in Slots /\ x.work[s].at = "starting" /\ Whole(x.work[s]) /\ t \in Tasks
  BY <1>1, <1>2, <1>3, HeadSlot DEF Ofs
<1>5. x.recs \in Copies BY <1>1, FitShaped
<1>6. Write(e, x.run, recs, {}, Put(x, s, w), Put(x, s, broken))
  <2>1. Write(e, x.run, recs, {}, [Dequeued(x) EXCEPT !.work[s].at = "working"],
              [Dequeued(x) EXCEPT !.work[s].at = "broken"])
    BY DEF Start
  <2>2. Dequeued(x).work = x.work BY <1>1, FitShaped DEF Dequeued, Minds
  <2> QED BY <2>1, <2>2 DEF Put
<1>7. Whole(w) /\ Whole(broken) /\ w.task = t /\ w.at = "working"
  BY <1>4 DEF Whole, Pieces, Over
<1>8. /\ recs \in Copies
      /\ \A u \in Tasks : recs[u].status = "running" => u = t \/ x.recs[u].status = "running"
  BY <1>4, <1>5 DEF Copies, Records, Statuses
<1>9. With(recs, {}) = recs BY <1>8, WithNone
<1>10. x.work[s].at \notin Doing /\ w.at \in Doing BY <1>4, <1>7 DEF Doing
<1> HIDE DEF recs, w, broken
<1>11. Commits(e, w, broken, recs, {})
  BY <1>2, <1>3, <1>6, <1>7, <1>8, <1>9, <1>10 DEF Commits
<1> QED BY <1>7, <1>8, <1>9, <1>11, SlotKeeps

LEMMA SaveKeeps ==
  ASSUME SwarmAssumption, SwarmInv, NEW e \in Executors, Save(e)
  PROVE  SwarmInv'
<1> DEFINE x == ex[e]
<1> DEFINE s == Head(x.queue).slot
<1> DEFINE t == x.work[s].task
<1> DEFINE o == x.work[s].end
<1> DEFINE w == IF o = "active" THEN [x.work[s] EXCEPT !.at = "working", !.end = "none"]
                ELSE [x.work[s] EXCEPT !.at = "saved"]
<1> DEFINE broken == [x.work[s] EXCEPT !.at = "broken"]
<1> DEFINE recs == [x.recs EXCEPT ![t].saved = Saved(o)]
<1>1. Fit(x) BY Still0
<1>2. x.queue # <<>> /\ Head(x.queue).kind = "save" BY DEF Save, Queued
<1>3. Head(x.queue).kind \in DOMAIN Ofs BY <1>2 DEF Ofs
<1>4. /\ s \in Slots /\ x.work[s].at = "saving" /\ Whole(x.work[s]) /\ t \in Tasks
  BY <1>1, <1>2, <1>3, HeadSlot DEF Ofs
<1>5. x.recs \in Copies BY <1>1, FitShaped
<1>6. Write(e, x.run, recs, {}, Put(x, s, w), Put(x, s, broken))
  <2> DEFINE y == Dequeued(x)
  <2>1. Write(e, x.run, recs, {},
              IF o = "active" THEN [y EXCEPT !.work[s] = [@ EXCEPT !.at = "working", !.end = "none"]]
              ELSE [y EXCEPT !.work[s].at = "saved"],
              [y EXCEPT !.work[s].at = "broken"])
    BY DEF Save
  <2>2. y.work = x.work BY <1>1, FitShaped DEF Dequeued, Minds
  <2> QED BY <2>1, <2>2 DEF Put
<1>7. /\ o \in Kept \cup {"active"} /\ w.task = t /\ w.at \in Doing
      /\ Whole(w) /\ Whole(broken)
  BY <1>4 DEF Whole, Pieces, Over, Doing
<1>8. Saved(o) \in {"active", "completed", "failed", "suspended"}
  BY <1>7 DEF Saved, Kept, SwarmAssumption
<1>9. /\ recs \in Copies
      /\ \A u \in Tasks : recs[u].status = "running" => x.recs[u].status = "running"
  BY <1>4, <1>5, <1>8 DEF Copies, Records
<1>10. With(recs, {}) = recs BY <1>9, WithNone
<1>12. x.work[s].task = t OBVIOUS
<1> HIDE DEF recs, w, broken, t, o
<1>11. Commits(e, w, broken, recs, {})
  <2>1. \A u \in Tasks : With(recs, {})[u].status = "running" =>
          \/ w.task = u /\ w.at \in Doing
          \/ x.recs[u].status = "running" /\ (x.work[s].at \in Doing => x.work[s].task # u)
    BY <1>7, <1>9, <1>10, <1>12
  <2> QED BY <1>2, <1>3, <1>6, <2>1 DEF Commits
<1> QED BY <1>7, <1>9, <1>10, <1>11, SlotKeeps

LEMMA CommitFinishKeeps ==
  ASSUME SwarmInv, NEW e \in Executors, CommitFinish(e)
  PROVE  SwarmInv'
<1> DEFINE x == ex[e]
<1> DEFINE s == Head(x.queue).slot
<1> DEFINE w == x.work[s]
<1> DEFINE ended == [NoWork EXCEPT !.at = "ended"]
<1> DEFINE broken == [NoWork EXCEPT !.at = "broken"]
<1> DEFINE recs == [x.recs EXCEPT ![w.task].status = w.end]
<1>1. Fit(x) BY Still0
<1>2. x.queue # <<>> /\ Head(x.queue).kind = "finish" BY DEF CommitFinish, Queued
<1>3. Head(x.queue).kind \in DOMAIN Ofs BY <1>2 DEF Ofs
<1>4. /\ s \in Slots /\ w.at = "finishing" /\ Whole(w) /\ w.task \in Tasks
  BY <1>1, <1>2, <1>3, HeadSlot DEF Ofs
<1>5. x.recs \in Copies BY <1>1, FitShaped
<1>6. Write(e, x.run, recs, w.kids, Put(x, s, ended), Put(x, s, broken))
  BY DEF CommitFinish, Put
<1>7. Whole(ended) /\ Whole(broken)
  BY DEF Whole, Pieces, Over, NoWork, Ends
<1>8. w.end \in Ends /\ w.kids \in SUBSET Tasks BY <1>4 DEF Whole, Pieces
<1>9. /\ recs \in Copies
      /\ \A u \in Tasks : recs[u].status = "running" =>
           u # w.task /\ x.recs[u].status = "running"
  BY <1>4, <1>5, <1>8 DEF Copies, Records, Statuses, Ends, Terminal
<1> HIDE DEF recs, ended, broken
<1>10. /\ With(recs, w.kids) \in Copies
       /\ \A u \in Tasks : With(recs, w.kids)[u].status = "running" => recs[u].status = "running"
  BY <1>9 DEF With, Copies, Fresh, Records, Statuses
<1>11. Commits(e, ended, broken, recs, w.kids)
  BY <1>2, <1>3, <1>6, <1>9, <1>10 DEF Commits
<1> QED BY <1>7, <1>10, <1>11, SlotKeeps
-----------------------------------------------------------------------------
(* A task's work comes out. *)

Lines(x, s, w, kind) == [x EXCEPT !.work[s] = w, !.queue = Append(@, Entry(kind, s))]

LEMMA WorksOn ==
  ASSUME SwarmInv, NEW e \in Executors, NEW s \in Slots,
         ex[e].work[s].at \in {"working", "saved"}, NEW kind \in {"save", "finish"}, NEW w,
         Whole(w), w.task = ex[e].work[s].task, w.at = Ofs[kind],
         To(e, Lines(ex[e], s, w, kind)), UNCHANGED stored
  PROVE  SwarmInv'
<1> DEFINE x == ex[e]
<1> DEFINE q == Entry(kind, s)
<1> DEFINE work == [x.work EXCEPT ![s] = w]
<1> DEFINE y == Lines(x, s, w, kind)
<1>1. Fit(x) /\ x \in Minds /\ x.queue \in Seq(Entries) /\ x.work \in Works
  BY Still0, FitShaped
<1>2. q \in Entries /\ q.kind = kind /\ q.slot = s /\ kind \in DOMAIN Ofs
  BY DEF Entry, Entries, Ofs
<1>3. work \in Works /\ work[s] = w /\ \A u \in Slots \ {s} : work[u] = x.work[u]
  BY <1>1 DEF Works, Whole
<1>4. Append(x.queue, q) \in Seq(Entries) BY <1>1, <1>2
<1>5. y = [x EXCEPT !.work = work, !.queue = Append(x.queue, q)] BY DEF Lines
<1>6. To(e, y) OBVIOUS
<1>15. x.work[s].at \in {"working", "saved"} /\ w.task = x.work[s].task OBVIOUS
<1> HIDE DEF work, y, q, x
<1>7. /\ y \in Minds /\ y.pc = x.pc /\ y.work = work /\ y.queue = Append(x.queue, q)
      /\ y.run = x.run /\ y.recs = x.recs
  BY <1>1, <1>3, <1>4, <1>5 DEF Minds
<1>8. /\ y.as = x.as /\ y.new = x.new /\ y.failure = x.failure /\ y.fresh = x.fresh
      /\ y.cancelling = x.cancelling /\ y.ordered = x.ordered
  BY <1>1, <1>5 DEF Minds
<1>9. ~Over(x.work[s]) /\ x.work[s] # NoWork BY <1>15 DEF Over, NoWork
<1>10. x.pc \notin Early /\ x.pc \notin Still
  <2>1. x.pc \notin Early
    <3> SUFFICES ASSUME x.pc \in Early PROVE FALSE OBVIOUS
    <3>1. x.work = [u \in Slots |-> NoWork] BY <1>1 DEF Fit, Starts
    <3> QED BY <1>9, <3>1
  <2>2. x.pc \notin Still BY <1>1, <1>9 DEF Fit, Quiet
  <2> QED BY <2>1, <2>2
<1>11. Starts(y) /\ Quiet(y) /\ Heading(y)
  <2>1. Starts(y) BY <1>7, <1>10 DEF Starts, Still
  <2>2. Quiet(y) BY <1>7, <1>10 DEF Quiet
  <2>3. Heading(y) BY <1>1, <1>7, <1>8 DEF Fit, Heading
  <2> QED BY <2>1, <2>2, <2>3
<1>12. Pieced(y)
  <2> SUFFICES ASSUME NEW u \in Slots
               PROVE  /\ ~Over(y.work[u]) => y.work[u].task \in Tasks
                      /\ y.work[u].at = "saving" => y.work[u].end \in Kept \cup {"active"}
                      /\ y.work[u].at = "saved" => y.work[u].end \in Kept
                      /\ y.work[u].at = "finishing" => y.work[u].end \in Ends
    BY DEF Pieced
  <2>1. CASE u = s BY <1>3, <1>7, <2>1 DEF Whole
  <2>2. CASE u # s
    <3>1. y.work[u] = x.work[u] BY <1>3, <1>7, <2>2
    <3> QED BY <1>1, <3>1 DEF Fit, Pieced
  <2> QED BY <2>1, <2>2
<1>13. Lined(y)
  <2>1. ASSUME NEW p \in Entries, Fitting(x, p) PROVE Fitting(y, p)
    <3>1. p.kind \in DOMAIN Ofs => p.slot \in Slots /\ p.slot # s
      BY <1>15, <2>1 DEF Fitting, Entries, Ofs
    <3>2. p.kind \in DOMAIN Ofs => y.work[p.slot] = x.work[p.slot]
      BY <1>3, <1>7, <3>1
    <3> QED BY <1>7, <1>8, <2>1, <3>2 DEF Fitting
  <2>2. Fitting(y, q) BY <1>2, <1>3, <1>7 DEF Fitting, Ofs
  <2>3. ~Fitting(x, q) BY <1>2, <1>15 DEF Fitting, Ofs
  <2> QED BY <1>1, <1>7, <2>1, <2>2, <2>3, Joins DEF Fit
<1>14. Going(y)
  <2> SUFFICES ASSUME y.pc \in Driving, y.failure = "none", NEW t \in Tasks,
                      y.recs[t].status = "running"
               PROVE  \E u \in Slots : y.work[u].task = t /\ y.work[u].at \in Doing
    BY DEF Going
  <2>1. PICK u \in Slots : x.work[u].task = t /\ x.work[u].at \in Doing
    BY <1>1, <1>7, <1>8 DEF Fit, Going
  <2>2. CASE u = s BY <1>3, <1>7, <1>15, <2>1, <2>2 DEF Ofs, Doing
  <2>3. CASE u # s BY <1>3, <1>7, <2>1, <2>3
  <2> QED BY <2>2, <2>3
<1>16. Settles(y) BY <1>7, <1>10 DEF Settles, Judged, Still
<1>17. Fit(y) BY <1>7, <1>11, <1>12, <1>13, <1>14, <1>16 DEF Fit
<1>18. Knows(x, y) BY <1>7, <1>8 DEF Knows, Reads
<1> QED BY <1>6, <1>17, <1>18, Alone DEF x

LEMMA EndingIs ==
  ASSUME SwarmAssumption, NEW x, NEW t \in Tasks,
         NEW o \in {"completed", "failed", "timeout", "suspended", "needs_reconciliation"}
  PROVE  Ending(x, t, o).end \in Ends /\ Ending(x, t, o).kids \in SUBSET Tasks
<1> DEFINE as == EndsAs(x, o)
<1> DEFINE end == IF as = "completed" /\ ~Fits(x, SpawnedBy(t, as)) THEN "failed" ELSE as
<1>1. as \in Ends BY DEF EndsAs, Ends, Terminal
<1> HIDE DEF as
<1>2. end \in Ends BY <1>1 DEF Ends, Terminal
<1>3. SpawnedBy(t, end) \in SUBSET Tasks BY DEF SpawnedBy, SwarmAssumption
<1>4. Ending(x, t, o).end = end BY DEF Ending, as
<1>5. Ending(x, t, o).kids \in {{}, SpawnedBy(t, end)} BY DEF Ending, as
<1> QED BY <1>2, <1>3, <1>4, <1>5

LEMMA FinishingKeeps ==
  ASSUME SwarmAssumption, SwarmInv, NEW e \in Executors, NEW s \in Slots,
         ex[e].work[s].at \in {"working", "saved"},
         NEW o \in {"completed", "failed", "timeout", "suspended", "needs_reconciliation"},
         To(e, Finishing(ex[e], s, o)), UNCHANGED stored
  PROVE  SwarmInv'
<1> DEFINE x == ex[e]
<1> DEFINE f == Ending(x, x.work[s].task, o)
<1> DEFINE w == [x.work[s] EXCEPT !.at = "finishing", !.end = f.end, !.kids = f.kids]
<1>1. Fit(x) /\ x.work \in Works BY Still0, FitShaped
<1>2. x.work[s] \in Pieces BY <1>1 DEF Works
<1>3. x.work[s].task \in Tasks BY <1>1 DEF Fit, Pieced, Over
<1>4. f.end \in Ends /\ f.kids \in SUBSET Tasks BY <1>3, EndingIs
<1>5. Finishing(x, s, o) = Lines(x, s, w, "finish") BY DEF Finishing, Lines
<1> HIDE DEF f
<1>6. Whole(w) /\ w.task = x.work[s].task /\ w.at = Ofs["finish"]
  BY <1>2, <1>3, <1>4 DEF Whole, Pieces, Ofs
<1> HIDE DEF w
<1> QED BY <1>5, <1>6, WorksOn

LEMMA SavingKeeps ==
  ASSUME SwarmInv, NEW e \in Executors, NEW s \in Slots, ex[e].work[s].at = "working",
         NEW o \in Kept \cup {"active"}, SwarmAssumption,
         To(e, Saving(ex[e], s, o)), UNCHANGED stored
  PROVE  SwarmInv'
<1> DEFINE x == ex[e]
<1> DEFINE w == [x.work[s] EXCEPT !.at = "saving", !.end = o]
<1>1. Fit(x) /\ x.work \in Works BY Still0, FitShaped
<1>2. x.work[s] \in Pieces BY <1>1 DEF Works
<1>3. x.work[s].task \in Tasks BY <1>1 DEF Fit, Pieced, Over
<1>4. o \in {"active", "timeout"} \cup Ends BY DEF Kept, Ends, Terminal, SwarmAssumption
<1>5. Saving(x, s, o) = Lines(x, s, w, "save") BY DEF Saving, Lines
<1>6. Whole(w) /\ w.task = x.work[s].task /\ w.at = Ofs["save"]
  BY <1>2, <1>3, <1>4 DEF Whole, Pieces, Ofs
<1> HIDE DEF w
<1> QED BY <1>5, <1>6, WorksOn

LEMMA WorkKeeps ==
  ASSUME SwarmAssumption, SwarmInv, NEW e \in Executors, NEW s \in Slots,
         Work(e, s) \/ Finish(e, s)
  PROVE  SwarmInv'
<1> DEFINE x == ex[e]
<1> DEFINE all == {"completed", "failed", "timeout", "suspended", "needs_reconciliation"}
<1>1. Outcomes \subseteq all BY DEF SwarmAssumption
<1>2. Fit(x) /\ UNCHANGED stored BY Still0 DEF Work, Finish
<1>3. CASE Work(e, s)
  <2>1. \/ \E o \in all : To(e, Finishing(x, s, o))
        \/ \E o \in Kept \cup {"active"} : To(e, Saving(x, s, o))
    BY <1>1, <1>3 DEF Work, HasEnded, Envelopes, Kept
  <2>2. x.work[s].at = "working" BY <1>3 DEF Work
  <2> QED BY <1>2, <2>1, <2>2, FinishingKeeps, SavingKeeps
<1>4. CASE Finish(e, s)
  <2>1. x.work[s].at = "saved" /\ To(e, Finishing(x, s, x.work[s].end)) BY <1>4 DEF Finish
  <2>2. x.work[s].end \in all BY <1>1, <1>2, <2>1 DEF Fit, Pieced, Kept
  <2> QED BY <1>2, <2>1, <2>2, FinishingKeeps
<1> QED BY <1>3, <1>4
-----------------------------------------------------------------------------
(* The loop. *)

\* In a finite set of numbers, every place is taken by one of them.
LEMMA Ranks ==
  ASSUME NEW S \in SUBSET Nat, IsFiniteSet(S)
  PROVE  /\ Cardinality(S) \in Nat
         /\ \A i \in S : Rank(i, S) \in 0..Cardinality(S)-1
         /\ \A i, j \in S : Rank(i, S) = Rank(j, S) => i = j
         /\ \A k \in 0..Cardinality(S)-1 : \E i \in S : Rank(i, S) = k
<1> DEFINE below(i) == {j \in S : j < i}
<1> DEFINE n == Cardinality(S)
<1>1. n \in Nat BY FS_CardinalityType
<1>2. \A i \in S : IsFiniteSet(below(i)) /\ Rank(i, S) = Cardinality(below(i)) /\ Rank(i, S) \in Nat
  <2> SUFFICES ASSUME NEW i \in S
               PROVE  IsFiniteSet(below(i)) /\ Rank(i, S) = Cardinality(below(i)) /\ Rank(i, S) \in Nat
    OBVIOUS
  <2>1. below(i) \in SUBSET S OBVIOUS
  <2>2. IsFiniteSet(below(i)) BY <2>1, FS_Subset
  <2>3. Rank(i, S) = Cardinality(below(i)) BY DEF Rank
  <2> QED BY <2>2, <2>3, FS_CardinalityType
<1>3. ASSUME NEW i \in S, NEW T \in SUBSET S, IsFiniteSet(T), below(i) \subseteq T, i \in T
      PROVE  Rank(i, S) < Cardinality(T)
  <2>1. i \notin below(i) /\ below(i) \in SUBSET T BY <1>3
  <2>2. Cardinality(below(i)) <= Cardinality(T)
        /\ (Cardinality(T) = Cardinality(below(i)) => T = below(i))
    BY <1>3, <2>1, FS_Subset
  <2>3. Cardinality(T) \in Nat BY <1>3, FS_CardinalityType
  <2>4. T # below(i) BY <1>3, <2>1
  <2> HIDE DEF below
  <2> QED BY <1>2, <2>2, <2>3, <2>4
<1>4. \A i \in S : Rank(i, S) \in 0..n-1
  <2> SUFFICES ASSUME NEW i \in S PROVE Rank(i, S) \in 0..n-1 OBVIOUS
  <2>1. Rank(i, S) < n BY <1>3
  <2>2. Rank(i, S) \in Nat BY <1>2
  <2> HIDE DEF n
  <2> QED BY <1>1, <2>1, <2>2
<1>5. \A i, j \in S : i < j => Rank(i, S) < Rank(j, S)
  <2> SUFFICES ASSUME NEW i \in S, NEW j \in S, i < j PROVE Rank(i, S) < Rank(j, S)
    OBVIOUS
  <2>1. i \in Nat /\ j \in Nat OBVIOUS
  <2>2. below(i) \subseteq below(j)
    <3> SUFFICES ASSUME NEW k \in S, k < i PROVE k < j OBVIOUS
    <3>1. k \in Nat OBVIOUS
    <3> QED BY <2>1, <3>1
  <2>3. i \in below(j) /\ below(j) \in SUBSET S OBVIOUS
  <2> QED BY <1>2, <1>3, <2>2, <2>3
<1>6. \A i, j \in S : Rank(i, S) = Rank(j, S) => i = j
  <2> SUFFICES ASSUME NEW i \in S, NEW j \in S, Rank(i, S) = Rank(j, S) PROVE i = j
    OBVIOUS
  <2>1. i \in Nat /\ j \in Nat /\ Rank(i, S) \in Nat /\ Rank(j, S) \in Nat BY <1>2
  <2>2. ~(i < j) /\ ~(j < i) BY <1>5, <2>1
  <2> QED BY <2>1, <2>2
<1>7. \A k \in 0..n-1 : \E i \in S : Rank(i, S) = k
  <2> DEFINE f == [i \in S |-> Rank(i, S)]
  <2>1. f \in Injection(S, 0..n-1) BY <1>4, <1>6 DEF Injection, IsInjective
  <2>2. IsFiniteSet(0..n-1) /\ Cardinality(0..n-1) = n
    <3>1. 0 \in Int /\ n-1 \in Int BY <1>1
    <3>2. IsFiniteSet(0..n-1) /\ Cardinality(0..n-1) = IF 0 > n-1 THEN 0 ELSE n-1-0+1
      BY <3>1, FS_Interval
    <3> HIDE DEF n
    <3> QED BY <1>1, <3>2
  <2>3. f \in Surjection(S, 0..n-1) BY <2>1, <2>2, FS_Injection
  <2> QED BY <2>3 DEF Surjection
<1> QED BY <1>1, <1>4, <1>6, <1>7

\* What a dispatch puts in the slots and in the queue.
Dispatches(x, taken, new, starts) ==
  /\ taken \in SUBSET Slots /\ new \in Works /\ starts \in Seq(Entries)
  /\ \A s \in taken : x.work[s].at = "none"
  /\ \A s \in Slots :
       IF s \in taken THEN new[s].at = "starting" /\ new[s].task \in Runnable(x)
       ELSE new[s] = x.work[s]
  /\ \A i \in DOMAIN starts : starts[i].kind = "start" /\ starts[i].slot \in taken
  /\ \A i, j \in DOMAIN starts : starts[i] = starts[j] => i = j
  /\ taken = {} => starts = <<>>
  /\ Dispatched(x) = [x EXCEPT !.work = new, !.queue = @ \o starts]

LEMMA DispatchIs ==
  ASSUME SwarmAssumption, NEW x \in Minds
  PROVE  \E taken, new, starts : Dispatches(x, taken, new, starts)
<1> DEFINE free == {s \in Slots : x.work[s].at = "none"}
<1> DEFINE ready == IF x.run.cancel \/ x.draining THEN {} ELSE Runnable(x)
<1> DEFINE pairs == {p \in free \X ready : Rank(p[1], free) = Rank(p[2], ready)}
<1> DEFINE taken == {p[1] : p \in pairs}
<1> DEFINE piece(s) ==
             [NoWork EXCEPT !.task = (CHOOSE p \in pairs : p[1] = s)[2], !.at = "starting"]
<1> DEFINE new == [s \in Slots |-> IF s \in taken THEN piece(s) ELSE x.work[s]]
<1> DEFINE n == Cardinality(taken)
<1> DEFINE at(i) == CHOOSE s \in taken : Rank(s, taken) = i - 1
<1> DEFINE starts == [i \in 1..n |-> Entry("start", at(i))]
<1>1. Dispatched(x) = [x EXCEPT !.work = new, !.queue = @ \o starts]
  BY DEF Dispatched
<1>2. taken \in SUBSET Slots /\ \A s \in taken : x.work[s].at = "none" OBVIOUS
<1>3. ready \subseteq Runnable(x) /\ ready \subseteq Tasks BY DEF Runnable, Pending
<1>4. \A s \in taken : piece(s).task \in Runnable(x) /\ piece(s).task \in Tasks
                       /\ piece(s).at = "starting" /\ piece(s) \in Pieces
  <2> SUFFICES ASSUME NEW s \in taken
               PROVE  piece(s).task \in Runnable(x) /\ piece(s).task \in Tasks
                       /\ piece(s).at = "starting" /\ piece(s) \in Pieces
    OBVIOUS
  <2> DEFINE p0 == CHOOSE p \in pairs : p[1] = s
  <2>1. \E p \in pairs : p[1] = s OBVIOUS
  <2>2. p0 \in pairs BY <2>1
  <2>6. piece(s) = [NoWork EXCEPT !.task = p0[2], !.at = "starting"] OBVIOUS
  <2> HIDE DEF p0, piece
  <2>3. p0[2] \in ready BY <2>2
  <2> HIDE DEF ready
  <2>4. p0[2] \in Tasks /\ p0[2] \in Runnable(x) BY <1>3, <2>3
  <2>5. piece(s) = [task |-> p0[2], at |-> "starting", end |-> "none", kids |-> {}]
    BY <2>6 DEF NoWork
  <2> QED BY <2>4, <2>5 DEF Pieces
<1>5. x.work \in Works BY DEF Minds
<1> HIDE DEF piece, taken
<1>6. new \in Works
  <2>1. \A s \in Slots : (IF s \in taken THEN piece(s) ELSE x.work[s]) \in Pieces
    BY <1>4, <1>5 DEF Works
  <2> QED BY <2>1 DEF Works
<1>7. taken \in SUBSET Nat /\ IsFiniteSet(taken)
  <2>1. Slots \in SUBSET Nat /\ IsFiniteSet(Slots)
    BY FS_Interval DEF Slots, SwarmAssumption
  <2> QED BY <1>2, <2>1, FS_Subset
<1>8. /\ n \in Nat /\ \A i, j \in taken : Rank(i, taken) = Rank(j, taken) => i = j
      /\ \A k \in 0..n-1 : \E i \in taken : Rank(i, taken) = k
  BY <1>7, Ranks
<1>9. \A i \in 1..n : at(i) \in taken /\ Rank(at(i), taken) = i - 1
  <2> SUFFICES ASSUME NEW i \in 1..n PROVE at(i) \in taken /\ Rank(at(i), taken) = i - 1
    OBVIOUS
  <2> HIDE DEF n
  <2>1. i - 1 \in 0..n-1 BY <1>8
  <2>2. \E s \in taken : Rank(s, taken) = i - 1 BY <1>8, <2>1
  <2> QED BY <2>2
<1>10. taken = {} => n = 0 BY FS_EmptySet
<1> HIDE DEF n, at
<1>11. starts \in Seq(Entries)
  <2>1. \A i \in 1..n : Entry("start", at(i)) \in Entries
    BY <1>2, <1>9 DEF Entry, Entries, Ofs
  <2> QED BY <1>8, <2>1
<1>12. \A i \in DOMAIN starts : starts[i].kind = "start" /\ starts[i].slot \in taken
  BY <1>9 DEF Entry
<1>13. \A i, j \in DOMAIN starts : starts[i] = starts[j] => i = j
  <2> SUFFICES ASSUME NEW i \in 1..n, NEW j \in 1..n, starts[i] = starts[j] PROVE i = j
    OBVIOUS
  <2>1. starts[i].slot = at(i) /\ starts[j].slot = at(j) BY DEF Entry
  <2>2. at(i) = at(j) BY <2>1
  <2>3. i - 1 = j - 1 BY <1>9, <2>2
  <2> QED BY <1>8, <2>3
<1>14. taken = {} => starts = <<>> BY <1>10, <1>11
<1>15. \A s \in Slots :
         IF s \in taken THEN new[s].at = "starting" /\ new[s].task \in Runnable(x)
         ELSE new[s] = x.work[s]
  BY <1>4
<1> HIDE DEF new, starts
<1>16. Dispatches(x, taken, new, starts)
  BY <1>1, <1>2, <1>6, <1>11, <1>12, <1>13, <1>14, <1>15 DEF Dispatches
<1> QED BY <1>16

\* What several join the queue behind what is there.
LEMMA JoinAll ==
  ASSUME NEW x, Lined(x), x.queue \in Seq(Entries), NEW y, NEW more \in Seq(Entries),
         y.queue = x.queue \o more,
         \A i, j \in DOMAIN more : more[i] = more[j] => i = j,
         \A i \in DOMAIN more : Fitting(y, more[i]) /\ ~Fitting(x, more[i]),
         \A p \in Entries : Fitting(x, p) => Fitting(y, p)
  PROVE  Lined(y)
<1> DEFINE n == Len(x.queue)
<1> DEFINE m == Len(more)
<1>1. /\ n \in Nat /\ m \in Nat /\ DOMAIN x.queue = 1..n /\ DOMAIN more = 1..m
      /\ DOMAIN y.queue = 1..n+m
  BY SMT
<1>2. \A i \in 1..n : y.queue[i] = x.queue[i] /\ x.queue[i] \in Entries BY SMT
<1>3. \A i \in 1..n+m : i > n => y.queue[i] = more[i-n] /\ i-n \in 1..m BY SMT
<1> HIDE DEF n, m
<1>4. \A i \in 1..n : Fitting(x, y.queue[i]) /\ Fitting(y, y.queue[i])
  BY <1>1, <1>2 DEF Lined
<1>5. \A i \in 1..n+m : i > n => Fitting(y, y.queue[i]) /\ ~Fitting(x, y.queue[i])
  BY <1>1, <1>3
<1>6. \A i \in 1..n+m : i \in 1..n \/ i > n BY <1>1
<1>7. \A i \in 1..n+m : Fitting(y, y.queue[i]) BY <1>4, <1>5, <1>6
<1>8. ASSUME NEW i \in 1..n+m, NEW j \in 1..n+m, y.queue[i] = y.queue[j]
      PROVE  i = j
  <2>1. CASE i \in 1..n /\ j \in 1..n BY <1>1, <1>2, <1>8, <2>1 DEF Lined
  <2>2. CASE i > n /\ j > n
    <3>1. more[i-n] = more[j-n] /\ i-n \in 1..m /\ j-n \in 1..m BY <1>3, <1>8, <2>2
    <3>2. i-n = j-n BY <1>1, <3>1
    <3> QED BY <1>1, <3>2
  <2> QED BY <1>4, <1>5, <1>6, <1>8, <2>1, <2>2
<1> QED BY <1>1, <1>7, <1>8 DEF Lined

LEMMA DispatchedFits ==
  ASSUME SwarmAssumption, NEW x, Fit(x), x.pc \in {"top", "racing"}
  PROVE  LET y == Dispatched(x) IN
           /\ Fit(y) /\ y \in Minds /\ Knows(x, y) /\ y.pc = x.pc /\ y.failure = x.failure
           /\ y.run = x.run /\ y.recs = x.recs /\ y.fresh = x.fresh
<1> DEFINE y == Dispatched(x)
<1>1. x \in Minds /\ x.queue \in Seq(Entries) /\ x.work \in Works BY FitShaped
<1>0. PICK taken, new, starts : Dispatches(x, taken, new, starts) BY <1>1, DispatchIs
<1>2. /\ taken \in SUBSET Slots /\ new \in Works /\ starts \in Seq(Entries)
      /\ \A s \in taken : x.work[s].at = "none"
      /\ \A s \in Slots :
           IF s \in taken THEN new[s].at = "starting" /\ new[s].task \in Runnable(x)
           ELSE new[s] = x.work[s]
      /\ \A i \in DOMAIN starts : starts[i].kind = "start" /\ starts[i].slot \in taken
      /\ \A i, j \in DOMAIN starts : starts[i] = starts[j] => i = j
      /\ taken = {} => starts = <<>>
      /\ y = [x EXCEPT !.work = new, !.queue = @ \o starts]
  BY <1>0 DEF Dispatches
<1>3. new \in Works /\ x.queue \o starts \in Seq(Entries) BY <1>1, <1>2
<1>4. y = [x EXCEPT !.work = new, !.queue = x.queue \o starts] BY <1>2
<1> HIDE DEF y
<1>5. /\ y \in Minds /\ y.pc = x.pc /\ y.work = new /\ y.queue = x.queue \o starts
      /\ y.run = x.run /\ y.recs = x.recs
  BY <1>1, <1>3, <1>4 DEF Minds
<1>6. /\ y.as = x.as /\ y.new = x.new /\ y.failure = x.failure /\ y.fresh = x.fresh
      /\ y.cancelling = x.cancelling /\ y.ordered = x.ordered
  BY <1>1, <1>4 DEF Minds
<1>7. x.pc \notin Early /\ x.pc \notin Still /\ x.pc \notin Judged
  BY DEF Early, Claimed, Still, Judged
<1>8. Starts(y) /\ Quiet(y) BY <1>5, <1>7 DEF Starts, Quiet
<1>9. Heading(y) BY <1>5, <1>6 DEF Fit, Heading
<1>10. Settles(y) BY <1>5, <1>7 DEF Settles
<1>11. Pieced(y)
  <2> SUFFICES ASSUME NEW u \in Slots
               PROVE  /\ ~Over(y.work[u]) => y.work[u].task \in Tasks
                      /\ y.work[u].at = "saving" => y.work[u].end \in Kept \cup {"active"}
                      /\ y.work[u].at = "saved" => y.work[u].end \in Kept
                      /\ y.work[u].at = "finishing" => y.work[u].end \in Ends
    BY DEF Pieced
  <2>1. CASE u \in taken BY <1>2, <1>5, <2>1 DEF Runnable, Pending
  <2>2. CASE u \notin taken
    <3>1. y.work[u] = x.work[u] BY <1>2, <1>5, <2>2
    <3> QED BY <3>1 DEF Fit, Pieced
  <2> QED BY <2>1, <2>2
<1>12. Going(y)
  <2> SUFFICES ASSUME y.pc \in Driving, y.failure = "none", NEW t \in Tasks,
                      y.recs[t].status = "running"
               PROVE  \E u \in Slots : y.work[u].task = t /\ y.work[u].at \in Doing
    BY DEF Going
  <2>3. x.pc \in Driving /\ x.failure = "none" /\ x.recs[t].status = "running"
    BY <1>5, <1>6
  <2>4. Going(x) BY DEF Fit
  <2>1. PICK u \in Slots : x.work[u].task = t /\ x.work[u].at \in Doing
    BY <2>3, <2>4 DEF Going
  <2>2. u \notin taken BY <1>2, <2>1 DEF Doing
  <2> QED BY <1>2, <1>5, <2>1, <2>2
<1>13. Lined(y)
  <2>1. ASSUME NEW p \in Entries, Fitting(x, p) PROVE Fitting(y, p)
    <3>1. p.kind \in DOMAIN Ofs => p.slot \in Slots /\ p.slot \notin taken
      BY <1>2, <2>1 DEF Fitting, Entries, Ofs
    <3>2. p.kind \in DOMAIN Ofs => y.work[p.slot] = x.work[p.slot]
      BY <1>2, <1>5, <3>1
    <3> QED BY <1>5, <1>6, <2>1, <3>2 DEF Fitting
  <2>2. \A i \in DOMAIN starts : Fitting(y, starts[i]) /\ ~Fitting(x, starts[i])
    <3> SUFFICES ASSUME NEW i \in DOMAIN starts
                 PROVE  Fitting(y, starts[i]) /\ ~Fitting(x, starts[i])
      OBVIOUS
    <3>1. starts[i].kind = "start" /\ starts[i].slot \in taken BY <1>2
    <3>2. new[starts[i].slot].at = "starting" /\ x.work[starts[i].slot].at = "none"
      BY <1>2, <3>1
    <3> QED BY <1>5, <3>1, <3>2 DEF Fitting, Ofs
  <2> QED BY <1>1, <1>2, <1>5, <2>1, <2>2, JoinAll DEF Fit
<1>14. Fit(y) BY <1>5, <1>8, <1>9, <1>10, <1>11, <1>12, <1>13 DEF Fit
<1>15. Knows(x, y) BY <1>5, <1>6 DEF Knows, Reads
<1> QED BY <1>5, <1>6, <1>14, <1>15 DEF y

\* What a run with nothing left to do here is settled as, it may be.
LEMMA SettledIs ==
  ASSUME NEW x, Fit(x), x.pc \in {"top", "racing"}, x.failure = "none", Working(x) = {},
         Skips(x) = {}
  PROVE  LET as == SettledAs(x) IN
           /\ as \in Settled
           /\ as = "completed" => AllDone(x.recs)
           /\ as = "partial" =>
                ~AllDone(x.recs) /\ \A t \in Present(x.recs) : x.recs[t].status \in Terminal
           /\ as = "cancelled" =>
                x.run.cancel /\ \A t \in Present(x.recs) : x.recs[t].status # "pending"
<1> DEFINE is == {x.recs[t].status : t \in Present(x.recs)}
<1> DEFINE as == SettledAs(x)
<1>1. x.recs \in Copies BY FitShaped
<1>2. \A t \in Present(x.recs) : x.recs[t].status \in is OBVIOUS
<1>3. is \subseteq {"completed"} <=> AllDone(x.recs) BY DEF AllDone
<1>4. as = IF x.run.cancel THEN "cancelled"
           ELSE IF is \cap {"suspended", "needs_reconciliation", "pending"} # {} THEN "suspended"
           ELSE IF is \subseteq {"completed"} THEN "completed" ELSE "partial"
  BY DEF SettledAs
<1>5. \A t \in Tasks : x.recs[t].status # "running"
  <2>1. x.pc \in Driving BY DEF Driving, Active, Beating
  <2>2. \A s \in Slots : x.work[s].at \notin Doing BY DEF Working, Over, Doing
  <2> QED BY <2>1, <2>2 DEF Fit, Going
<1>6. \A t \in Present(x.recs) : x.recs[t].status \in Statuses \ {"absent", "running"}
  BY <1>1, <1>5 DEF Present, Copies, Records
<1>7. x.run.cancel => \A t \in Present(x.recs) : x.recs[t].status # "pending"
  BY DEF Skips, Pending, Present
<1> HIDE DEF is, as
<1>8. as \in Settled BY <1>4 DEF Settled
<1>9. as = "partial" => \A t \in Present(x.recs) : x.recs[t].status \in Terminal
  BY <1>2, <1>4, <1>6 DEF Statuses
<1> QED BY <1>3, <1>4, <1>7, <1>8, <1>9 DEF as

\* Where a pass of the loop may go.
Goes(x, y) ==
  /\ y \in Minds /\ y.work = x.work /\ y.recs = x.recs /\ y.run = x.run
  /\ y.failure = x.failure /\ y.fresh = x.fresh
  /\ y.cancelling = x.cancelling /\ y.ordered = x.ordered

LEMMA GoesOn ==
  ASSUME NEW x, Fit(x), x.pc \in {"top", "racing"}, x.failure = "none", NEW y, Goes(x, y),
         \/ y.queue = x.queue /\ y.pc = "racing"
         \/ /\ y.queue = Append(x.queue, Entry("skip", 0)) /\ y.pc = "skipping"
            /\ y.as \in {"cancelled", "blocked"}
         \/ /\ Working(x) = {} /\ Skips(x) = {} /\ y.as = SettledAs(x)
            /\ \/ y.queue = Append(x.queue, Entry("settle", 0)) /\ y.pc = "settling"
               \/ y.queue = x.queue /\ y.pc = "checking"
  PROVE  Fit(y) /\ Knows(x, y)
<1>1. x \in Minds /\ x.queue \in Seq(Entries) BY FitShaped
<1>2. y.pc \in {"racing", "skipping", "settling", "checking"} /\ y.pc \in Beating
      /\ x.pc \in Beating
  BY DEF Beating
<1>3. y.pc \notin Early \cup {"releasing"} BY <1>2 DEF Early, Claimed
<1>4. Starts(y) /\ Pieced(y) BY <1>3 DEF Fit, Starts, Pieced, Goes
<1>5. Quiet(y)
  <2>1. y.pc \in Still => Working(x) = {} BY DEF Still
  <2> QED BY <2>1 DEF Quiet, Working, Goes
<1>6. Heading(y)
  <2>1. y.run.status = "running" BY <1>2 DEF Fit, Heading, Goes
  <2>2. y.pc \in Judged => y.as \in Settled BY SettledIs DEF Judged
  <2> QED BY <1>2, <2>1, <2>2 DEF Heading
<1>7. Going(y)
  <2>1. x.pc \in Driving BY <1>2 DEF Driving, Active
  <2> QED BY <2>1 DEF Fit, Going, Goes
<1>8. Settles(y)
  <2>1. y.pc \in Judged => Working(x) = {} /\ Skips(x) = {} /\ y.as = SettledAs(x)
    BY DEF Judged
  <2>2. y.pc \in Judged =>
          /\ y.as = "completed" => AllDone(x.recs)
          /\ y.as = "partial" =>
               ~AllDone(x.recs) /\ \A t \in Present(x.recs) : x.recs[t].status \in Terminal
          /\ y.as = "cancelled" =>
               x.run.cancel /\ \A t \in Present(x.recs) : x.recs[t].status # "pending"
    BY <2>1, SettledIs
  <2> QED BY <2>2 DEF Settles, Goes
<1>9. \A p : Fitting(x, p) => Fitting(y, p) BY DEF Fitting, Goes
<1>10. Lined(y)
  <2>1. CASE y.queue = x.queue BY <1>9, <2>1 DEF Fit, Lined
  <2>2. ASSUME NEW q, y.queue = Append(x.queue, q), Fitting(y, q), ~Fitting(x, q)
        PROVE  Lined(y)
    BY <1>1, <1>9, <2>2, Joins DEF Fit
  <2>3. CASE y.queue = Append(x.queue, Entry("skip", 0)) /\ y.pc = "skipping"
    <3>1. Fitting(y, Entry("skip", 0)) /\ ~Fitting(x, Entry("skip", 0))
      BY <2>3 DEF Fitting, Entry, Ofs
    <3> QED BY <2>2, <2>3, <3>1
  <2>4. CASE y.queue = Append(x.queue, Entry("settle", 0)) /\ y.pc = "settling"
    <3>1. Fitting(y, Entry("settle", 0)) /\ ~Fitting(x, Entry("settle", 0))
      BY <2>4 DEF Fitting, Entry, Ofs
    <3> QED BY <2>2, <2>4, <3>1
  <2> QED BY <2>1, <2>3, <2>4
<1>11. Fit(y) BY <1>4, <1>5, <1>6, <1>7, <1>8, <1>10 DEF Fit, Goes
<1>12. Reads(x) BY <1>2 DEF Reads, Driving, Active
<1> QED BY <1>11, <1>12 DEF Knows, Goes

LEMMA LoopKeeps ==
  ASSUME SwarmAssumption, SwarmInv, NEW e \in Executors, Loop(e)
  PROVE  SwarmInv'
<1> DEFINE x == ex[e]
<1> DEFINE y == [x EXCEPT !.work = [s \in Slots |-> IF Over(@[s]) THEN NoWork ELSE @[s]]]
<1> DEFINE z == Dispatched(y)
<1> DEFINE broken == x.failure # "none" \/ \E s \in Slots : x.work[s].at = "broken"
<1>1. Fit(x) /\ x \in Minds BY Still0
<1>2. x.pc \in {"top", "racing"} /\ UNCHANGED stored BY DEF Loop, At
<1>3. Fit(y) /\ Knows(x, y) /\ y.pc = x.pc /\ y.failure = x.failure
      /\ y \in Minds /\ y.skips = x.skips
  BY <1>1, Cleared
<1>4. \/ broken /\ To(e, [x EXCEPT !.pc = "failing"])
      \/ /\ ~broken
         /\ To(e, [y EXCEPT !.pc = "skipping", !.skips = Skips(y),
                             !.as = IF y.run.cancel THEN "cancelled" ELSE "blocked",
                             !.queue = Append(@, Entry("skip", 0))])
      \/ /\ ~broken /\ Skips(y) = {}
         /\ \/ To(e, [z EXCEPT !.pc = "racing"])
            \/ /\ Working(z) = {} /\ SettledAs(z) = "cancelled"
               /\ To(e, [z EXCEPT !.pc = "settling", !.as = "cancelled",
                                  !.queue = Append(@, Entry("settle", 0))])
            \/ /\ Working(z) = {}
               /\ To(e, [z EXCEPT !.pc = "checking", !.as = SettledAs(z)])
  BY DEF Loop
<1>5. ~broken => x.failure = "none" OBVIOUS
<1> HIDE DEF y, broken
<1>6. /\ Fit(z) /\ z \in Minds /\ Knows(y, z) /\ z.pc = y.pc /\ z.failure = y.failure
      /\ z.run = y.run /\ z.recs = y.recs
  BY <1>2, <1>3, DispatchedFits
<1> HIDE DEF z
<1>7. Knows(x, z) BY <1>3, <1>6 DEF Knows
<1>8. CASE broken /\ To(e, [x EXCEPT !.pc = "failing"])
  <2> DEFINE w == [x EXCEPT !.pc = "failing"]
  <2>1. To(e, w) BY <1>8
  <2>2. w = [x EXCEPT !.pc = "failing", !.as = x.as] BY <1>1 DEF Minds
  <2>3. Moved(x, "failing", x.as, w) /\ Parts(x, "failing") BY <1>2, <2>2 DEF Moved, Parts
  <2>4. x.as \in {"none", "blocked"} \cup Settled BY <1>1 DEF Minds
  <2> HIDE DEF w, x
  <2>5. Fit(w) /\ Knows(x, w) BY <1>1, <2>3, <2>4, Decides
  <2> QED BY <1>2, <2>1, <2>5, Alone DEF x
<1>9. CASE /\ ~broken
           /\ To(e, [y EXCEPT !.pc = "skipping", !.skips = Skips(y),
                               !.as = IF y.run.cancel THEN "cancelled" ELSE "blocked",
                               !.queue = Append(@, Entry("skip", 0))])
  <2> DEFINE as == IF y.run.cancel THEN "cancelled" ELSE "blocked"
  <2> DEFINE q == Entry("skip", 0)
  <2> DEFINE w == [y EXCEPT !.pc = "skipping", !.skips = Skips(y), !.as = as,
                            !.queue = Append(@, q)]
  <2>1. To(e, w) BY <1>9
  <2>2. as \in {"cancelled", "blocked"} OBVIOUS
  <2>3. q \in Entries BY DEF Entry, Entries, Ofs
  <2>4. y.queue \in Seq(Entries) BY <1>3 DEF Minds
  <2>5. Append(y.queue, q) \in Seq(Entries) BY <2>3, <2>4
  <2>6. Skips(y) \in SUBSET Tasks BY DEF Skips, Pending
  <2>7. as \in {"none", "blocked"} \cup Settled BY <2>2 DEF Settled
  <2>13. q = Entry("skip", 0) OBVIOUS
  <2> HIDE DEF as, q
  <2>8. /\ w \in Minds /\ w.pc = "skipping" /\ w.as = as /\ w.queue = Append(y.queue, q)
        /\ w.work = y.work /\ w.recs = y.recs
    BY <1>3, <2>5, <2>6, <2>7 DEF Minds, Pcs, Active, Beating
  <2>9. /\ w.run = y.run /\ w.failure = y.failure /\ w.fresh = y.fresh
        /\ w.cancelling = y.cancelling /\ w.ordered = y.ordered
    BY <1>3 DEF Minds
  <2> HIDE DEF w
  <2>10. Goes(y, w) BY <2>8, <2>9 DEF Goes
  <2>11. Fit(w) /\ Knows(y, w)
    BY <1>2, <1>3, <1>5, <1>9, <2>2, <2>8, <2>10, <2>13, GoesOn
  <2>12. Knows(x, w) BY <1>3, <2>11 DEF Knows
  <2> QED BY <1>2, <2>1, <2>11, <2>12, Alone
<1>10. CASE ~broken /\ To(e, [z EXCEPT !.pc = "racing"])
  <2> DEFINE w == [z EXCEPT !.pc = "racing"]
  <2>1. To(e, w) BY <1>10
  <2>2. /\ w \in Minds /\ w.pc = "racing" /\ w.queue = z.queue
        /\ w.work = z.work /\ w.recs = z.recs
    BY <1>6 DEF Minds, Pcs, Active, Beating
  <2>3. /\ w.run = z.run /\ w.failure = z.failure /\ w.fresh = z.fresh
        /\ w.cancelling = z.cancelling /\ w.ordered = z.ordered
    BY <1>6 DEF Minds
  <2> HIDE DEF w
  <2>4. Goes(z, w) BY <2>2, <2>3 DEF Goes
  <2>5. Fit(w) /\ Knows(z, w) BY <1>2, <1>3, <1>5, <1>6, <1>10, <2>2, <2>4, GoesOn
  <2>6. Knows(x, w) BY <1>7, <2>5 DEF Knows
  <2> QED BY <1>2, <2>1, <2>5, <2>6, Alone
<1>11. CASE /\ ~broken /\ Skips(y) = {} /\ Working(z) = {} /\ SettledAs(z) = "cancelled"
            /\ To(e, [z EXCEPT !.pc = "settling", !.as = "cancelled",
                               !.queue = Append(@, Entry("settle", 0))])
  <2> DEFINE q == Entry("settle", 0)
  <2> DEFINE w == [z EXCEPT !.pc = "settling", !.as = "cancelled", !.queue = Append(@, q)]
  <2>1. To(e, w) BY <1>11
  <2>2. Skips(z) = {} BY <1>6, <1>11 DEF Skips, Pending, Blocked
  <2>3. q \in Entries BY DEF Entry, Entries, Ofs
  <2>4. z.queue \in Seq(Entries) BY <1>6 DEF Minds
  <2>5. Append(z.queue, q) \in Seq(Entries) BY <2>3, <2>4
  <2>6. q = Entry("settle", 0) OBVIOUS
  <2> HIDE DEF q
  <2>7. /\ w \in Minds /\ w.pc = "settling" /\ w.as = "cancelled" /\ w.queue = Append(z.queue, q)
        /\ w.work = z.work /\ w.recs = z.recs
    BY <1>6, <2>5 DEF Minds, Pcs, Active, Beating, Settled
  <2>8. /\ w.run = z.run /\ w.failure = z.failure /\ w.fresh = z.fresh
        /\ w.cancelling = z.cancelling /\ w.ordered = z.ordered
    BY <1>6 DEF Minds
  <2> HIDE DEF w
  <2>9. Goes(z, w) BY <2>7, <2>8 DEF Goes
  <2>10. Fit(w) /\ Knows(z, w)
    BY <1>2, <1>3, <1>5, <1>6, <1>11, <2>2, <2>6, <2>7, <2>9, GoesOn
  <2>11. Knows(x, w) BY <1>7, <2>10 DEF Knows
  <2> QED BY <1>2, <2>1, <2>10, <2>11, Alone
<1>12. CASE /\ ~broken /\ Skips(y) = {} /\ Working(z) = {}
            /\ To(e, [z EXCEPT !.pc = "checking", !.as = SettledAs(z)])
  <2> DEFINE as == SettledAs(z)
  <2> DEFINE w == [z EXCEPT !.pc = "checking", !.as = as]
  <2>1. To(e, w) BY <1>12
  <2>2. Skips(z) = {} BY <1>6, <1>12 DEF Skips, Pending, Blocked
  <2>3. as \in Settled BY <1>2, <1>3, <1>5, <1>6, <1>12, <2>2, SettledIs
  <2>4. as = SettledAs(z) OBVIOUS
  <2> HIDE DEF as
  <2>7. /\ w \in Minds /\ w.pc = "checking" /\ w.as = as /\ w.queue = z.queue
        /\ w.work = z.work /\ w.recs = z.recs
    BY <1>6, <2>3 DEF Minds, Pcs, Active, Beating
  <2>8. /\ w.run = z.run /\ w.failure = z.failure /\ w.fresh = z.fresh
        /\ w.cancelling = z.cancelling /\ w.ordered = z.ordered
    BY <1>6, <2>3 DEF Minds
  <2> HIDE DEF w
  <2>9. Goes(z, w) BY <2>7, <2>8 DEF Goes
  <2>10. Fit(w) /\ Knows(z, w)
    BY <1>2, <1>3, <1>5, <1>6, <1>12, <2>2, <2>4, <2>7, <2>9, GoesOn
  <2>11. Knows(x, w) BY <1>7, <2>10 DEF Knows
  <2> QED BY <1>2, <2>1, <2>10, <2>11, Alone
<1> QED BY <1>4, <1>8, <1>9, <1>10, <1>11, <1>12
-----------------------------------------------------------------------------
LEMMA SwarmStarts ==
  SwarmInit => SwarmInv
<1> SUFFICES ASSUME SwarmInit PROVE SwarmInv OBVIOUS
<1>1. run \in Heads /\ run.status = "none" /\ task = [t \in Tasks |-> Absent] /\ task \in Copies
  BY DEF SwarmInit, Heads, Copies, Absent, Records, Statuses
<1>2. StoredOK BY <1>1 DEF StoredOK, SettledFits
<1>3. Fit(Idle) /\ ~Reads(Idle) /\ Idle \in Minds BY IdleIs, Blank
<1>4. ex = [e \in Executors |-> Idle] BY DEF SwarmInit
<1> QED BY <1>2, <1>3, <1>4 DEF SwarmInv, Agrees

LEMMA SwarmSteps ==
  SwarmInv /\ [SwarmNext]_swarmVars => SwarmInv'
<1> SUFFICES ASSUME SwarmInv, [SwarmNext]_swarmVars PROVE SwarmInv' OBVIOUS
<1> USE SwarmAssumption
<1>1. CASE UNCHANGED swarmVars BY <1>1, Outer DEF swarmVars
<1>2. CASE World BY <1>2, WorldKeeps
<1>3. ASSUME NEW e \in Executors, Claims(e) PROVE SwarmInv'
  BY <1>3, BeginKeeps, LoadKeeps, CollectKeeps, AckMootKeeps, CreateKeeps, ClaimKeeps,
     TurnsKeep, OpenKeeps
  DEF Claims
<1>4. ASSUME NEW e \in Executors, Drives(e) PROVE SwarmInv'
  <2>1. CASE \E s \in Slots : Work(e, s) \/ Finish(e, s) BY <2>1, WorkKeeps
  <2>2. CASE Hear(e) \/ RecordCancel(e) \/ Loop(e) \/ Skip(e) \/ LastBeat(e) \/ Checked(e)
             \/ Settle(e) \/ Fail(e)
    BY <2>2, HearKeeps, RecordCancelKeeps, LoopKeeps, SkipKeeps, LastBeatKeeps, CheckedKeeps,
       SettleKeeps, FailKeeps
  <2>3. CASE Start(e) \/ Save(e) \/ CommitFinish(e) \/ End(e) \/ Unclaim(e)
    BY <2>3, StartKeeps, SaveKeeps, CommitFinishKeeps, TurnsKeep, LeavesKeep
  <2> QED BY <1>4, <2>1, <2>2, <2>3 DEF Drives
<1>5. ASSUME NEW e \in Executors, Beat(e) \/ Order(e) \/ DrainHere(e) \/ Crash(e)
      PROVE  SwarmInv'
  BY <1>5, BeatKeeps, OrderKeeps, DrainHereKeeps, LeavesKeep
<1> QED BY <1>1, <1>2, <1>3, <1>4, <1>5 DEF SwarmNext

\* What executors hold and what waits in their queues fit each other, and one
\* whose commits would be taken has the stored run, whatever fails
\* (scheduler.ts: commit, driveLoop, executeTask).
THEOREM CopiesAreTrue == SwarmSpec => []SwarmInv
<1> QED BY SwarmStarts, SwarmSteps, PTL DEF SwarmSpec

\* An executor that stopped, and may let the lease go, runs nothing any more
\* (the end of driveLoop, teardown).
THEOREM StopsQuiet == SwarmSpec => []StoppedIsQuiet
<1>1. SwarmInv => StoppedIsQuiet
  BY DEF SwarmInv, Fit, Quiet, StoppedIsQuiet, At, Still, Working
<1> QED BY <1>1, CopiesAreTrue, PTL

\* A run is settled as its tasks came out (settleRun).
THEOREM SettlesTruly == SwarmSpec => []SettledAgrees
<1>1. SwarmInv => SettledAgrees
  <2> SUFFICES ASSUME SwarmInv PROVE SettledAgrees OBVIOUS
  <2> DEFINE is == {task[t].status : t \in Present(task)}
  <2>1. SettledFits(run, task) BY DEF SwarmInv, StoredOK
  <2>2. is \subseteq {"completed"} <=> AllDone(task) BY DEF AllDone
  <2>3. run.status = "partial" => is \subseteq Terminal BY <2>1 DEF SettledFits
  <2>4. run.status = "cancelled" => run.cancel /\ is \cap {"pending", "running"} = {}
    BY <2>1 DEF SettledFits
  <2>5. run.status = "suspended" => "running" \notin is BY <2>1 DEF SettledFits
  <2>6. /\ run.status = "completed" => is \subseteq {"completed"}
        /\ run.status = "partial" => ~(is \subseteq {"completed"})
    BY <2>1, <2>2 DEF SettledFits
  <2> QED BY <2>3, <2>4, <2>5, <2>6 DEF SettledAgrees
<1> QED BY <1>1, CopiesAreTrue, PTL
=============================================================================
