--------------------------- MODULE GoalScheduler ---------------------------
(***************************************************************************)
(* The durable scheduler of goals                                          *)
(* (packages/core/src/goal/runtime/scheduler.ts) over the schedules of a   *)
(* goal runtime store (store-shared.ts): schedulers tick, each step of a   *)
(* schedule moves its cursor and commits its occurrences into the inbox in *)
(* one transaction; a host puts, pauses, resumes and cancels schedules;    *)
(* goals apply what is in their inbox.                                     *)
(*                                                                         *)
(* Several schedulers may tick at once, a step may fail with or without    *)
(* having taken effect, a scheduler may die, a change may land late.       *)
(*                                                                         *)
(* Abstractions: the unit of time is the minute, a schedule recurs every   *)
(* so many of them (cron, time zones and DST are pure functions of it);    *)
(* one scope, one goal; a change's `expectedRevision` is the stored one;   *)
(* a listing is one page; occurrence records are not pruned.               *)
(***************************************************************************)
EXTENDS Integers, Sequences, FiniteSetsExt

CONSTANTS
  Schedulers,     \* processes that tick
  NumSchedules,   \* how many schedules there are, by id
  MaxParties,     \* how many processes and schedules take part together
  Specs,          \* id -> what its schedule may be: how often, which catch-up
  Grace,          \* how late an occurrence still counts as on time
  MaxDeliveries,  \* deliveries per tick, and records per step
  MaxScan,        \* time scanned per schedule and tick
  MaxConflicts,   \* conflicts tolerated per schedule and tick
  MaxClock,       \* bound on the clock
  MaxChanges,     \* bound on the changes of schedules
  MaxFaults,      \* bound on steps that fail
  MaxCrashes,     \* bound on schedulers that die
  MaxApplies,     \* bound on inbox entries goals apply
  MaxPrunes,      \* bound on pruned inbox entries
  MaxEvents       \* bound on all of these together

ASSUME SchedulerAssumption ==
  /\ DOMAIN Specs = 1..NumSchedules
  /\ \A id \in 1..NumSchedules :
       /\ Specs[id] # {}
       /\ Specs[id] \subseteq [every : Nat \ {0}, catchUp : {"latest", "all", "none"}]
  /\ {MaxDeliveries, MaxScan, MaxConflicts} \subseteq Nat \ {0}
  /\ {Grace, NumSchedules, MaxClock} \subseteq Nat

VARIABLES
  clock,     \* every process's clock
  sched,     \* id -> the stored schedule
  inbox,     \* occurrence -> where its inbox entry stands
  recorded,  \* occurrence -> its record
  tick,      \* scheduler -> its tick
  host,      \* the change a host is about to commit
  counts,    \* changes, faults, crashes and prunes so far
  sent,      \* ghost: occurrence -> how often it was put into the inbox
  caught,    \* ghost: the catch-up windows scanned to their end
  hungry     \* ghost: scheduler -> id -> its ticks in a row that left it due, without a turn,
             \* while no schedule stopped being active

vars == <<clock, sched, inbox, recorded, tick, host, counts, sent, caught, hungry>>

Schedules == 1..NumSchedules
Occurrences == Schedules \X (1..MaxClock)
NoTime == 0

NoSchedule == [status |-> "none"]
NoChange == [kind |-> "none"]
Idle(last) == [pc |-> "idle", now |-> 0, queue |-> <<>>, again |-> <<>>, budget |-> 0,
               share |-> 0, left |-> [s \in Schedules |-> 0],
               conflicts |-> [s \in Schedules |-> 0], last |-> last, waiting |-> {}]
NotRunning == [Idle(0) EXCEPT !.pc = "off"]

Within(counter, max) ==
  /\ counts[counter] < max /\ counts.events < MaxEvents
  /\ counts' = [counts EXCEPT ![counter] = @ + 1, !.events = @ + 1]

Larger(a, b) == IF a > b THEN a ELSE b
Smaller(a, b) == IF a < b THEN a ELSE b
Earliest(times, n) == {t \in times : Cardinality({u \in times : u < t}) < n}

-----------------------------------------------------------------------------
(* Planning: what one step of a schedule does. *)

\* The first instant not yet scanned.
Start(s) == Larger(s.cursor, s.from)

Between(spec, from, to) == {t \in (from + 1)..to : t % spec.every = 0}
NextAfter(spec, after) == (after \div spec.every + 1) * spec.every

IdleAdvance == Larger(1, MaxScan \div 2)
RecordCap == MaxDeliveries

Due(s, now) == s.scanTo # NoTime \/ NextAfter(s.spec, Start(s)) <= now
HasWork(s, now) == Due(s, now) \/ now - Start(s) >= IdleAdvance

NoStep == [kind |-> "none"]
Step(toCursor, scanTo, delivered, skipped, scanned) ==
  [kind |-> "step", toCursor |-> toCursor, scanTo |-> scanTo,
   delivered |-> delivered, skipped |-> skipped, scanned |-> scanned]

\* An occurrence older than the grace was missed: a window, fixed now, is
\* caught up with. What is on time needs none.
Window(s, now) ==
  IF s.scanTo # NoTime THEN s.scanTo
  ELSE IF s.spec.catchUp # "all" /\ NextAfter(s.spec, Start(s)) < now - Grace THEN now
  ELSE NoTime

\* Only the newest occurrence of the window, once it is scanned to its end.
ScannedHasty(s, window, end) == TRUE
Scanned(s, window, end) == end >= window \/ NextAfter(s.spec, end) > window

CatchUpEach(s, window, found, end) ==
  LET newest == IF found # {} THEN {Max(found)} ELSE {}
      final == Scanned(s, window, end)
  IN Step(IF final THEN window ELSE end, IF final THEN NoTime ELSE window,
          newest, found \ newest, end - Start(s))

CatchUpLatest(s, window, found, end) ==
  LET final == Scanned(s, window, end)
      newest == IF final /\ found # {} THEN {Max(found)} ELSE {}
  IN Step(IF final THEN window ELSE end, IF final THEN NoTime ELSE window,
          newest, found \ newest, end - Start(s))

Deliver(s, now, window, found, end, cap) ==
  LET reference == IF window # NoTime THEN window ELSE now
      missed == IF s.spec.catchUp = "none" THEN {t \in found : t < reference - Grace} ELSE {}
      delivered == Earliest(found \ missed, cap)
      to == IF missed \cup delivered = found THEN end ELSE Max(delivered)
  IN Step(to, IF window # NoTime /\ to < window THEN window ELSE NoTime,
          delivered, missed, to - Start(s))

Plan(s, now, cap, left) ==
  IF s.scanTo # NoTime /\ s.scanTo <= Start(s) THEN Step(Start(s), NoTime, {}, {}, 0)
  ELSE IF ~Due(s, now)
  THEN IF HasWork(s, now) THEN Step(now, NoTime, {}, {}, 0) ELSE NoStep
  ELSE LET window == Window(s, now)
           reach == Smaller(Start(s) + left, IF window # NoTime THEN window ELSE now)
           all == Between(s.spec, Start(s), reach)
           found == Earliest(all, RecordCap)
           end == IF found # all THEN Max(found) ELSE reach
       IN IF reach <= Start(s) THEN NoStep
          ELSE IF s.spec.catchUp = "latest" /\ window # NoTime
          THEN CatchUpLatest(s, window, found, end)
          ELSE Deliver(s, now, window, found, end, cap)

-----------------------------------------------------------------------------
(* The store. *)

\* A step lands on the schedule it was planned for, at its cursor.
AdvancesAnyCursor(id, seen) ==
  sched[id].status = "active" /\ sched[id].revision = seen.revision
AdvancesCancelled(id, seen) == sched[id].cursor = seen.cursor
Advances(id, seen) ==
  /\ sched[id].status = "active"
  /\ sched[id].revision = seen.revision
  /\ sched[id].cursor = seen.cursor

\* The schedule s after a step planned for the one seen.
Moved(s, seen, plan) ==
  [s EXCEPT !.cursor = plan.toCursor, !.scanTo = plan.scanTo,
            !.opened = IF seen.scanTo # NoTime THEN s.opened ELSE Start(seen)]

\* What is recorded, or queued already, stands.
Advanced(id, seen, now, plan) ==
  LET window == Window(seen, now)
      delivers(o) == o[1] = id /\ o[2] \in plan.delivered
      handles(o) == o[1] = id /\ o[2] \in plan.delivered \cup plan.skipped
  IN /\ sched' = [sched EXCEPT ![id] = Moved(@, seen, plan)]
     /\ inbox' = [o \in Occurrences |-> IF delivers(o) /\ inbox[o] = "none" THEN "pending" ELSE inbox[o]]
     /\ sent' = [o \in Occurrences |-> IF delivers(o) /\ inbox[o] = "none" THEN sent[o] + 1 ELSE sent[o]]
     /\ recorded' = [o \in Occurrences |->
                       IF ~handles(o) \/ recorded[o] # "none" THEN recorded[o]
                       ELSE IF delivers(o) THEN "delivered" ELSE "skipped"]
     /\ caught' = IF window # NoTime /\ plan.scanTo = NoTime /\ plan.toCursor = window
                  THEN caught \cup {[id |-> id, spec |-> seen.spec, to |-> window,
                                     from |-> sched'[id].opened]}
                  ELSE caught

-----------------------------------------------------------------------------
(* A tick: every active schedule, in turn. *)

\* The active schedules after a up to b, by id.
ActiveIn(a, b) ==
  LET upTo[n \in a..b] ==
        IF n = a THEN <<>>
        ELSE IF sched[n].status = "active" THEN Append(upTo[n - 1], n) ELSE upTo[n - 1]
  IN upTo[b]

\* The turn goes on after the schedule served last, while that one is active.
RotatedNot(last) == ActiveIn(0, NumSchedules)
Rotated(last) ==
  IF last # 0 /\ sched[last].status = "active"
  THEN ActiveIn(last, NumSchedules) \o ActiveIn(0, last) ELSE ActiveIn(0, NumSchedules)

Share(budget, queue) == Larger(1, budget \div Len(queue))

\* The tick ends; who was due, and had no step, waits for another one.
Ended(x) ==
  /\ tick' = [tick EXCEPT ![x] = Idle(@.last)]
  /\ hungry' = [hungry EXCEPT ![x] = [s \in Schedules |->
                  IF s \in tick[x].waiting /\ sched[s].status = "active"
                  THEN @[s] + 1 ELSE 0]]

\* Once the queue is through, those with more to do form the next round.
Goes(x, t) ==
  /\ tick' = [tick EXCEPT ![x] =
                IF t.queue # <<>> THEN t
                ELSE [t EXCEPT !.queue = t.again, !.again = <<>>,
                               !.share = IF t.again = <<>> THEN 0 ELSE Share(t.budget, t.again)]]
  /\ UNCHANGED hungry

Begin(x) ==
  /\ tick[x].pc = "idle"
  /\ tick' = [tick EXCEPT ![x].pc = "listing", ![x].now = clock]
  /\ UNCHANGED <<clock, sched, inbox, recorded, host, counts, sent, caught, hungry>>

List(x) ==
  LET ids == Rotated(tick[x].last)
      queue == [i \in DOMAIN ids |-> [id |-> ids[i], seen |-> sched[ids[i]]]]
  IN /\ tick[x].pc = "listing"
     /\ Goes(x, [tick[x] EXCEPT !.pc = "round", !.budget = MaxDeliveries, !.queue = queue,
                                !.share = IF queue = <<>> THEN 0 ELSE Share(MaxDeliveries, queue),
                                !.left = [s \in Schedules |-> MaxScan],
                                !.waiting = {id \in Range(ids) : Due(sched[id], tick[x].now)}])
     /\ UNCHANGED <<clock, sched, inbox, recorded, host, counts, sent, caught>>

\* Done for this tick: nothing to do, or no scan left.
Passes(x) ==
  LET t == tick[x]
      head == t.queue[1]
  IN /\ t.pc = "round" /\ t.queue # <<>> /\ t.budget > 0
     /\ \/ ~HasWork(head.seen, t.now)
        \/ Plan(head.seen, t.now, Smaller(t.share, t.budget), t.left[head.id]) = NoStep
     /\ Goes(x, [t EXCEPT !.queue = Tail(@)])
     /\ UNCHANGED <<clock, sched, inbox, recorded, host, counts, sent, caught>>

Conflicted(t, head) ==
  LET fresh == sched[head.id]
      n == t.conflicts[head.id] + 1
  IN [t EXCEPT !.queue = Tail(@), !.last = head.id, !.conflicts[head.id] = n,
               !.waiting = @ \ {head.id},
               !.again = IF fresh.status = "active" /\ n < MaxConflicts
                         THEN Append(@, [id |-> head.id, seen |-> fresh]) ELSE @]

Stepped(t, head, plan) ==
  LET now == Moved(head.seen, head.seen, plan)
      left == t.left[head.id] - plan.scanned
  IN [t EXCEPT !.queue = Tail(@), !.last = head.id, !.left[head.id] = left,
               !.waiting = @ \ {head.id},
               !.budget = @ - Cardinality(plan.delivered),
               !.again = IF Due(now, t.now) /\ left > 0
                         THEN Append(@, [id |-> head.id, seen |-> now]) ELSE @]

Steps(x) ==
  LET t == tick[x]
      head == t.queue[1]
      plan == Plan(head.seen, t.now, Smaller(t.share, t.budget), t.left[head.id])
  IN /\ t.pc = "round" /\ t.queue # <<>> /\ t.budget > 0
     /\ HasWork(head.seen, t.now) /\ plan # NoStep
     /\ \/ /\ Advances(head.id, head.seen)
           /\ Advanced(head.id, head.seen, t.now, plan)
           /\ Goes(x, Stepped(t, head, plan)) /\ UNCHANGED counts
        \/ /\ ~Advances(head.id, head.seen)
           /\ Goes(x, Conflicted(t, head))
           /\ UNCHANGED <<sched, inbox, recorded, sent, caught, counts>>
        \/ /\ Within("faults", MaxFaults)
           /\ \/ Advances(head.id, head.seen) /\ Advanced(head.id, head.seen, t.now, plan)
              \/ UNCHANGED <<sched, inbox, recorded, sent, caught>>
           /\ Goes(x, [t EXCEPT !.queue = Tail(@), !.waiting = @ \ {head.id}])
     /\ UNCHANGED <<clock, host>>

Finish(x) ==
  /\ tick[x].pc = "round" /\ (tick[x].queue = <<>> \/ tick[x].budget = 0)
  /\ Ended(x)
  /\ UNCHANGED <<clock, sched, inbox, recorded, host, counts, sent, caught>>

\* The turn lives in the process: the next one counts anew.
Crash(x) ==
  /\ tick[x].pc \in {"listing", "round"} /\ Within("crashes", MaxCrashes)
  /\ tick' = [tick EXCEPT ![x] = Idle(0)]
  /\ hungry' = [hungry EXCEPT ![x] = [id \in Schedules |-> 0]]
  /\ UNCHANGED <<clock, sched, inbox, recorded, host, sent, caught>>

-----------------------------------------------------------------------------
(* A host changes schedules: it reads one, and its change lands later. *)

\* base, opened: ghosts; where the schedule, and its window, begin to count.
Created(spec, from) ==
  [status |-> "active", revision |-> 1, spec |-> spec, from |-> from, cursor |-> from,
   scanTo |-> NoTime, base |-> from, opened |-> from]

CancelledBefore(id) ==
  [Created(CHOOSE spec \in Specs[id] : TRUE, 0) EXCEPT !.status = "cancelled"]

Revised(s, status) == [s EXCEPT !.status = status, !.revision = @ + 1]
Rebased(s, status, spec, from) ==
  [Revised(s, status) EXCEPT !.spec = spec, !.from = from,
     !.base = Larger(from, s.cursor), !.opened = Larger(from, s.cursor)]

RevisionOf(id) == IF sched[id] = NoSchedule THEN 0 ELSE sched[id].revision

Intends(kind, id, spec) ==
  /\ host = NoChange /\ Within("changes", MaxChanges)
  /\ host' = [kind |-> kind, id |-> id, spec |-> spec, from |-> clock, expected |-> RevisionOf(id)]
  /\ UNCHANGED <<clock, sched, inbox, recorded, tick, sent, caught, hungry>>

\* The same schedule again is no change.
Put(id, spec) ==
  /\ sched[id].status # "cancelled"
  /\ sched[id] # NoSchedule => sched[id].spec # spec
  /\ Intends("put", id, spec)
Pause(id) == sched[id].status = "active" /\ Intends("pause", id, sched[id].spec)
Resume(id) == sched[id].status = "paused" /\ Intends("resume", id, sched[id].spec)
Cancel(id) == sched[id].status \in {"active", "paused"} /\ Intends("cancel", id, sched[id].spec)

Changeable(id, expected) ==
  /\ sched[id] # NoSchedule /\ sched[id].status # "cancelled"
  /\ sched[id].revision = expected

Becomes(s) == sched' = [sched EXCEPT ![host.id] = s]

\* For the ghosts: turns begin anew when the schedule served last is no longer
\* active, so the waits so far do not count.
Reordered ==
  /\ tick' = [x \in Schedulers |-> [tick[x] EXCEPT !.waiting = {}]]
  /\ hungry' = [x \in Schedulers |-> [id \in Schedules |-> 0]]

\* Its deliveries that no goal has applied end with it.
Disposed(id) ==
  [o \in Occurrences |-> IF o[1] = id /\ inbox[o] = "pending" THEN "cancelled" ELSE inbox[o]]

Lands ==
  LET id == host.id
      s == sched[id]
  IN /\ host # NoChange
     /\ \/ host.kind = "put" /\ s = NoSchedule /\ host.expected = 0
           /\ Becomes(Created(host.spec, host.from)) /\ UNCHANGED inbox
        \/ host.kind = "put" /\ Changeable(id, host.expected)
           /\ Becomes(Rebased(s, s.status, host.spec, host.from)) /\ UNCHANGED inbox
        \/ host.kind = "pause" /\ Changeable(id, host.expected) /\ s.status = "active"
           /\ Becomes(Revised(s, "paused")) /\ UNCHANGED inbox
        \/ host.kind = "resume" /\ Changeable(id, host.expected) /\ s.status = "paused"
           /\ Becomes(Rebased(s, "active", s.spec, host.from)) /\ UNCHANGED inbox
        \/ host.kind = "cancel" /\ Changeable(id, host.expected)
           /\ Becomes(Revised(s, "cancelled")) /\ inbox' = Disposed(id)
     /\ IF s.status = "active" /\ sched'[id].status # "active" THEN Reordered
        ELSE UNCHANGED <<tick, hungry>>
     /\ host' = NoChange
     /\ UNCHANGED <<clock, recorded, counts, sent, caught>>

-----------------------------------------------------------------------------
(* The goal, retention, time. *)

Apply(o) ==
  /\ inbox[o] = "pending" /\ inbox' = [inbox EXCEPT ![o] = "applied"]
  /\ Within("applies", MaxApplies)
  /\ UNCHANGED <<clock, sched, recorded, tick, host, sent, caught, hungry>>

PruneInbox(o) ==
  /\ inbox[o] \in {"applied", "cancelled"} /\ Within("prunes", MaxPrunes)
  /\ inbox' = [inbox EXCEPT ![o] = "none"]
  /\ UNCHANGED <<clock, sched, recorded, tick, host, sent, caught, hungry>>

Tick ==
  /\ clock < MaxClock /\ clock' = clock + 1
  /\ UNCHANGED <<sched, inbox, recorded, tick, host, counts, sent, caught, hungry>>

-----------------------------------------------------------------------------
\* Which processes run, and which schedules were cancelled long ago.
Init ==
  /\ clock = 0
  /\ \E S \in SUBSET Schedulers, I \in SUBSET Schedules :
       /\ Cardinality(S) + Cardinality(I) = MaxParties
       /\ sched = [id \in Schedules |-> IF id \in I THEN NoSchedule ELSE CancelledBefore(id)]
       /\ tick = [x \in Schedulers |-> IF x \in S THEN Idle(0) ELSE NotRunning]
  /\ inbox = [o \in Occurrences |-> "none"] /\ recorded = [o \in Occurrences |-> "none"]
  /\ sent = [o \in Occurrences |-> 0]
  /\ host = NoChange
  /\ counts = [changes |-> 0, faults |-> 0, crashes |-> 0, applies |-> 0, prunes |-> 0,
               events |-> 0]
  /\ caught = {} /\ hungry = [x \in Schedulers |-> [id \in Schedules |-> 0]]

Ticks(x) == Begin(x) \/ List(x) \/ Passes(x) \/ Steps(x) \/ Finish(x)

Next ==
  \/ \E x \in Schedulers : Ticks(x) \/ Crash(x)
  \/ \E id \in Schedules :
       \/ \E spec \in Specs[id] : Put(id, spec)
       \/ Pause(id) \/ Resume(id) \/ Cancel(id)
  \/ Lands
  \/ \E o \in Occurrences : Apply(o) \/ PruneInbox(o)
  \/ Tick

Spec == Init /\ [][Next]_vars

-----------------------------------------------------------------------------
\* An occurrence reaches the inbox at most once, however many schedulers tick,
\* whichever step is retried and whatever was pruned meanwhile; once when it
\* is recorded as delivered.
DeliveredOnce ==
  \A o \in Occurrences : sent[o] <= 1 /\ (recorded[o] = "delivered" => sent[o] = 1)

\* What a cursor has passed was scanned: each occurrence since the last change
\* took effect is recorded (store-types.ts:284-287).
NothingForgotten ==
  \A id \in Schedules : sched[id] # NoSchedule =>
    \A t \in Between(sched[id].spec, sched[id].base, sched[id].cursor) : recorded[<<id, t>>] # "none"

\* Of a window caught up with under "latest" the newest occurrence was
\* delivered and no other, however many steps and ticks the scan took.
LatestDeliversTheNewest ==
  \A w \in caught : w.spec.catchUp = "latest" =>
    LET due == Between(w.spec, w.from, w.to)
    IN due # {} => {t \in due : recorded[<<w.id, t>>] = "delivered"} = {Max(due)}

\* Nothing of a cancelled schedule waits in the inbox, nor ever will: a step
\* planned before the cancel puts nothing there after it.
CancelledIsQuiet ==
  \A o \in Occurrences : sched[o[1]].status = "cancelled" => inbox[o] # "pending"

\* A schedule that is due waits one tick for each of the others at most, since
\* its scheduler started and a schedule last stopped being active: no backlog
\* starves it (scheduler.ts:256).
TurnsAreFair == \A x \in Schedulers, id \in Schedules : hungry[x][id] < NumSchedules

=============================================================================
