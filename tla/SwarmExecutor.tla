---------------------------- MODULE SwarmExecutor ----------------------------
(***************************************************************************)
(* How executors drive one durable swarm run                               *)
(* (packages/core/src/swarm/scheduler.ts, spawn.ts, store.ts): an executor *)
(* claims the run's lease, takes the signals queued for it, commits its    *)
(* claim, dispatches the tasks whose dependencies allow it, commits each   *)
(* task before and after its effect, settles the run and gives the lease   *)
(* back, while any process may ask for a cancel.                           *)
(*                                                                         *)
(* The store compares revisions.  An executor's revision is kept as what   *)
(* it is for: whether anyone else committed since it read the run.  The    *)
(* lease row is the one of LeaseProvider with its clock abstracted: a      *)
(* lease is live until it lapses, and a holder may renew a lapsed lease    *)
(* nobody else took.                                                       *)
(*                                                                         *)
(* Tasks are numbered in the order the loop visits them.  Left out:        *)
(* definition and binding versions, policy, budget and accounting commits, *)
(* the depth and per-parent limits of spawning, the blackboard, runs       *)
(* without a lease, pruning, and a cancel asked for in the process whose   *)
(* commit is still waiting when the lease is given back.                   *)
(***************************************************************************)
EXTENDS Integers, Sequences, FiniteSets, SequencesExt

CONSTANTS
  Executors,    \* the processes that may drive the run
  Nobody,       \* the holder of a key nobody holds
  Tasks,        \* the tasks the run may come to have
  Roots,        \* those it is created with
  Agents,       \* those run by an agent, whose run saves an envelope
  Manual,       \* those not declared replay-safe
  DependsOn,    \* task -> the tasks that must complete first
  After,        \* task -> the tasks that must settle first
  Kids,         \* task -> how it ended -> the tasks it then spawns
  MaxTasks,     \* limits.maxTasks
  Concurrency,  \* options.concurrency
  Outcomes,     \* how a task's work may come out
  Providers,    \* the providers a run may meet: do they acknowledge cancels?
  MaxBegins,    \* bound on calls of run() for a key that has a run
  MaxResumes,   \* bound on resumes by hosts
  MaxCancels,   \* bound on requested cancels
  MaxDrains,    \* bound on drains
  MaxFaults,    \* bound on failed calls
  MaxCrashes,   \* bound on processes that die
  MaxLapses,    \* bound on leases that lapse under a live holder
  MaxTroubles   \* bound on all of these together

ASSUME SwarmAssumption ==
  /\ Nobody \notin Executors /\ Tasks \subseteq Nat
  /\ Roots \subseteq Tasks /\ Agents \subseteq Tasks /\ Manual \subseteq Tasks
  /\ Cardinality(Roots) <= MaxTasks
  /\ DependsOn \in [Tasks -> SUBSET Tasks] /\ After \in [Tasks -> SUBSET Tasks]
  /\ \A t \in Tasks : \A end \in DOMAIN Kids[t] : Kids[t][end] \subseteq Tasks
  /\ Concurrency \in Nat \ {0}
  /\ Outcomes \subseteq {"completed", "failed", "timeout", "suspended", "needs_reconciliation"}

VARIABLES
  run,       \* the stored run: its status, and is a cancel recorded?
  task,      \* the stored tasks
  row,       \* the lease row of the run's key
  ex,        \* executor -> what it holds in memory
  host,      \* a process that is requesting a cancel
  hasAck,    \* does this provider acknowledge cancels?
  used,      \* how often each bounded event happened
  asked,     \* ghost: a signalled cancel the run still owes
  leave,     \* ghost: manual tasks whose effect may begin (again)
  redone     \* ghost: manual tasks whose effect began again without leave

stored == <<run, task>>
ghosts == <<asked, leave, redone>>
swarmVars == <<stored, row, ex, host, hasAck, used, ghosts>>

Bounded(event, max) ==
  /\ used[event] < max /\ used.troubles < MaxTroubles
  /\ used' = [used EXCEPT ![event] = @ + 1, !.troubles = @ + 1]
Fault == Bounded("fault", MaxFaults)
Fine == UNCHANGED used

Past == {"completed", "partial"}
Final == Past \cup {"cancelled"}
Terminal == {"completed", "failed", "blocked", "cancelled"}
Absent == [status |-> "absent", saved |-> "none"]
Fresh == [status |-> "pending", saved |-> "none"]
Present(recs) == {t \in Tasks : recs[t].status # "absent"}

-----------------------------------------------------------------------------
(* What an executor holds. *)

Slots == 1..Concurrency
NoWork == [task |-> 0, at |-> "none", end |-> "none", kids |-> {}]
NoAnswer == [kind |-> "none"]
Idle ==
  [pc |-> "idle", new |-> FALSE, recovers |-> FALSE, given |-> {}, fresh |-> TRUE,
   run |-> [status |-> "none", cancel |-> FALSE], recs |-> [t \in Tasks |-> Absent],
   work |-> [s \in Slots |-> NoWork], queue |-> <<>>, failure |-> "none",
   skips |-> {}, as |-> "none",
   found |-> "no", kept |-> FALSE, consumed |-> FALSE, draining |-> FALSE,
   cancelling |-> "no", ordered |-> FALSE, flight |-> NoAnswer]

Beating ==
  {"top", "skipping", "racing", "checking", "asking", "checked", "settling", "failing", "failed"}
Active == Beating \cup {"ending", "releasing"}
At(e, pcs) == ex[e].pc \in pcs
To(e, x) == ex' = [ex EXCEPT ![e] = x]

\* The run's abort signal: a failed write, or a cancel this executor recorded.
Aborted(x) == x.failure # "none" \/ x.run.cancel

Over(w) == w.at \in {"none", "ended", "broken"}
Working(x) == {s \in Slots : ~Over(x.work[s])}
Entry(kind, s) == [kind |-> kind, slot |-> s]
Queued(x, kind) == x.queue # <<>> /\ Head(x.queue).kind = kind
Dequeued(x) == [x EXCEPT !.queue = Tail(@)]

-----------------------------------------------------------------------------
(* Commits. *)

\* What was read before a commit of another is stale after it.
Overtaken(y) ==
  IF y.pc = "idle" \/ (y.pc = "claimed" /\ ~y.recovers) THEN y ELSE [y EXCEPT !.fresh = FALSE]

\* The store takes the change.
Stored(r, recs) ==
  /\ run' = r /\ task' = recs
  /\ host' = [host EXCEPT !.fresh = host.pc = "none"]
  /\ asked' = (asked /\ ~r.cancel /\ r.status \notin Past)

UnfencedTakes(x) == TRUE
Takes(x) == x.fresh

\* The store's check of the tasks a commit spawns.
Accepts(recs, kids) ==
  /\ kids \cap Present(recs) = {}
  /\ kids # {} => Cardinality(Present(recs)) + Cardinality(kids) <= MaxTasks

\* A write of an executor: `done` is what it is after it, `failed` what it is
\* when the write fails, with or without having taken effect.
Write(e, r, recs, kids, done, failed) ==
  LET x == ex[e]
      all == [t \in Tasks |-> IF t \in kids THEN Fresh ELSE recs[t]]
      tell(y) == [d \in Executors |-> IF d = e THEN y ELSE Overtaken(ex[d])]
      fails(why) == [failed EXCEPT !.failure = IF x.failure = "none" THEN why ELSE @]
      ok == x.failure = "none" /\ Takes(x) /\ Accepts(task, kids)
  IN \/ /\ ok /\ Stored(r, all) /\ Fine
        /\ ex' = tell([done EXCEPT !.run = r, !.recs = all])
     \/ /\ ok /\ Fault
        /\ \/ Stored(r, all) /\ ex' = tell(fails("store"))
           \/ UNCHANGED <<stored, host, asked>> /\ To(e, fails("store"))
     \/ /\ ~ok /\ UNCHANGED <<stored, host, asked>> /\ Fine
        /\ To(e, fails(IF Takes(x) THEN "refused" ELSE "conflict"))

-----------------------------------------------------------------------------
(* The lease. *)

Holds(e) == row.holder = e
Renewed(e, acknowledge) ==
  row' = IF Holds(e)
         THEN [row EXCEPT !.live = TRUE, !.drain = FALSE, !.cancel = @ /\ acknowledge]
         ELSE row
Answer(e) ==
  [kind |-> IF Holds(e) THEN "held" ELSE "lost", cancel |-> Holds(e) /\ row.cancel,
   drain |-> Holds(e) /\ row.drain]

\* Someone signals a cancel; refused when nobody holds the key.
CancelAgain == row' = IF row.live THEN [row EXCEPT !.cancel = TRUE] ELSE row

\* An acknowledgement takes a cancel off the queue.
Acked(e) == row' = IF Holds(e) THEN [row EXCEPT !.cancel = FALSE] ELSE row

Acquire(e, x) ==
  /\ At(e, {"idle"}) /\ ~row.live
  /\ row' = [row EXCEPT !.holder = e, !.live = TRUE, !.drain = FALSE]
  /\ To(e, [x EXCEPT !.pc = "claimed"])
  /\ UNCHANGED <<stored, host, hasAck, ghosts>>

-----------------------------------------------------------------------------
(* run(), resume() and recover(): the claim. *)

Begin(e) ==
  /\ Acquire(e, [Idle EXCEPT !.new = TRUE])
  /\ \/ run.status = "none" /\ Fine
     \/ run.status # "none" /\ Bounded("begin", MaxBegins)

\* A host resumes; it may answer or allow again some of the tasks.
Resume(e) ==
  \E given \in SUBSET Present(task) :
    /\ run.status # "none"
    /\ \A t \in given : task[t].status \in {"suspended", "needs_reconciliation", "running"}
    /\ Acquire(e, [Idle EXCEPT !.given = given]) /\ Bounded("resume", MaxResumes)

\* recover() takes over a run listed as running.
Recover(e) ==
  run.status = "running" /\ Acquire(e, [Idle EXCEPT !.recovers = TRUE]) /\ Fine

\* How a resume finds a task again.
Prepared(x, t) ==
  LET rec == x.recs[t]
      is(status) == [rec EXCEPT !.status = status]
      given == t \in x.given
  IN IF rec.status \in {"running", "needs_reconciliation"}
     THEN IF rec.saved = "suspended" THEN is(IF given THEN "pending" ELSE "suspended")
          ELSE IF rec.saved \in {"completed", "failed"} \/ t \notin Manual \/ given
          THEN is("pending") ELSE is("needs_reconciliation")
     ELSE IF rec.status = "suspended" /\ given THEN is("pending") ELSE rec

Refuse(x) == [x EXCEPT !.pc = IF x.found = "consumed" THEN "restoring" ELSE "refused"]

Load(e) ==
  LET x == ex[e]
  IN /\ At(e, {"claimed"}) /\ ~x.new
     /\ To(e, IF run.status = "none" \/ (x.recovers /\ ~x.fresh)
              THEN Refuse(x)
              ELSE [x EXCEPT !.pc = "loaded", !.run = run, !.recs = task])
     /\ UNCHANGED <<stored, row, host, hasAck, ghosts>> /\ Fine

\* What the claim takes off, or finds on, the key's queue.
Collect(e) ==
  LET x == ex[e]
      a == Answer(e)
      found == IF ~a.cancel THEN "no" ELSE IF hasAck THEN "kept" ELSE "consumed"
  IN /\ At(e, {"loaded"}) \/ (At(e, {"claimed"}) /\ x.new)
     /\ \/ /\ Renewed(e, hasAck) /\ Fine
           /\ To(e, IF a.kind = "lost" THEN Refuse(x)
                    ELSE [x EXCEPT !.pc = "collected", !.found = found, !.draining = a.drain])
        \/ /\ Renewed(e, hasAck) \/ UNCHANGED row
           /\ Fault /\ To(e, Refuse(x))
     /\ UNCHANGED <<stored, host, hasAck, ghosts>>

\* A cancel that applies to the run as it was read.
CancelNow(x) ==
  ~x.new /\ x.found # "no" /\ ~x.run.cancel /\ x.run.status \notin Past

\* A kept cancel that does not apply leaves the queue before the claim commits.
AckMoot(e) ==
  LET x == ex[e]
  IN /\ At(e, {"collected"}) /\ x.found = "kept" /\ ~CancelNow(x)
     /\ \/ Acked(e) /\ Fine /\ To(e, [x EXCEPT !.found = "consumed"])
        \/ /\ Acked(e) \/ UNCHANGED row
           /\ Fault /\ To(e, Refuse(x))
     /\ UNCHANGED <<stored, host, hasAck, ghosts>>

Ready(x) == x.found = "kept" => CancelNow(x)

Create(e) ==
  LET x == ex[e]
      r == [status |-> "running", cancel |-> FALSE]
      recs == [t \in Tasks |-> IF t \in Roots THEN Fresh ELSE Absent]
      created == run' = r /\ task' = recs
      begun == [x EXCEPT !.pc = "opening", !.run = r, !.recs = recs, !.found = "no",
                         !.draining = FALSE]
  IN /\ At(e, {"collected"}) /\ x.new /\ Ready(x)
     /\ \/ /\ run.status = "none" /\ created /\ Fine /\ To(e, begun)
        \/ /\ run.status = "none" /\ (created \/ UNCHANGED stored) /\ Fault /\ To(e, Refuse(x))
        \/ run.status # "none" /\ UNCHANGED stored /\ Fine /\ To(e, Refuse(x))
     /\ UNCHANGED <<row, host, hasAck, ghosts>>

\* The claim's commit; a cancel found on the queue is recorded with it.
Claim(e) ==
  LET x == ex[e]
      r == [status |-> "running", cancel |-> x.run.cancel \/ CancelNow(x)]
      recs == [t \in Tasks |-> Prepared(x, t)]
  IN /\ At(e, {"collected"}) /\ ~x.new /\ Ready(x)
     /\ Write(e, r, recs, {},
              [x EXCEPT !.pc = IF x.found = "kept" THEN "recorded" ELSE "opening", !.found = "no"],
              Refuse(x))
     /\ leave' = IF task' # task THEN leave \cup (x.given \cap Manual) ELSE leave
     /\ UNCHANGED <<row, hasAck, redone>>

\* A cancel the claim recorded leaves the queue, if it can.
AckRecorded(e) ==
  /\ At(e, {"recorded"})
  /\ \/ Acked(e) /\ Fine
     \/ (Acked(e) \/ UNCHANGED row) /\ Fault
  /\ To(e, [ex[e] EXCEPT !.pc = "opening"])
  /\ UNCHANGED <<stored, host, hasAck, ghosts>>

\* A claim that fails puts back the cancel it took.
Restore(e) ==
  /\ At(e, {"restoring"})
  /\ \/ CancelAgain /\ Fine
     \/ UNCHANGED row /\ Fault
  /\ To(e, [ex[e] EXCEPT !.pc = "refused"])
  /\ UNCHANGED <<stored, host, hasAck, ghosts>>

\* The first write of a drive: the execution state, and a recorded cancel.
Open(e) ==
  /\ At(e, {"opening"})
  /\ Write(e, ex[e].run, ex[e].recs, {}, [ex[e] EXCEPT !.pc = "top"],
           [ex[e] EXCEPT !.pc = "ending"])
  /\ UNCHANGED <<row, hasAck, leave, redone>>
-----------------------------------------------------------------------------
(* The heartbeat.  One renewal at a time; an answer that says anything may  *)
(* be slow.                                                                *)

SaysNothing(a) == a.kind = "held" /\ ~a.cancel /\ ~a.drain

\* A renewal the drive itself waits for is over.
Told(x) ==
  [x EXCEPT !.pc = IF @ = "asking" THEN "checked" ELSE IF @ = "failed" THEN "ending" ELSE @]

Renewal(e, x) ==
  /\ x.flight = NoAnswer /\ x.failure # "lost"
  /\ \/ /\ Renewed(e, hasAck) /\ Fine
        /\ To(e, IF SaysNothing(Answer(e)) THEN Told(x) ELSE [x EXCEPT !.flight = Answer(e)])
     \/ /\ Renewed(e, hasAck) \/ UNCHANGED row
        /\ To(e, [x EXCEPT !.flight = [kind |-> "failed"]]) /\ Fault
  /\ UNCHANGED <<stored, host, hasAck, ghosts>>

\* One the drive waits for is next in line.
Beat(e) ==
  /\ At(e, Beating \ {"checking"}) /\ (At(e, {"failing"}) => Working(ex[e]) # {})
  /\ Renewal(e, ex[e])

Loses(x) == [x EXCEPT !.failure = IF @ = "none" \/ @ = "conflict" THEN "lost" ELSE @]

\* A delivered cancel is noted even once the executor stopped.
Noted(x) ==
  LET a == x.flight
      y == [Told(x) EXCEPT !.flight = NoAnswer]
  IN IF a.kind # "held" \/ ~a.cancel THEN y
     ELSE IF hasAck THEN [y EXCEPT !.kept = TRUE] ELSE [y EXCEPT !.consumed = TRUE]

Orders(x, flag) ==
  IF flag /\ x.cancelling = "no"
  THEN [x EXCEPT !.cancelling = "queued", !.queue = Append(@, Entry("cancel", 0))] ELSE x

Hear(e) ==
  LET x == ex[e]
      a == x.flight
      y == Noted(x)
  IN /\ a # NoAnswer
     /\ \/ At(e, {"ending"}) /\ To(e, y)
        \/ ~At(e, {"ending"}) /\ a.kind = "lost" /\ To(e, Loses(y))
        \/ /\ ~At(e, {"ending"}) /\ a.kind = "held"
           /\ To(e, Orders([y EXCEPT !.draining = @ \/ a.drain], a.cancel))
        \* An outage is survivable until the lease could have lapsed.
        \/ /\ ~At(e, {"ending"}) /\ a.kind = "failed"
           /\ To(e, Loses(y)) \/ (Holds(e) /\ row.live /\ To(e, y))
     /\ UNCHANGED <<stored, row, host, hasAck, ghosts>> /\ Fine

\* The cancel a renewal brought, or one ordered in this process, is recorded.
RecordCancel(e) ==
  LET x == ex[e]
      heard == Queued(x, "cancel")
      done == [Dequeued(x) EXCEPT !.cancelling = IF heard THEN "done" ELSE @,
                                  !.ordered = @ /\ heard]
  IN /\ heard \/ Queued(x, "order")
     /\ Write(e, [x.run EXCEPT !.cancel = TRUE], x.recs, {}, done, done)
     /\ UNCHANGED <<row, hasAck, leave, redone>>

-----------------------------------------------------------------------------
(* The drive. *)

In(x, ts, statuses) == \A d \in ts : x.recs[d].status \in statuses
Pending(x) == {t \in Tasks : x.recs[t].status = "pending"}

\* Only hard dependencies block; a soft one just has to settle.
Blocked(x, t) == \E d \in DependsOn[t] : x.recs[d].status \in {"failed", "blocked", "cancelled"}
Skips(x) == {t \in Pending(x) : x.run.cancel \/ Blocked(x, t)}
Runnable(x) ==
  {t \in Pending(x) : In(x, DependsOn[t], {"completed"}) /\ In(x, After[t], Terminal)}

\* The runnable tasks are given the free slots, in order.
Rank(i, S) == Cardinality({j \in S : j < i})
Dispatched(x) ==
  LET free == {s \in Slots : x.work[s].at = "none"}
      ready == IF x.run.cancel \/ x.draining THEN {} ELSE Runnable(x)
      pairs == {p \in free \X ready : Rank(p[1], free) = Rank(p[2], ready)}
      taken == {p[1] : p \in pairs}
  IN [x EXCEPT
        !.work = [s \in Slots |->
           IF s \in taken
           THEN [NoWork EXCEPT !.task = (CHOOSE p \in pairs : p[1] = s)[2], !.at = "starting"]
           ELSE @[s]],
        !.queue = @ \o [i \in 1..Cardinality(taken) |->
                           Entry("start", CHOOSE s \in taken : Rank(s, taken) = i - 1)]]

\* How a run with nothing left to do here settles.
SettledUndrained(x) ==
  LET is == {x.recs[t].status : t \in Present(x.recs)}
  IN IF x.run.cancel THEN "cancelled"
     ELSE IF is \cap {"suspended", "needs_reconciliation"} # {} THEN "suspended"
     ELSE IF is \subseteq {"completed"} THEN "completed" ELSE "partial"

SettledAs(x) ==
  LET is == {x.recs[t].status : t \in Present(x.recs)}
  IN IF x.run.cancel THEN "cancelled"
     ELSE IF is \cap {"suspended", "needs_reconciliation", "pending"} # {} THEN "suspended"
     ELSE IF is \subseteq {"completed"} THEN "completed" ELSE "partial"

\* One pass of the loop, at its start and when a task it waits for ends.
Loop(e) ==
  LET x == ex[e]
      broken == x.failure # "none" \/ \E s \in Slots : x.work[s].at = "broken"
      y == [x EXCEPT !.work = [s \in Slots |-> IF Over(@[s]) THEN NoWork ELSE @[s]]]
      z == Dispatched(y)
  IN /\ \/ At(e, {"top"})
        \/ At(e, {"racing"}) /\ \E s \in Slots : x.work[s].at \in {"ended", "broken"}
     /\ To(e, IF broken THEN [x EXCEPT !.pc = "failing"]
              ELSE IF Skips(y) # {}
              THEN [y EXCEPT !.pc = "skipping", !.skips = Skips(y),
                             !.as = IF y.run.cancel THEN "cancelled" ELSE "blocked",
                             !.queue = Append(@, Entry("skip", 0))]
              ELSE IF Working(z) # {} THEN [z EXCEPT !.pc = "racing"]
              ELSE IF SettledAs(z) = "cancelled"
              THEN [z EXCEPT !.pc = "settling", !.as = "cancelled",
                             !.queue = Append(@, Entry("settle", 0))]
              ELSE [z EXCEPT !.pc = "checking", !.as = SettledAs(z)])
     /\ UNCHANGED <<stored, row, host, hasAck, ghosts>> /\ Fine

\* Tasks that will not run are blocked or cancelled.
Skip(e) ==
  LET x == ex[e]
      y == [Dequeued(x) EXCEPT !.skips = {}, !.as = "none"]
  IN /\ Queued(x, "skip")
     /\ Write(e, x.run,
              [t \in Tasks |-> IF t \in x.skips THEN [x.recs[t] EXCEPT !.status = x.as]
                               ELSE x.recs[t]],
              {}, [y EXCEPT !.pc = "top"], [y EXCEPT !.pc = "failing"])
     /\ UNCHANGED <<row, hasAck, leave, redone>>

\* Before it settles, the run hears the signals sent since the last beat.
LastBeat(e) ==
  /\ At(e, {"checking"})
  /\ \/ Renewal(e, [ex[e] EXCEPT !.pc = "asking"])
     \/ /\ ex[e].failure = "lost" /\ To(e, [ex[e] EXCEPT !.pc = "checked"])
        /\ UNCHANGED <<stored, row, host, hasAck, ghosts>> /\ Fine

Checked(e) ==
  LET x == ex[e]
  IN /\ At(e, {"checked"}) /\ x.cancelling # "queued"
     /\ To(e, IF x.failure # "none" THEN [x EXCEPT !.pc = "failing", !.as = "none"]
              ELSE IF x.run.cancel THEN [x EXCEPT !.pc = "top", !.as = "none"]
              ELSE [x EXCEPT !.pc = "settling", !.queue = Append(@, Entry("settle", 0))])
     /\ UNCHANGED <<stored, row, host, hasAck, ghosts>> /\ Fine

Settle(e) ==
  LET x == ex[e]
      y == [Dequeued(x) EXCEPT !.as = "none"]
  IN /\ Queued(x, "settle")
     /\ Write(e, [x.run EXCEPT !.status = x.as], x.recs, {},
              [y EXCEPT !.pc = "ending"], [y EXCEPT !.pc = "failing"])
     /\ UNCHANGED <<row, hasAck, leave, redone>>

\* The error path waits for what still runs here.
NothingLeft(x) == {}
StillHere(x) == Working(x)

\* A conflict asks once whether the lease is lost.
Fail(e) ==
  LET x == [ex[e] EXCEPT !.work = [s \in Slots |-> IF Over(@[s]) THEN NoWork ELSE @[s]]]
  IN /\ At(e, {"failing"}) /\ StillHere(ex[e]) = {}
     /\ \/ /\ x.failure # "conflict" /\ To(e, [x EXCEPT !.pc = "ending"])
           /\ UNCHANGED <<stored, row, host, hasAck, ghosts>> /\ Fine
        \/ x.failure = "conflict" /\ Renewal(e, [x EXCEPT !.pc = "failed"])

-----------------------------------------------------------------------------
(* A task's attempt (executeTask). *)

Envelopes == {"completed", "failed"}
Saved(o) == IF o = "timeout" THEN "failed" ELSE o
HasEnded(rec) == rec.saved \in Envelopes

\* The task is running in the store before its effect begins.
Start(e) ==
  LET x == ex[e]
      s == Head(x.queue).slot
      t == x.work[s].task
      y == Dequeued(x)
      begins == Manual \cap {t} # {} /\ ~HasEnded(x.recs[t]) /\ ex'[e].work[s].at = "working"
  IN /\ Queued(x, "start")
     /\ Write(e, x.run, [x.recs EXCEPT ![t].status = "running"], {},
              [y EXCEPT !.work[s].at = "working"], [y EXCEPT !.work[s].at = "broken"])
     /\ leave' = IF begins THEN leave \ {t} ELSE leave
     /\ redone' = IF begins THEN redone \cup ({t} \ leave) ELSE redone
     /\ UNCHANGED <<row, hasAck>>

\* An attempt that timed out failed; one that was aborted is cancelled.
EndsAs(x, o) == IF o = "timeout" THEN "failed" ELSE IF Aborted(x) THEN "cancelled" ELSE o

SpawnedBy(t, end) == IF end \in DOMAIN Kids[t] THEN Kids[t][end] ELSE {}
NoneReserved(x) == {}
Reserved(x) == UNION {x.work[s].kids : s \in Slots}

\* Do the tasks asked for fit, beside those promised and not yet committed?
Fits(x, kids) ==
  /\ kids \cap Present(x.recs) = {}
  /\ kids # {} =>
       Cardinality(Present(x.recs)) + Cardinality(Reserved(x)) + Cardinality(kids) <= MaxTasks

\* How an attempt ends and what it spawns: tasks that do not fit fail the one
\* that asked for them; a failure's own are left out.
Ending(x, t, o) ==
  LET as == EndsAs(x, o)
      end == IF as = "completed" /\ ~Fits(x, SpawnedBy(t, as)) THEN "failed" ELSE as
      kids == SpawnedBy(t, end)
  IN [end |-> end, kids |-> IF Fits(x, kids) THEN kids ELSE {}]

Finishing(x, s, o) ==
  LET f == Ending(x, x.work[s].task, o)
  IN [x EXCEPT !.work[s] = [@ EXCEPT !.at = "finishing", !.end = f.end, !.kids = f.kids],
               !.queue = Append(@, Entry("finish", s))]

Saving(x, s, o) ==
  [x EXCEPT !.work[s] = [@ EXCEPT !.at = "saving", !.end = o],
            !.queue = Append(@, Entry("save", s))]

\* The work of an attempt comes out, or its agent saves where it stands.
Work(e, s) ==
  LET x == ex[e]
      t == x.work[s].task
      rec == x.recs[t]
  IN /\ x.work[s].at = "working"
     /\ IF t \notin Agents
        THEN \E o \in Outcomes \ {"suspended", "needs_reconciliation"} : To(e, Finishing(x, s, o))
        ELSE IF HasEnded(rec) THEN To(e, Finishing(x, s, rec.saved))
        ELSE \/ \E o \in Outcomes \ {"needs_reconciliation"} : To(e, Saving(x, s, o))
             \/ rec.saved # "active" /\ To(e, Saving(x, s, "active"))
             \/ /\ rec.saved = "active"
                /\ \E o \in Outcomes \cap {"needs_reconciliation"} : To(e, Finishing(x, s, o))
     /\ UNCHANGED <<stored, row, host, hasAck, ghosts>> /\ Fine

\* The agent's envelope is saved in its task.
Save(e) ==
  LET x == ex[e]
      s == Head(x.queue).slot
      y == Dequeued(x)
      o == x.work[s].end
  IN /\ Queued(x, "save")
     /\ Write(e, x.run, [x.recs EXCEPT ![x.work[s].task].saved = Saved(o)], {},
              IF o = "active" THEN [y EXCEPT !.work[s] = [@ EXCEPT !.at = "working", !.end = "none"]]
              ELSE [y EXCEPT !.work[s].at = "saved"],
              [y EXCEPT !.work[s].at = "broken"])
     /\ UNCHANGED <<row, hasAck, leave, redone>>

Finish(e, s) ==
  /\ ex[e].work[s].at = "saved"
  /\ To(e, Finishing(ex[e], s, ex[e].work[s].end))
  /\ UNCHANGED <<stored, row, host, hasAck, ghosts>> /\ Fine

\* A task's end is committed together with the tasks it spawns.
CommitFinish(e) ==
  LET x == ex[e]
      s == Head(x.queue).slot
      w == x.work[s]
      y == Dequeued(x)
      over(at) == [y EXCEPT !.work[s] = [NoWork EXCEPT !.at = at]]
  IN /\ Queued(x, "finish")
     /\ Write(e, x.run, [x.recs EXCEPT ![w.task].status = w.end], w.kids,
              over("ended"), over("broken"))
     /\ UNCHANGED <<row, hasAck, leave, redone>>

-----------------------------------------------------------------------------
(* The end of a drive (teardown). *)

IsPast(x) == x.run.cancel \/ x.run.status \in Past
RestoresNothing(x) == FALSE
Restores(x) == ~IsPast(x) /\ x.consumed

\* Once no renewal and no cancel is under way: a kept cancel that was
\* recorded, or came too late, leaves the queue; a consumed one that was not
\* recorded goes back.
End(e) ==
  LET x == ex[e]
      acks == IsPast(x) /\ x.kept
  IN /\ At(e, {"ending"}) /\ x.flight = NoAnswer /\ x.cancelling # "queued"
     /\ \/ /\ Fine
           /\ IF acks THEN Acked(e) ELSE IF Restores(x) THEN CancelAgain ELSE UNCHANGED row
        \/ (acks \/ Restores(x)) /\ Fault /\ UNCHANGED row
     /\ To(e, [x EXCEPT !.pc = "releasing"])
     /\ UNCHANGED <<stored, host, hasAck, ghosts>>

\* A lease nobody holds any more; a cancel outlives the holder it was sent to.
GivenBack == [row EXCEPT !.holder = Nobody, !.live = FALSE, !.drain = FALSE]

Unclaim(e) ==
  /\ At(e, {"releasing", "refused"})
  /\ \/ Fine /\ row' = IF Holds(e) THEN GivenBack ELSE row
     \/ Fault /\ UNCHANGED row
  /\ To(e, Idle)
  /\ UNCHANGED <<stored, host, hasAck, ghosts>>

-----------------------------------------------------------------------------
(* Everybody else. *)

\* The run's handle, in the process that drives it.
Order(e) ==
  /\ At(e, Active) /\ ~ex[e].ordered /\ Bounded("cancel", MaxCancels)
  /\ To(e, [ex[e] EXCEPT !.ordered = TRUE, !.queue = Append(@, Entry("order", 0))])
  /\ UNCHANGED <<stored, row, host, hasAck, ghosts>>

DrainHere(e) ==
  /\ At(e, Beating) /\ ~ex[e].draining /\ Bounded("drain", MaxDrains)
  /\ To(e, [ex[e] EXCEPT !.draining = TRUE])
  /\ UNCHANGED <<stored, row, host, hasAck, ghosts>>

NoHost == [pc |-> "none", run |-> [status |-> "none", cancel |-> FALSE], fresh |-> TRUE]
Outside == UNCHANGED <<ex, hasAck, leave, redone>>

\* requestCancel in another process: it reads the run, signals its holder,
\* and records the cancel when there is none.
ReadHead ==
  /\ host.pc = "none" /\ run.status \notin Final \cup {"none"} /\ Bounded("cancel", MaxCancels)
  /\ host' = [NoHost EXCEPT !.pc = "signalling", !.run = run]
  /\ UNCHANGED <<stored, row, asked>> /\ Outside

SignalHolder ==
  /\ host.pc = "signalling" /\ CancelAgain
  /\ host' = IF row.live THEN NoHost ELSE [host EXCEPT !.pc = "recording"]
  /\ asked' = (asked \/ (row.live /\ ~run.cancel /\ run.status \notin Past))
  /\ UNCHANGED stored /\ Outside /\ Fine

\* A conflict looks again; the code gives up after five.
RecordRequest ==
  /\ host.pc = "recording"
  /\ IF host.fresh /\ ~host.run.cancel
     THEN /\ run' = [run EXCEPT !.cancel = TRUE] /\ asked' = FALSE
          /\ ex' = [d \in Executors |-> Overtaken(ex[d])]
     ELSE UNCHANGED <<run, asked, ex>>
  /\ host' = IF host.fresh \/ host.run.cancel \/ run.status \in Final THEN NoHost
             ELSE [NoHost EXCEPT !.pc = "signalling", !.run = run]
  /\ UNCHANGED <<task, row, hasAck, leave, redone>> /\ Fine

SignalDrain ==
  /\ row.live /\ ~row.drain /\ Bounded("drain", MaxDrains)
  /\ row' = [row EXCEPT !.drain = TRUE]
  /\ UNCHANGED <<stored, host, asked>> /\ Outside

\* A live holder fails to renew in time, for a while.
Lapse ==
  /\ row.live /\ ex[row.holder].pc # "idle" /\ Bounded("lapse", MaxLapses)
  /\ row' = [row EXCEPT !.live = FALSE]
  /\ UNCHANGED <<stored, host, asked>> /\ Outside

\* A lease whose holder is gone expires.
Expire ==
  /\ row.live /\ ex[row.holder].pc = "idle"
  /\ row' = [row EXCEPT !.live = FALSE]
  /\ UNCHANGED <<stored, host, asked>> /\ Outside /\ Fine

Crash(e) ==
  /\ ex[e].pc # "idle" /\ Bounded("crash", MaxCrashes)
  /\ To(e, Idle)
  /\ UNCHANGED <<stored, row, host, hasAck, ghosts>>

-----------------------------------------------------------------------------
SwarmInit ==
  /\ run = [status |-> "none", cancel |-> FALSE] /\ task = [t \in Tasks |-> Absent]
  /\ row = [holder |-> Nobody, live |-> FALSE, cancel |-> FALSE, drain |-> FALSE]
  /\ ex = [e \in Executors |-> Idle] /\ host = NoHost
  /\ hasAck \in Providers
  /\ used = [begin |-> 0, resume |-> 0, cancel |-> 0, drain |-> 0, fault |-> 0, crash |-> 0,
             lapse |-> 0, troubles |-> 0]
  /\ asked = FALSE /\ leave = Manual /\ redone = {}

Claims(e) ==
  \/ Begin(e) \/ Resume(e) \/ Recover(e)
  \/ Load(e) \/ Collect(e) \/ AckMoot(e) \/ Create(e) \/ Claim(e) \/ AckRecorded(e)
  \/ Restore(e) \/ Open(e)

Drives(e) ==
  \/ Hear(e) \/ RecordCancel(e)
  \/ Loop(e) \/ Skip(e) \/ LastBeat(e) \/ Checked(e) \/ Settle(e) \/ Fail(e)
  \/ Start(e) \/ (\E s \in Slots : Work(e, s) \/ Finish(e, s)) \/ Save(e) \/ CommitFinish(e)
  \/ End(e) \/ Unclaim(e)

World ==
  \/ ReadHead \/ SignalHolder \/ RecordRequest \/ SignalDrain \/ Lapse \/ Expire

SwarmNext ==
  \/ \E e \in Executors : Claims(e) \/ Beat(e) \/ Drives(e) \/ Order(e) \/ DrainHere(e) \/ Crash(e)
  \/ World

SwarmSpec == SwarmInit /\ [][SwarmNext]_swarmVars

-----------------------------------------------------------------------------
\* A task that is not replay-safe begins its effect once, and again only when
\* a host allowed it by resuming, through crashes and takeovers.
EffectsAreAllowed == redone = {}

\* An executor that stopped, and may let the lease go, runs nothing any more.
StoppedIsQuiet ==
  \A e \in Executors : At(e, {"ending", "releasing"}) => Working(ex[e]) = {}

\* A run is settled as its tasks came out.
SettledAgrees ==
  LET is == {task[t].status : t \in Present(task)}
  IN /\ run.status = "completed" => is \subseteq {"completed"}
     /\ run.status = "partial" => is \subseteq Terminal /\ ~(is \subseteq {"completed"})
     /\ run.status = "cancelled" => run.cancel /\ is \cap {"pending", "running"} = {}
     /\ run.status = "suspended" => "running" \notin is

\* No commit of spawned tasks is refused by the store, which would end the run
\* here: what two tasks ask for together is weighed before either commits.
SpawnsFit == \A e \in Executors : ex[e].failure # "refused"

\* A cancel taken off the queue that its executor still means to hand on; a
\* provider that acknowledges keeps what it delivers.
InHand(e) ==
  \/ ~At(e, {"releasing", "refused"}) /\ (ex[e].consumed \/ ex[e].found = "consumed")
  \/ ~hasAck /\ ex[e].flight # NoAnswer /\ ex[e].flight.kind = "held" /\ ex[e].flight.cancel
OnItsWay == row.cancel \/ \E e \in Executors : InHand(e)

\* A cancel signalled to a holder that settles, fails or dies before it reads
\* it reaches the next executor: with a provider that acknowledges, no crash
\* and no failed call loses it (types/swarm.ts:414-416, scheduler.ts:190-192).
CancelIsKept == asked /\ hasAck => OnItsWay

\* A claim that takes the queued cancel for one of an earlier run's.
MootClaim(e) ==
  At(e, {"collected", "restoring"}) /\ ex[e].found # "no" /\ ~CancelNow(ex[e])

\* What a drive does with a cancel that was signalled, its teardown included,
\* never loses it before the run recorded it or settled past it.  Only a claim
\* that takes it for moot may; and where the provider keeps nothing, a failed
\* call, a crash, or a lease that lapsed before the cancel was put back.
CancelIsHandedOn ==
  [][asked /\ asked' /\ OnItsWay =>
       \/ OnItsWay' \/ \E e \in Executors : MootClaim(e) /\ ex'[e] # ex[e]
       \/ ~hasAck /\ (used' # used \/ ~row.live)]_swarmVars

\* A task that came out stays as it came out.
ResultsStay ==
  [][\A t \in Tasks : task[t].status \in Terminal => task'[t].status = task[t].status]_task

=============================================================================
