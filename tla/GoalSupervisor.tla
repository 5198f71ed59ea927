--------------------------- MODULE GoalSupervisor ---------------------------
(***************************************************************************)
(* How supervisors drive one durable goal                                  *)
(* (packages/core/src/goal/runtime/supervisor-drive.ts and supervisor.ts): *)
(* a tick takes the goal's lease and drives it one step at a time.  A step *)
(* reads the goal, then its runtime state and what is open, decides, and   *)
(* makes one write the store checks against what was read; a launched run  *)
(* is waited for, charged and settled the same way.  The lease may be lost *)
(* under a drive, the provider may count its tokens from 1 again, and a    *)
(* supervisor may die or be drained anywhere.                              *)
(*                                                                         *)
(* The store compares revisions.  A revision is kept as what it is for:    *)
(* whether anything was written since this drive read.  Of lease tokens    *)
(* up to the provider's own only the order matters: those in use are       *)
(* numbered again from 1 when a drive is over.                             *)
(*                                                                         *)
(* Abstractions: the runtime state, the open intents and the inbox are     *)
(* read in one step, after the goal.  Retry delays are zero, entries have  *)
(* no notBefore or expiry, waits are for the user or for an event.  Left   *)
(* out: budget, wakeup and dependency waits, spec generations, working     *)
(* memory, a run's maintenance, policy updates, and driveGoal's own caps   *)
(* on steps and conflicts, which end a drive that the next tick goes on    *)
(* with.  The caps of charge() and settleLeg() are modelled: a charge that *)
(* met MaxConflicts conflicts is given up and its leg settled without it.  *)
(***************************************************************************)
EXTENDS Integers, Sequences, FiniteSets

CONSTANTS
  Supervisors,  \* the processes that tick
  Nobody,       \* the holder of a free lease
  MaxRuns,      \* policy.maxRuns
  MaxRetries,   \* policy.maxRetries
  MaxConflicts, \* MAX_CONFLICTS, the passes of a charge and of a settlement
  MaxEntries,   \* bound on the events delivered to the goal
  MaxSpend,     \* bound on what a run spends
  Outcomes,     \* how a leg may end by itself
  Verdicts,     \* what the verifier may answer: "pass", "open", "broken"
  HasDeadline,  \* does the goal have a deadline?
  MaxCommands,  \* bound on host commands
  MaxCrashes,   \* bound on supervisors that die
  MaxLapses,    \* bound on leases that lapse under a live drive
  MaxRestarts,  \* bound on provider restarts that start its tokens again
  MaxDrains     \* bound on drains

ASSUME SupervisorAssumption ==
  /\ Nobody \notin Supervisors
  /\ MaxRuns \in Nat \ {0} /\ MaxRetries \in Nat /\ MaxSpend \in Nat
  /\ MaxEntries \in Nat /\ MaxConflicts \in Nat \ {0}
  /\ Outcomes \subseteq {"completed", "suspended", "failed", "stopped", "threw"}
  /\ Verdicts \subseteq {"pass", "open", "broken"} /\ HasDeadline \in BOOLEAN

VARIABLES
  goal,     \* the goal record
  rt,       \* its runtime state
  intents,  \* the run intents, oldest first
  inbox,    \* entry -> its disposition and the wait it was dated in
  mark,     \* run -> its charged watermark
  native,   \* run -> what the native run store holds of it
  exec,     \* run -> the supervisor whose executor holds the native run's lease
  ask,      \* run -> what that executor was asked to do
  ledger,   \* run -> what it has spent
  late,     \* has the deadline passed?
  lease,    \* the goal's lease row
  drive,    \* supervisor -> its drive of the goal
  draining, \* supervisors that are draining
  used      \* how often each bounded event happened

store == <<goal, rt, intents, inbox, mark>>
runs == <<native, exec, ask, ledger>>
supVars == <<store, runs, late, lease, drive, draining, used>>

Runs == 1..MaxRuns
Entries == 1..MaxEntries
NoGoal == [status |-> "none"]
NoIntent == [status |-> "none"]
OpenStatuses == {"pending", "claimed", "launched"}
Terminal(g) == g.status \in {"completed", "failed", "cancelled"}

OpenAt(i) == i \in DOMAIN intents /\ intents[i].status \in OpenStatuses
Open == {i \in DOMAIN intents : OpenAt(i)}
Strays == Open \ {rt.active}
Pending == {e \in Entries : inbox[e].as = "pending"}
Oldest(S) == CHOOSE i \in S : \A j \in S : i <= j

Bounded(event, max) == used[event] < max /\ used' = [used EXCEPT ![event] = @ + 1]

-----------------------------------------------------------------------------
(* Goal transitions (goal/transition.ts): a passed deadline comes first. *)

Ended(g, status) == [g EXCEPT !.status = status, !.waiting = "none"]
Timed(g, next) == IF late THEN Ended(g, "failed") ELSE next
Waiting(g, reason) ==
  [g EXCEPT !.status = "waiting", !.waiting = reason, !.waits = @ + 1]
Active(g) == [g EXCEPT !.status = "active", !.waiting = "none"]

Cancelled(g) == Timed(g, Ended(g, "cancelled"))
Accepted(g) == Timed(g, [g EXCEPT !.accepted = TRUE])

\* The record to save, or NoGoal when the transition changes nothing.
WaitForHost(g) == IF g.status = "active" THEN Timed(g, Waiting(g, "user")) ELSE NoGoal
Complete(g) == IF late \/ g.accepted THEN Timed(g, Ended(g, "completed")) ELSE NoGoal
Command(g, type) ==
  IF Terminal(g) THEN NoGoal
  ELSE IF late THEN Ended(g, "failed")
  ELSE CASE type = "wait" -> Waiting(g, "event")
         [] type = "resume" -> IF g.status = "active" THEN NoGoal ELSE Active(g)
         [] type = "fail" -> Ended(g, "failed")

\* What the goal does with an event: one dated before its wait is stale.
Disposition(g, e) ==
  IF Terminal(g) THEN "terminal"
  ELSE IF g.waiting = "none" THEN "unmatched"
  ELSE IF inbox[e].dated < g.waits THEN "stale"
  ELSE IF g.waiting = "event" THEN "applied" ELSE "unmatched"

-----------------------------------------------------------------------------
(* A drive. *)

Idle ==
  [pc |-> "idle", token |-> 0, lost |-> FALSE,
   seen |-> NoGoal, goalFresh |-> TRUE, rtFresh |-> TRUE,
   plan |-> "none", at |-> 0, copy |-> NoIntent, next |-> NoGoal, last |-> FALSE,
   copyFresh |-> TRUE, entry |-> 0, as |-> "none", starts |-> FALSE,
   leg |-> "none", verdict |-> "unasked", totals |-> 0, markFresh |-> TRUE,
   tries |-> 0, past |-> FALSE, gaveUp |-> FALSE]

At(x, pc) == [Idle EXCEPT !.pc = pc, !.token = x.token, !.lost = x.lost]
Again(x) == At(x, "top")
Stop(x) == At(x, "ending")
\* A leg to settle keeps what it settles, and (a ghost) whether its charge
\* was given up.
Settling(x) ==
  [At(x, "settling") EXCEPT !.at = x.at, !.leg = x.leg, !.verdict = x.verdict,
                            !.gaveUp = x.gaveUp]
\* The next pass of a settlement, or the last one is over.
LastTry(x) == x.tries + 1 >= MaxConflicts
SettleAgain(x) ==
  IF LastTry(x) THEN Stop(x) ELSE [Settling(x) EXCEPT !.tries = x.tries + 1]

In(s, pc) == drive[s].pc = pc
Go(s, x) == drive' = [drive EXCEPT ![s] = x]

\* What was read before a write of the runtime state, the goal, a watermark
\* or an intent is stale after it.
Overtakes(written, i, y) ==
  LET over(what, read) == what \in written /\ read
  IN [y EXCEPT
        !.rtFresh = @ /\ ~over("rt", y.plan # "none"),
        !.goalFresh = @ /\ ~over("goal", y.seen # NoGoal \/ y.next # NoGoal \/ y.pc = "advancing"),
        !.markFresh = @ /\ ~over("mark", y.pc = "advancing"),
        !.copyFresh = @ /\ ~(i # 0 /\ y.plan # "none" /\ y.at = i)]
Overtaken(written, i) == [s \in Supervisors |-> Overtakes(written, i, drive[s])]
GoalWrite(next) == IF next = NoGoal THEN {} ELSE {"goal"}

Current(s) == drive[s].rtFresh /\ (drive[s].next # NoGoal => drive[s].goalFresh)

\* One checked write of the runtime state, with the goal when it changes and
\* an intent, if any.
SaveWith(s, i, state, then) ==
  /\ rt' = state
  /\ goal' = IF drive[s].next = NoGoal THEN goal ELSE drive[s].next
  /\ drive' = [Overtaken({"rt"} \cup GoalWrite(drive[s].next), i) EXCEPT ![s] = then]
Save(s, state, then) == SaveWith(s, 0, state, then)
\* One checked write of an intent alone.
Mark(s, i, record, then) ==
  /\ intents' = [intents EXCEPT ![i] = record]
  /\ drive' = [Overtaken({}, i) EXCEPT ![s] = then]
Refused(s, then) == Go(s, then) /\ UNCHANGED <<rt, goal, intents, inbox>>

WithoutRun(r) == [r EXCEPT !.active = 0]
Done(r) == [WithoutRun(r) EXCEPT !.phase = "done"]
CancelApplied(r) == [Done(r) EXCEPT !.cancel = "applied"]
\* A new intent takes the place of a closed one nobody refers to.
Slot ==
  LET free == {i \in DOMAIN intents : ~OpenAt(i) /\ i # rt.active
                                        /\ \A s \in Supervisors : drive[s].at # i}
  IN IF free = {} THEN Len(intents) + 1 ELSE Oldest(free)
\* The runtime state that names the intent recorded with it.
Dispatching(r) == [r EXCEPT !.phase = "dispatching", !.active = Slot]
Record(kind, run) ==
  intents' = [i \in DOMAIN intents \cup {Slot} |->
                IF i = Slot THEN [kind |-> kind, run |-> run, status |-> "pending", token |-> 0]
                ELSE intents[i]]

ActiveOpen == rt.active # 0 /\ OpenAt(rt.active)
Startable(s, g) ==
  /\ s \notin draining /\ g.status = "active"
  /\ rt.active = 0 /\ rt.cancel = "none" /\ rt.runs < MaxRuns

-----------------------------------------------------------------------------
(* The lease. *)

\* Whether a tick takes the goal's lease at all.
Wanted ==
  \/ rt.cancel = "asked"
  \/ Pending # {}
  \/ IF Terminal(goal) THEN Open # {} \/ rt.phase # "done"
     ELSE \/ late
          \/ /\ goal.status = "active"
             /\ IF Open # {} THEN TRUE
                ELSE IF rt.phase = "retrying" THEN rt.retries < MaxRetries
                ELSE rt.active # 0 \/ rt.runs < MaxRuns

Acquire(s) ==
  /\ In(s, "idle") /\ s \notin draining /\ Wanted
  /\ lease.holder = Nobody
  /\ lease' = [holder |-> s, token |-> lease.token + 1]
  /\ Go(s, [Idle EXCEPT !.pc = "top", !.token = lease.token + 1])
  /\ UNCHANGED <<store, runs, late, draining, used>>

Holds(s) == lease.holder = s

\* A lease is taken from a live drive that did not renew it in time.
Lapse ==
  /\ lease.holder # Nobody /\ ~In(lease.holder, "idle") /\ Bounded("lapse", MaxLapses)
  /\ lease' = [lease EXCEPT !.holder = Nobody]
  /\ UNCHANGED <<store, runs, late, drive, draining>>
\* A dead holder's lease lapses.
Expire ==
  /\ lease.holder # Nobody /\ In(lease.holder, "idle")
  /\ lease' = [lease EXCEPT !.holder = Nobody]
  /\ UNCHANGED <<store, runs, late, drive, draining, used>>

\* The provider starts again: no lease is held and tokens count from 1, below
\* or level with those in use.
ProviderRestarts ==
  /\ lease.token > 0 /\ Bounded("restart", MaxRestarts)
  /\ lease' = [holder |-> Nobody, token |-> 0]
  /\ exec' = [r \in Runs |-> Nobody] /\ ask' = [r \in Runs |-> "none"]
  /\ UNCHANGED <<store, native, ledger, late, drive, draining>>

RunOf(s) == intents[drive[s].at].run
\* The run is asked to stop, if an executor hears it; a cancel is never withdrawn.
Asked(r, how) ==
  ask' = IF exec[r] = Nobody \/ ask[r] = "cancel" THEN ask ELSE [ask EXCEPT ![r] = how]

\* A renewal finds the lease gone: the run is drained.
NoticeLoss(s) ==
  /\ ~In(s, "idle") /\ ~drive[s].lost /\ ~Holds(s)
  /\ Go(s, [drive[s] EXCEPT !.lost = TRUE])
  /\ IF In(s, "running") THEN Asked(RunOf(s), "drain") ELSE UNCHANGED ask
  /\ UNCHANGED <<store, native, exec, ledger, late, lease, draining, used>>

\* A renewal brings the host's cancel.
HearCancel(s) ==
  /\ In(s, "running") /\ Holds(s) /\ exec[RunOf(s)] # Nobody /\ ask[RunOf(s)] # "cancel"
  /\ rt.cancel = "asked" \/ Terminal(goal)
  /\ Asked(RunOf(s), "cancel")
  /\ UNCHANGED <<store, native, exec, ledger, late, lease, drive, draining, used>>

-----------------------------------------------------------------------------
(* One step: read, decide. *)

ReadGoal(s) ==
  /\ In(s, "top")
  /\ Go(s, IF drive[s].lost THEN Stop(drive[s])
           ELSE [drive[s] EXCEPT !.pc = "reading", !.seen = goal])
  /\ UNCHANGED <<store, runs, late, lease, draining, used>>

\* The order of the steps: the first that applies is taken.
StepFor(s) ==
  LET g == drive[s].seen
  IN IF rt.cancel = "asked" THEN "cancel"
     ELSE IF late /\ ~Terminal(g) THEN "time"
     ELSE IF Pending # {} THEN "settle"
     ELSE IF Terminal(g) THEN IF Open = {} /\ rt.phase = "done" THEN "stop" ELSE "ended"
     ELSE IF Strays # {} THEN "stray"
     ELSE IF g.status # "active" \/ s \in draining THEN "stop"
     ELSE IF ActiveOpen THEN IF g.run # intents[rt.active].run THEN "link" ELSE "launch"
     ELSE IF rt.phase = "retrying"
          THEN IF rt.active # 0 /\ rt.retries < MaxRetries THEN "retry" ELSE "stop"
     ELSE IF rt.active # 0 THEN "resume"
     ELSE IF rt.cancel # "none" \/ rt.runs >= MaxRuns THEN "stop"
     ELSE "auto"

\* The intent a step needs to hold first.
IntentOf(plan) ==
  CASE plan \in {"cancel", "ended"} /\ Open # {} -> Oldest(Open)
    [] plan = "stray" -> Oldest(Strays)
    [] plan = "launch" -> rt.active
    [] OTHER -> 0

\* The goal record a step writes.
GoalOf(plan, g) ==
  CASE plan = "cancel" /\ ~Terminal(g) -> Cancelled(g)
    [] plan = "time" -> Ended(g, "failed")
    [] plan = "settle" /\ Disposition(g, Oldest(Pending)) = "applied" -> Active(g)
    [] plan = "link" -> [g EXCEPT !.run = intents[rt.active].run]
    [] plan = "auto" -> [g EXCEPT !.run = rt.runs + 1]
    [] OTHER -> NoGoal

Decide(s) ==
  LET x == drive[s]
      plan == StepFor(s)
      i == IntentOf(plan)
      next == GoalOf(plan, x.seen)
  IN /\ In(s, "reading")
     /\ Go(s, IF plan = "stop" THEN Stop(x)
              ELSE [At(x, IF i # 0 THEN "claiming" ELSE "writing") EXCEPT
                      !.plan = plan, !.at = i, !.copy = IF i # 0 THEN intents[i] ELSE NoIntent,
                      !.last = Open \subseteq {i}, !.next = next, !.goalFresh = IF next = NoGoal THEN TRUE ELSE x.goalFresh,
                      !.entry = IF plan = "settle" THEN Oldest(Pending) ELSE 0,
                      !.as = IF plan = "settle" THEN Disposition(x.seen, Oldest(Pending))
                             ELSE "none",
                      !.starts = plan = "settle"
                                 /\ Startable(s, IF next = NoGoal THEN x.seen ELSE next)])
     /\ UNCHANGED <<store, runs, late, lease, draining, used>>

-----------------------------------------------------------------------------
(* Holding an intent. *)

Planned(s, pc, plan) == In(s, pc) /\ drive[s].plan = plan

\* The store's rule: a pending intent, or one under a lower token, as it was read.
Claimable(x) ==
  /\ x.copyFresh
  /\ x.copy.status = "pending" \/ x.copy.token < x.token

\* A bug: a claim above the drive's own token is always another drive's.
NeverStale(s) == FALSE
\* A claim above this drive's token although it holds the lease is from
\* before the provider counted again.
StaleClaim(s) ==
  /\ OpenAt(drive[s].at) /\ intents[drive[s].at].token > drive[s].token
  /\ Holds(s) /\ ~drive[s].lost

Claim(s) ==
  LET x == drive[s]
      held == x.copy.status # "pending" /\ x.copy.token = x.token
      claimed == [x.copy EXCEPT !.status = IF @ = "pending" THEN "claimed" ELSE @,
                                !.token = x.token]
      stale == StaleClaim(s)
  IN /\ In(s, "claiming")
     /\ IF held
        THEN Go(s, [x EXCEPT !.pc = "held"]) /\ UNCHANGED intents
        ELSE IF Claimable(x)
        THEN Mark(s, x.at, claimed, [x EXCEPT !.pc = "held", !.copy = claimed])
        ELSE /\ UNCHANGED intents
             /\ Go(s, IF stale
                      THEN IF x.plan = "launch"
                           THEN [x EXCEPT !.pc = "writing", !.plan = "supersede",
                                          !.copy = intents[x.at], !.copyFresh = TRUE]
                           ELSE [x EXCEPT !.pc = "held", !.copy = intents[x.at],
                                          !.copyFresh = TRUE]
                      ELSE IF x.plan = "launch" THEN Stop(x) ELSE Again(x))
     /\ UNCHANGED <<goal, rt, inbox, mark, runs, late, lease, draining, used>>

Finished(intent) == [intent EXCEPT !.kind = "none", !.status = "closed", !.token = 0]

\* What was left open closes one intent at a time; for a recorded cancel and
\* an ended goal, the last one together with the state.
CloseIntent(s) ==
  LET x == drive[s]
      ends == x.plan # "stray" /\ x.last
      ok == x.copyFresh /\ (ends => Current(s))
      closed == Finished(x.copy)
  IN /\ In(s, "held") /\ x.plan # "launch"
     /\ IF ok
        THEN /\ UNCHANGED inbox
             /\ IF ends
                THEN /\ intents' = [intents EXCEPT ![x.at] = closed]
                     /\ SaveWith(s, x.at, IF x.plan = "cancel" THEN CancelApplied(rt)
                                          ELSE Done(rt), Stop(x))
                ELSE Mark(s, x.at, closed, Again(x)) /\ UNCHANGED <<rt, goal>>
        ELSE Refused(s, Again(x))
     /\ UNCHANGED <<mark, runs, late, lease, draining, used>>

-----------------------------------------------------------------------------
(* The steps that need no intent: each one checked write. *)

WriteAs(s, plan, state, then) ==
  /\ Planned(s, "writing", plan)
  /\ IF Current(s) THEN Save(s, state, then) /\ UNCHANGED <<intents, inbox>>
     ELSE Refused(s, Again(drive[s]))
  /\ UNCHANGED <<mark, runs, late, lease, draining, used>>

SaveCancel(s) == WriteAs(s, "cancel", CancelApplied(rt), Stop(drive[s]))
SaveEnded(s) == WriteAs(s, "ended", Done(rt), Stop(drive[s]))
ApplyTime(s) ==
  WriteAs(s, "time", IF rt.active = 0 THEN [rt EXCEPT !.phase = "done"] ELSE rt,
          Again(drive[s]))
LinkRun(s) == WriteAs(s, "link", rt, Again(drive[s]))

\* An intent is recorded with the state that names it.
RecordAs(s, plan, kind, run, state) ==
  /\ Planned(s, "writing", plan)
  /\ IF Current(s)
     THEN Save(s, state, Again(drive[s])) /\ Record(kind, run) /\ UNCHANGED inbox
     ELSE Refused(s, Again(drive[s]))
  /\ UNCHANGED <<mark, runs, late, lease, draining, used>>

ActiveRun == intents[rt.active].run
Started(r) == [Dispatching(r) EXCEPT !.runs = @ + 1, !.retries = 0]

ScheduleRetry(s) ==
  RecordAs(s, "retry", "retry", ActiveRun, [Dispatching(rt) EXCEPT !.retries = @ + 1])
ResumeRun(s) ==
  RecordAs(s, "resume", "resume", ActiveRun, [Dispatching(rt) EXCEPT !.retries = 0])
StartRun(s) == RecordAs(s, "auto", "start", rt.runs + 1, Started(rt))

\* A claim from before the provider counted again gives way to a fresh intent
\* for the same run; the old one then closes as a stray.
Supersede(s) ==
  LET old == drive[s].copy
  IN IF rt.active = 0 /\ drive[s].rtFresh
     THEN /\ Planned(s, "writing", "supersede")
          /\ Go(s, Stop(drive[s]))
          /\ UNCHANGED <<store, runs, late, lease, draining, used>>
     ELSE RecordAs(s, "supersede",
                   IF old.kind = "start" /\ old.status = "launched" THEN "resume" ELSE old.kind,
                   old.run, Dispatching(rt))

\* The oldest due entry, with the run it starts, in one write.
SettleInbox(s) ==
  LET x == drive[s]
      ok == /\ inbox[x.entry].as = "pending"
            /\ x.next # NoGoal => x.goalFresh
            /\ x.starts => x.rtFresh
  IN /\ Planned(s, "writing", "settle")
     /\ IF ok
        THEN /\ inbox' = [inbox EXCEPT ![x.entry] = [as |-> x.as, dated |-> 0]]
             /\ goal' = IF x.next = NoGoal THEN goal ELSE x.next
             /\ IF x.starts THEN rt' = Started(rt) /\ Record("start", rt.runs + 1)
                ELSE UNCHANGED <<rt, intents>>
             /\ drive' = [Overtaken((IF x.starts THEN {"rt"} ELSE {}) \cup GoalWrite(x.next), 0)
                            EXCEPT ![s] = Again(x)]
        ELSE Refused(s, Again(x))
     /\ UNCHANGED <<mark, runs, late, lease, draining, used>>

-----------------------------------------------------------------------------
(* A leg. *)

SaveRunning(s) ==
  LET x == drive[s]
  IN /\ Planned(s, "held", "launch")
     /\ IF x.lost \/ s \in draining THEN Go(s, Stop(x)) /\ UNCHANGED <<rt, goal, intents, inbox>>
        ELSE IF Current(s)
        THEN /\ Save(s, [rt EXCEPT !.phase = "running"], [x EXCEPT !.pc = "saved"])
             /\ UNCHANGED <<intents, inbox>>
        ELSE Refused(s, Again(x))
     /\ UNCHANGED <<mark, runs, late, lease, draining, used>>

Leg(x, pc, leg) == [At(x, pc) EXCEPT !.at = x.at, !.leg = leg]
\* A bug: nothing ran here, so nothing is charged.
StoredLegFree(x, leg) == Leg(x, "settling", leg)
\* A run that is over already is charged like one that ran here.
StoredLeg(x, leg) == Leg(x, "charging", leg)

\* The launcher (supervisor-native.ts) answers with the stored outcome of a
\* run that is over; a failed one is tried again by a retry only.
Over(r, kind) ==
  \/ native[r] \in {"completed", "cancelled", "stopped"}
  \/ native[r] = "failed" /\ kind # "retry"

Launch(s) ==
  LET x == drive[s]
      r == RunOf(s)
  IN /\ In(s, "saved")
     /\ IF x.lost
        THEN Go(s, Stop(x)) /\ UNCHANGED <<rt, goal, runs>>
        ELSE IF s \in draining
        THEN /\ UNCHANGED runs
             /\ IF x.rtFresh THEN Save(s, [rt EXCEPT !.phase = "dispatching"], Stop(x))
                ELSE Go(s, Stop(x)) /\ UNCHANGED <<rt, goal>>
        ELSE IF exec[r] # Nobody
        THEN Go(s, Leg(x, "charging", "elsewhere")) /\ UNCHANGED <<rt, goal, runs>>
        ELSE IF Over(r, x.copy.kind)
        THEN Go(s, StoredLeg(x, native[r])) /\ UNCHANGED <<rt, goal, runs>>
        ELSE /\ Go(s, Leg(x, "running", "none"))
             /\ native' = [native EXCEPT ![r] = "working"]
             /\ exec' = [exec EXCEPT ![r] = s] /\ ask' = [ask EXCEPT ![r] = "none"]
             /\ UNCHANGED <<rt, goal, ledger>>
     /\ UNCHANGED <<intents, inbox, mark, late, lease, draining, used>>

Spend(s) ==
  /\ In(s, "running") /\ exec[RunOf(s)] = s /\ ledger[RunOf(s)] < MaxSpend
  /\ ledger' = [ledger EXCEPT ![RunOf(s)] = @ + 1]
  /\ UNCHANGED <<store, native, exec, ask, late, lease, drive, draining, used>>

\* An executor that lost the run's lease to nobody may still save its outcome.
LegEnds(s) ==
  LET r == RunOf(s)
      own == exec[r] \in {s, Nobody}
      drained == IF ask[r] = "drain" THEN {"drained"} ELSE {}
      cancelled == IF ask[r] = "cancel" THEN {"cancelled"} ELSE {}
  IN /\ In(s, "running")
     /\ \/ /\ own
           /\ \E leg \in Outcomes \cup drained \cup cancelled :
                /\ Go(s, Leg(drive[s], "charging", leg))
                /\ native' = [native EXCEPT ![r] =
                                IF leg \in {"threw", "drained"} THEN "paused" ELSE leg]
           /\ exec' = [exec EXCEPT ![r] = Nobody] /\ ask' = [ask EXCEPT ![r] = "none"]
        \/ /\ exec[r] # s
           /\ Go(s, Leg(drive[s], "charging", "elsewhere"))
           /\ UNCHANGED <<native, exec, ask>>
     /\ UNCHANGED <<store, ledger, late, lease, draining, used>>

\* The run's lease outlives its dead holder's time.
RunLapses(r) ==
  /\ exec[r] # Nobody
  /\ ~(In(exec[r], "running") /\ RunOf(exec[r]) = r)
  /\ exec' = [exec EXCEPT ![r] = Nobody] /\ ask' = [ask EXCEPT ![r] = "none"]
  /\ UNCHANGED <<store, native, ledger, late, lease, drive, draining, used>>

-----------------------------------------------------------------------------
(* Charging a leg: the run's ledger above its watermark. *)

\* A pass of the charge.
Marking(x, totals, tries) ==
  [Leg(x, "marking", x.leg) EXCEPT !.totals = totals, !.tries = tries]

ReadTotals(s) ==
  LET x == drive[s]
  IN /\ In(s, "charging")
     /\ Go(s, IF x.lost THEN Stop(x) ELSE Marking(x, ledger[RunOf(s)], 0))
     /\ UNCHANGED <<store, runs, late, lease, draining, used>>

\* A bug: a watermark above the totals is not looked at.
ReadMarkBlind(s) ==
  /\ In(s, "marking")
  /\ Go(s, IF drive[s].lost THEN Settling(drive[s])
           ELSE [drive[s] EXCEPT !.pc = "advancing", !.past = late])
  /\ UNCHANGED <<store, runs, late, lease, draining, used>>
\* The watermark, the goal and the clock are read.
ReadMark(s) ==
  LET x == drive[s]
  IN /\ In(s, "marking")
     /\ Go(s, IF x.lost \/ x.totals <= mark[RunOf(s)] THEN Settling(x)
              ELSE [x EXCEPT !.pc = "advancing", !.past = late])
     /\ UNCHANGED <<store, runs, late, lease, draining, used>>

\* The charged goal: the deadline it was found past ends it as it is charged.
Charged(g, more, past) ==
  LET billed == [g EXCEPT !.spent = @ + more]
  IN IF past /\ ~Terminal(g) THEN Ended(billed, "failed") ELSE billed

\* The watermark and the charged goal, written together.  The last conflict
\* gives the charge up, and the leg is settled all the same.
Advance(s) ==
  LET x == drive[s]
      r == RunOf(s)
  IN /\ In(s, "advancing")
     /\ IF x.markFresh /\ x.goalFresh
        THEN /\ mark' = [mark EXCEPT ![r] = x.totals]
             /\ goal' = Charged(goal, x.totals - mark[r], x.past)
             /\ drive' = [Overtaken({"mark", "goal"}, 0) EXCEPT ![s] = Settling(x)]
        ELSE /\ Go(s, IF LastTry(x) THEN [Settling(x) EXCEPT !.gaveUp = TRUE]
                      ELSE Marking(x, x.totals, x.tries + 1))
             /\ UNCHANGED <<mark, goal>>
     /\ UNCHANGED <<rt, intents, inbox, runs, late, lease, draining, used>>

-----------------------------------------------------------------------------
(* Settling a leg: what its outcome means for the intent, the runtime state *)
(* and the goal, decided again after a conflict, MaxConflicts times at most. *)
(* A claim taken since, and a lost lease, end it without a write.           *)

WeighGoal(s) ==
  LET x == drive[s]
  IN /\ In(s, "settling")
     /\ Go(s, IF x.lost THEN Stop(x) ELSE [x EXCEPT !.pc = "weighing", !.seen = goal])
     /\ UNCHANGED <<store, runs, late, lease, draining, used>>

\* A cancel wins over whatever the leg did, and so does a goal that ended.
Outcome(g, leg, verdict) ==
  IF rt.cancel = "asked" \/ (leg = "cancelled" /\ ~Terminal(g)) THEN "cancel"
  ELSE IF Terminal(g) THEN "ended"
  ELSE CASE leg = "elsewhere" -> "elsewhere"
         [] leg \in {"failed", "threw"} -> "retrying"
         [] leg = "drained" -> "drained"
         [] leg = "completed" -> IF verdict = "pass" /\ ~g.accepted THEN "verdict"
                                 ELSE IF verdict = "broken" THEN "stopped" ELSE "done"
         [] leg = "suspended" -> "suspended"
         [] leg = "stopped" -> "stopped"
\* Only a completed leg is judged, once.
Judged(g, leg, verdict) ==
  IF Outcome(g, leg, verdict) = "done" /\ verdict = "unasked" THEN Verdicts ELSE {verdict}

LegGoal(plan, g) ==
  CASE plan = "cancel" /\ ~Terminal(g) -> Cancelled(g)
    [] plan = "verdict" -> Accepted(g)
    [] plan \in {"stopped", "suspended"} -> WaitForHost(g)
    [] plan = "done" -> Complete(g)
    [] OTHER -> NoGoal

LegState(plan, next) ==
  CASE plan = "cancel" -> CancelApplied(rt)
    [] plan = "ended" -> Done(rt)
    [] plan \in {"elsewhere", "drained"} -> [rt EXCEPT !.phase = "dispatching"]
    [] plan = "retrying" -> [rt EXCEPT !.phase = "retrying"]
    [] plan = "verdict" -> rt
    [] plan = "suspended" -> [rt EXCEPT !.phase = "idle", !.retries = 0]
    [] plan = "stopped" -> [WithoutRun(rt) EXCEPT !.phase = "idle"]
    [] plan = "done" -> [WithoutRun(rt) EXCEPT
                           !.phase = IF next # NoGoal /\ Terminal(next) THEN "done" ELSE "idle"]

Weigh(s) ==
  LET x == drive[s]
      held == intents[x.at]
  IN /\ In(s, "weighing")
     /\ IF held.token # x.token \/ held.status \notin OpenStatuses
        THEN Go(s, Stop(x))
        ELSE \E verdict \in Judged(x.seen, x.leg, x.verdict) :
               LET plan == Outcome(x.seen, x.leg, verdict)
                   next == LegGoal(plan, x.seen)
               IN Go(s, [Settling(x) EXCEPT
                           !.pc = IF plan = "drained" /\ held.status = "claimed"
                                  THEN "noting" ELSE "settled",
                           !.plan = plan, !.copy = held, !.verdict = verdict, !.next = next,
                           !.tries = x.tries,
                           !.goalFresh = IF next = NoGoal THEN TRUE ELSE x.goalFresh])
     /\ UNCHANGED <<store, runs, late, lease, draining, used>>

\* A drained run's intent stays open, launched: the next claim resumes it.
NoteLaunched(s) ==
  LET x == drive[s]
      launched == [x.copy EXCEPT !.status = "launched"]
  IN /\ In(s, "noting")
     /\ IF x.copyFresh
        THEN Mark(s, x.at, launched, [x EXCEPT !.pc = "settled", !.copy = launched])
        ELSE Go(s, SettleAgain(x)) /\ UNCHANGED intents
     /\ UNCHANGED <<goal, rt, inbox, mark, runs, late, lease, draining, used>>

\* A bug: judging the leg closes its intent.
ClosesJudged(plan) == plan \notin {"elsewhere", "drained"}
Closes(plan) == plan \notin {"elsewhere", "drained", "verdict"}

\* The verifier's command is saved over the runtime state as it is then.
SettleLeg(s) ==
  LET x == drive[s]
      ok == /\ x.plan # "verdict" => x.rtFresh
            /\ x.next # NoGoal => x.goalFresh
            /\ Closes(x.plan) => x.copyFresh
  IN /\ In(s, "settled")
     /\ IF ok
        THEN /\ SaveWith(s, IF Closes(x.plan) THEN x.at ELSE 0, LegState(x.plan, x.next),
                         IF x.plan = "verdict" THEN SettleAgain(x) ELSE Stop(x))
             /\ intents' = IF Closes(x.plan)
                           THEN [intents EXCEPT ![x.at] = Finished(@)]
                           ELSE intents
             /\ UNCHANGED inbox
        ELSE Refused(s, SettleAgain(x))
     /\ UNCHANGED <<mark, runs, late, lease, draining, used>>

\* The drive is gone, its lease held by nobody if it gives it back; the
\* tokens in use up to the provider's own are numbered again.
Gone(s, holder) ==
  LET inUse == {lease.token} \cup {intents[i].token : i \in Open}
                 \cup {drive[x].token : x \in Supervisors \ {s}}
      below(token) == Cardinality({u \in inUse \ {0} : u <= token})
      rank(token) == IF token <= lease.token THEN below(token)
                     ELSE token - lease.token + below(lease.token)
      copyOf(x) == IF drive[x].copy = NoIntent THEN NoIntent
                   ELSE [drive[x].copy EXCEPT !.token = rank(@)]
  IN /\ lease' = [holder |-> holder, token |-> rank(lease.token)]
     /\ intents' = [i \in DOMAIN intents |-> [intents[i] EXCEPT !.token = rank(@)]]
     /\ drive' = [x \in Supervisors |->
                     IF x = s THEN Idle
                     ELSE [drive[x] EXCEPT !.token = rank(drive[x].token), !.copy = copyOf(x)]]

\* The lease goes back unless it was lost.
EndDrive(s) ==
  /\ In(s, "ending")
  /\ Gone(s, IF ~drive[s].lost /\ Holds(s) THEN Nobody ELSE lease.holder)
  /\ UNCHANGED <<goal, rt, inbox, mark, runs, late, draining, used>>

-----------------------------------------------------------------------------
(* The host, the senders and the world. *)

\* A write from outside any drive.
HostSave(next, state) ==
  /\ rt' = state
  /\ goal' = IF next = NoGoal THEN goal ELSE next
  /\ drive' = Overtaken({"rt"} \cup GoalWrite(next), 0)

\* The working run is asked to stop, if it hears it.
StopRun == IF rt.active = 0 THEN UNCHANGED ask ELSE Asked(ActiveRun, "cancel") \/ UNCHANGED ask

\* The goal may have ended since the host read it.
RequestCancel ==
  /\ rt.cancel = "none" /\ Bounded("command", MaxCommands)
  /\ HostSave(NoGoal, [rt EXCEPT !.cancel = "asked"])
  /\ StopRun
  /\ UNCHANGED <<intents, inbox, mark, native, exec, ledger, late, lease, draining>>

\* A command that ends a goal whose run nobody holds settles that end too.
HostCommand(type) ==
  LET next == Command(goal, type)
      ended == Terminal(next) /\ ~ActiveOpen
      state == IF ~ended THEN rt
               ELSE IF rt.cancel = "asked" THEN CancelApplied(rt) ELSE Done(rt)
  IN /\ next # NoGoal /\ Bounded("command", MaxCommands)
     /\ HostSave(next, state)
     /\ IF Terminal(next) THEN StopRun ELSE UNCHANGED ask
     /\ UNCHANGED <<intents, inbox, mark, native, exec, ledger, late, lease, draining>>

\* resume(): answers a suspended run.  A goal read before its run suspended is
\* not written.
HostResume ==
  /\ rt.active # 0 /\ rt.phase = "idle" /\ rt.cancel = "none"
  /\ Bounded("command", MaxCommands)
  /\ \E next \in {NoGoal} \cup IF goal.status = "waiting" /\ ~late THEN {Active(goal)} ELSE {} :
       HostSave(next, [Dispatching(rt) EXCEPT !.retries = 0])
  /\ Record("resume", ActiveRun)
  /\ UNCHANGED <<inbox, mark, runs, late, lease, draining>>

Deliver(e) ==
  /\ inbox[e].as = "none" /\ \A earlier \in 1..(e - 1) : inbox[earlier].as # "none"
  /\ inbox' = [inbox EXCEPT ![e] = [as |-> "pending", dated |-> goal.waits]]
  /\ UNCHANGED <<goal, rt, intents, mark, runs, late, lease, drive, draining, used>>

DeadlinePasses ==
  /\ HasDeadline /\ ~late /\ late' = TRUE
  /\ UNCHANGED <<store, runs, lease, drive, draining, used>>

\* The process dies; its leases are left to lapse.
Crash(s) ==
  /\ ~In(s, "idle") /\ Bounded("crash", MaxCrashes)
  /\ Gone(s, lease.holder) /\ draining' = draining \ {s}
  /\ UNCHANGED <<goal, rt, inbox, mark, runs, late>>

\* drain(): marks the run it works on and asks it to stop.
Drain(s) ==
  /\ s \notin draining /\ Bounded("drain", MaxDrains)
  /\ draining' = draining \cup {s}
  /\ IF In(s, "running") /\ ~drive[s].lost
     THEN /\ IF rt.phase = "running" THEN HostSave(NoGoal, [rt EXCEPT !.phase = "draining"])
             ELSE UNCHANGED <<rt, goal, drive>>
          /\ Asked(RunOf(s), "drain")
     ELSE UNCHANGED <<rt, goal, drive, ask>>
  /\ UNCHANGED <<intents, inbox, mark, native, exec, ledger, late, lease>>

\* A drained process ends; another takes its place.
Replaced(s) ==
  /\ s \in draining /\ In(s, "idle") /\ draining' = draining \ {s}
  /\ UNCHANGED <<store, runs, late, lease, drive, used>>

-----------------------------------------------------------------------------
\* submit(): with a first run to start, or without.
SupervisorInit ==
  /\ \E starts \in BOOLEAN :
       /\ goal = [status |-> "active", waiting |-> "none", waits |-> 0, accepted |-> FALSE,
                  run |-> IF starts THEN 1 ELSE 0, spent |-> 0]
       /\ rt = [phase |-> IF starts THEN "dispatching" ELSE "idle",
                runs |-> IF starts THEN 1 ELSE 0, retries |-> 0, cancel |-> "none",
                active |-> IF starts THEN 1 ELSE 0]
       /\ intents = IF starts
                    THEN <<[kind |-> "start", run |-> 1, status |-> "pending", token |-> 0]>>
                    ELSE <<>>
  /\ inbox = [e \in Entries |-> [as |-> "none", dated |-> 0]]
  /\ mark = [r \in Runs |-> 0] /\ ledger = [r \in Runs |-> 0]
  /\ native = [r \in Runs |-> "absent"]
  /\ exec = [r \in Runs |-> Nobody] /\ ask = [r \in Runs |-> "none"]
  /\ late = FALSE /\ lease = [holder |-> Nobody, token |-> 0]
  /\ drive = [s \in Supervisors |-> Idle] /\ draining = {}
  /\ used = [event \in {"command", "crash", "lapse", "restart", "drain"} |-> 0]

Step(s) ==
  \/ ReadGoal(s) \/ Decide(s) \/ Claim(s) \/ CloseIntent(s)
  \/ SaveCancel(s) \/ SaveEnded(s) \/ ApplyTime(s) \/ LinkRun(s) \/ SettleInbox(s)
  \/ ScheduleRetry(s) \/ ResumeRun(s) \/ StartRun(s) \/ Supersede(s)
  \/ SaveRunning(s) \/ Launch(s)
  \/ ReadTotals(s) \/ ReadMark(s) \/ Advance(s)
  \/ WeighGoal(s) \/ Weigh(s) \/ NoteLaunched(s) \/ SettleLeg(s) \/ EndDrive(s)

Host ==
  \/ RequestCancel \/ HostResume
  \/ \E type \in {"wait", "resume", "fail"} : HostCommand(type)
  \/ \E e \in Entries : Deliver(e)

SupervisorNext ==
  \/ \E s \in Supervisors :
       \/ Acquire(s) \/ Step(s) \/ Spend(s) \/ LegEnds(s)
       \/ NoticeLoss(s) \/ HearCancel(s) \/ Crash(s) \/ Drain(s) \/ Replaced(s)
  \/ \E r \in Runs : RunLapses(r)
  \/ Lapse \/ Expire \/ ProviderRestarts \/ DeadlinePasses \/ Host

SupervisorSpec == SupervisorInit /\ [][SupervisorNext]_supVars

\* Supervisors tick again and again and a drive goes on with its steps; runs
\* end; renewals find what was lost; what the dead held lapses.  Commands,
\* faults and deadlines need not come.
SupervisorFairSpec ==
  /\ SupervisorSpec
  /\ WF_supVars(\E s \in Supervisors : Acquire(s)) /\ WF_supVars(Expire)
  /\ \A s \in Supervisors :
       /\ WF_supVars(Step(s)) /\ WF_supVars(LegEnds(s))
       /\ WF_supVars(NoticeLoss(s)) /\ WF_supVars(Replaced(s))
  /\ \A r \in Runs : WF_supVars(RunLapses(r))

-----------------------------------------------------------------------------
\* A state that says a run is on its way names an open intent for it, unless
\* the goal is over or about to be: what a crash leaves between two writes is
\* found again (the reason intents exist, store-shared.ts and
\* supervisor-drive.ts).
WorkIsNamed ==
  rt.phase \in {"dispatching", "running", "draining"} =>
    ActiveOpen \/ rt.cancel = "asked" \/ Terminal(goal)

\* Who writes that a goal completed has charged all that the run spent, also
\* after the drive that ran it was lost, or met MaxConflicts conflicts in the
\* charge: then the goal ends uncharged (supervisor-drive.ts:1376-1417).
ChargedBeforeItCompletes ==
  [][\A s \in Supervisors :
       In(s, "settled") /\ drive'[s] # drive[s]
         /\ goal.status # "completed" /\ goal'.status = "completed" =>
       drive[s].gaveUp \/ mark[RunOf(s)] = ledger[RunOf(s)]]_supVars

\* The goal as its host sees it behaves as GoalContract says.
Contract ==
  INSTANCE GoalContract WITH
    status <- goal.status, cancel <- rt.cancel, begun <- rt.runs,
    entries <- [e \in Entries |-> inbox[e].as],
    spent <- ledger, charged <- mark, bill <- goal.spent
KeepsContract == Contract!ContractSpec

\* When commands and faults cease, every cancel is applied, every event
\* settled, every run on its way over, and no lease is held (the reason a host
\* only has to tick, goal-runtime.mdx).
EverythingSettles == <>[](~Wanted /\ lease.holder = Nobody)

=============================================================================
