# Verification of the Deuz SDK's durable core

This directory holds TLA+ models of the parts of the SDK
(`src/packages/core/src`, paths below are relative to it) whose correctness
depends on order, failure and time: what several processes share, what survives
a crash, and what a client may be told before it is stored. TLC checks the models
on small instances; TLAPS proves some of the results for every value of the
constants. `PROJECT.json` lists every component, run, mutant, hazard and theorem,
and maps each definition to the lines it stands for.

## 1. The system

The SDK is a library. A process calls it; several processes of one deployment
meet only in stores and in a lease provider. Its parts:

| Part | State it keeps | Operations | What makes it hard |
|---|---|---|---|
| Budget store (`budget-store.ts`) | requests, history rows per (scope, bucket, model), totals, newest bucket | reserve, settle, release, prune, sweep | a sweep works from a page it read before; prune folds rows admission may still need; a clock that steps back |
| Budget ledger (`budget-ledger.ts`) | records of attempts, aggregates of finished scopes, last snapshot | reserve, adopt, reserveMany, settle, settleUsage, markUnknown, release, compact | lost answers of the store, failed snapshot writes, crash and restore, batches refused half way, prices that arrive late |
| Leases (`ops.ts`) | per key: owner, token, expiry, queued signals | acquire, renew, release, signal, ack, prune | stale leases, lapses, retention of a key, signals that outlive or must not outlive a holder |
| Native run lease (`internal/agent-run-lease.ts`, held by `agent-run.ts`) | lease, cancel found or consumed, draining, lost | claim, first renewal, heartbeat, collect, assertHeld, release | a renewal answering late, an executor cut off, a cancel delivered and not yet recorded |
| Durable stream response (`internal/durable-journal.ts`, `stream-durable.ts`, `internal/durable-stream.ts`, SSE shell of `ui.ts`) | queue, batch in flight, tail, heartbeat; stored stream: fence and records | open, push, flush, commit, end, halt, give back | publish only what is stored; a stale producer; one commit in flight; what waits for whom at the end |
| Durable goal scheduler (`goal/runtime/scheduler.ts`, schedule part of `store-shared.ts`) | schedules with cursor and open window, occurrence records, inbox | tick; put, pause, resume, cancel | concurrent ticks, steps retried after a lost answer, catch-up over several ticks and changes, fairness between backlogs |
| Durable agent runs (`agent-run.ts`) | run records, legs, receipts | run, resume, save, end | everything between two saves; saves of a stale executor |
| Goal supervisor and store (`goal/runtime/supervisor*.ts`, `store-shared.ts`, `goal/transition.ts`) | goal, runtime state, intents, inbox, watermarks; a drive's view of them | submit, tick, drive step by step, launch, charge, verify, settle, drain; cancel, commands, resume, deliver | reads that belong to different moments; a crash between intent and launch; a host that writes under a drive; claim tokens when the provider counts again |
| Swarm (`swarm/scheduler.ts`, `spawn.ts`, `store.ts`) | run and task records; an executor's copy, its slots and its queue of commits | run, resume, claim, dispatch, start, save, finish, skip, settle, release; request a cancel, drain | tasks that end while other commits are queued; a successor's commits; signals between a check and the commit it decides; a failure while tasks still run |
| Agent and tool loop (`inference/`) | messages, pending calls, checkpoints | step, call, approve, hand off, stop | parallel calls, suspension, resume after an uncertain effect |
| Batch client (`batch/`) | jobs, held budgets | submit, poll, results, settle | a submission failing at an unknown point |
| Conditional chat store, replay and reconnection (`chat-conditional.ts`, `ui.ts`) | chat revisions; a client's cursor | update on a revision, replay, resume | conflicts, tombstones, resuming a stream still being written |
| Versioned memory, realtime sessions, compute sandbox, evolution | their own records | see `PROJECT.json` | candidates for later work |
| Providers, adapters, generation, media, context, retrieval, schemas, observation, protocol servers, database backends, React | - | - | data shaping and I/O; not state machines worth a model |

How the modelled parts interact: the ledger calls the store (a refinement below
says it calls nothing but its operations); a run and a stream response each hold
a lease of the provider and use its token as a fence in their own store; the
scheduler and the goals meet in the inbox, whose transactions the store makes
atomic. Callers of different processes share nothing else.

### What must hold

- *Store*: counters are what the records owe; admission counts exactly the
  window; pruning never changes either; a closed request stays closed; a sweep
  closes only what is stale, and closes all of that in the end.
- *Ledger*: it and the store agree on what is held, through any lost answer or
  crash; an answer given to a caller survives; no bound is ever exceeded;
  compaction is invisible.
- *Leases*: one holder at a time as far as holders can tell; only the last lease
  of a key counts; a cancel is never lost, a drain never reaches the wrong holder.
- *Runs*: an executor that lost its lease stops; an ended run stays ended; a
  cancel takes effect or stays queued.
- *Streams*: a client holds nothing the store lacks; the wire keeps the order;
  what an earlier holder of the key commits after a later one opened the stream is
  refused; after `[DONE]` the next leg finds the lease free.
- *Goals*: a host sees one contract (`GoalContract`) whatever the number of
  supervisors and their faults: an ended goal stays ended, a cancel is applied
  once, an event is used once and only while waited for, each unit of spending is
  charged once at most, and before its goal completes; work a crash leaves is found again; everything comes to rest.
- *Swarms*: a manual task's effect does not begin twice unasked; a run given back
  has nothing running; what settled agrees with its tasks; a cancel reaches the next executor;
  results stay.
- *Schedules*: each occurrence is delivered once, none is forgotten, "latest"
  delivers the newest of its window, a cancelled schedule is quiet, no backlog
  starves another schedule.

## 2. Modules

    BudgetStore  <--(refined by the store calls of)--  BudgetLedger
        |                                               MCBudgetLedger, BudgetLedgerProofs
    MCBudgetStore, BudgetStoreProofs

    LeaseProvider  <--EXTENDS--  RunLease  (MCRunLease)
        |          <--EXTENDS--  DurableJournal  (MCDurableJournal)
    LeaseProviderProofs  <--EXTENDS--  RunLeaseProofs, DurableJournalProofs

    GoalContract  <--(implemented by)--  GoalSupervisor  (MCGoalSupervisor, GoalSupervisorProofs)
    GoalScheduler  (MCGoalScheduler, GoalSchedulerProofs)
    SwarmExecutor  (MCSwarmExecutor, SwarmExecutorProofs)

An `MC...` module only gives constants their values. An operator that no action
uses and whose name is another's with a suffix (`FoldableRowsHeld`,
`CommitAnswerAnywhere`, `RotatedNot`, ...) is a mutated form of it: every property
of a passing run has such a plausible bug that makes TLC find it violated.

**BudgetStore.** `requests`, `rows`, `totals`, `newest`, `windows` are the maps of
`createInMemoryBudgetStore`; `now` is its clock. Each store method is one action
(the methods are synchronous); `sweep` is three, `SweepBegin`, `SweepRead`,
`SweepClose`, because it awaits a page and the resolution of each hold. Tokens and
USD are decided alike, so one dimension stands for both. `archive` and `prunedAt`
are ghosts: what prune forgot.

**BudgetLedger.** `entries` and `aggs` are the ledger's records and the aggregates
of compacted scopes, `op` the operation at the head of its queue and the await it
stands at, `disk` the last snapshot, `holds` the store. An operation is the
sequence *decide - ask the store - save* the code runs; between two steps a sweep
may close holds, the answer may be lost with or without effect, a write may fail
(the ledger is then poisoned), the process may die and restore `disk`. Closing is
tried `CloseAttempts` = 3 times. Left out: budgets tightened on restore, several
sinks, subtree snapshots, warnings.

**LeaseProvider.** `row` is the key's entry in the provider's map. `issued` lists
every lease handed out, so a grant can be used at any later time; `believed` is
the expiry each holder last saw (a lost answer leaves it behind). `owed`, `era`,
`drainFor` are ghosts. One key: keys do not interact.

**RunLease.** `ex[e]` is what one executor holds in memory: where it is
(`claimed`, `reading`, `collecting`, `driving`, `committing`, `settling`,
`stopping`, `returning`), its lease, the cancel it found (`kept` queued by a
provider that acknowledges, `consumed` by one that does not) and the renewal in
flight, whose effect and answer are two steps. `stored` is the run in its store
under the revision fence. The work of a run is abstracted to when it saves, ends
or is suspended. A caller's own abort signal, `reconcileAgentRun`, `retryFailed` and a
resume that stops again before its first write (an approval or a client's result still
missing, an effect nobody reconciled; `agent-run.ts:1554-1628`) are left out.

**DurableJournal.** `leg[p]` is one producer's response: opening (take the lease,
open the stream, and, when fenced off by a token from before the key was pruned,
renew, reopen above it and renew again), producing (queue, batch in flight, window timer, heartbeat),
ending (drain, give the lease back, then write the tail) and halted. `stream` is
the stored stream. A stale commit may land at any moment before its answer.

**GoalScheduler.** `sched[id]` is the stored schedule (cursor, open window,
revision), `tick[x]` the state of one scheduler's tick: the queue of the round,
the next round, the deliveries left, the scan left, conflicts so far. A step is
planned (`Plan`) from the schedule listed and committed in one transaction that
compares revision and cursor; it may conflict or fail either way. A host's change
reads the clock (`Put`, `Pause`, ...) before it lands (`Lands`). Cron, zones and
daylight saving are pure functions of the calendar and abstracted to "every n
minutes". The schedules of a round come in the order of `Rotated`: the active ones
after the schedule served last, then those up to it. `hungry` counts, for each
scheduler and schedule, the ticks in a row that left it due without a turn;
`Reordered` starts the count again when a schedule stops being active, because the
rotation then may start over (see the findings).

**GoalSupervisor.** `goal`, `rt`, `intents`, `inbox`, `mark` are the records of the
goal store; `native`, `exec`, `ask`, `ledger` what the native run store, the
executor that holds a run, its lease's signals and its ledger hold; `lease` is the
goal's lease row. `drive[s]` is one supervisor's drive: which read or write it
stands at and whether what it read is still what is stored (the store compares
revisions; a revision is kept as that bit). A step of `driveOnce` is `ReadGoal`,
then `Decide` on what is read after it, then one write; a launched run is run to
its end by the same process, charged (`ReadTotals`, `ReadMark`, `Advance`), judged
(`Weigh`) and settled (`SettleLeg`). A charge reads the watermark, the goal and the
clock and writes the watermark together with the goal; the goal ends as failed in
that same write when its deadline had passed (`Charged`). Charges and settlements
count their conflicts (`tries`): at `MAX_CONFLICTS` (the constant `MaxConflicts`) a
settlement ends its drive, and the next tick finds the leg again; a charge is given up
(the ghost `gaveUp`) and its leg settled all the same, which nothing bills afterwards
(see the divergences). Left out: budget, wakeup and dependency
waits, spec generations, working memory, a run's maintenance, policy updates,
retry delays, `notBefore` and expiry of entries, and the caps of the drive's own loop
on steps and conflicts (`MAX_STEPS`, and `MAX_CONFLICTS` in `driveGoal`), which end a
drive that the next tick goes on with. Slots of closed intents are
used again, and lease tokens are ranked at the end of a drive: only their order
matters.

**GoalContract.** What `docs/content/docs/modules/goals.mdx` and
`goal-runtime.mdx` promise a host: how status, cancel, runs, events, spending and
bill may change, and what changes together. `GoalSupervisor` implements it
(`KeepsContract`) under the refinement mapping next to that property.

**SwarmExecutor.** `run` and `task` are the stored records, `ex[e]` an executor's
copy of them, its slots (`work`: where each dispatched task stands) and the queue
in which its commits wait for one another. One commit is one `Write`: taken if
nobody else committed since, refused, in conflict, or failed with or without
effect. The lease row is that of `LeaseProvider` with the clock abstracted to
"live or lapsed". Left out: versions of definitions and bindings, policy, budget
and accounting commits, depth and per-parent limits, the blackboard, runs without
a lease, pruning.

## 3. Runs

| Run | Instance | What it shows |
|---|---|---|
| `store` | 2 requests on an organisation with a lifetime limit and a user with a window of two buckets, clock 0..3 that may step back, prune, sweeps that read one hold a page | `TotalsMatchHistory`, `AdmissionCountsWhatIsOwed`, `HeldRowsKept`, `ClosedIsFinal`; liveness `StaleHoldsClose` |
| `ledger` | two attempts, one unpriced and unaccounted, in nested scopes, alone, adopted or in a batch refused half way; 3 faults (a close is tried 3 times), a crash, a sweep, a child compacted | `AnswersAreDurable`, `ClosedHereClosedThere`, `HoldsMatchRecords`, `FoldingKeepsAccounts`, `AdmittedWithinEveryBound`, refinement `UsesTheStore` |
| `run_lease` | 2 executors under names used before, 2 grants, ttl 1, both kinds of provider, one failed call, one crash, one prune, a cancel or a drain, fair heartbeats | `DrainConcernsTheHolder`, `CancelSurvives`, `DrivesAlone`, `HolderIsAlone`, `OnlyTheLastLeaseCounts`, `EndedIsFinal`; liveness `StaleDriverStops`, `CancelStops` |
| `journal` | 2 producers, clock to 3, a prune, a stream that is new or fenced above the provider's tokens; calls that take effect late | `PersistBeforePublish`, `EndMeansFree`, `OneLegAtATime` |
| `journal_live` | 1 producer, transient frames, two frames, a failed call, a client that leaves, a crash, a prune | `WireKeepsOrder`; liveness `EverythingIsCommitted`, `EndedLegCloses`, `StaleProducerStops` |
| `journal_shared` | 3 producers over a stream fenced above their tokens, no prune and no fault | violates `StaleCommitIsRefused`: see the findings |
| `scheduler` | 2 schedulers on one schedule, or 1 on two schedules of every mode with one delivery a tick and a scan shorter than the backlog; 3 changes, a fault, a crash, an applied entry, a prune, at most 3 of them together | `DeliveredOnce`, `NothingForgotten`, `CancelledIsQuiet`, `LatestDeliversTheNewest`, `TurnsAreFair` |
| `supervisor` | 2 supervisors, one run without a retry, an event, a host command, a deadline, a lapse under a live drive, a run that completes or fails and spends, 2 conflicts that end a charge or a settlement | `WorkIsNamed`, `ChargedBeforeItCompletes`, refinement `KeepsContract` |
| `supervisor_live` | 1 supervisor, a crash, a drain, a provider that counts again, a host command, an event, one run with one retry that completes, fails or is suspended and a verifier that is not content | liveness `EverythingSettles` |
| `swarm` | 2 executors, a run started twice under its key, 2 roots that each spawn a task when one place is left (one of the two needs the other root, one comes after it), an agent's task that is not replay-safe; any 2 of a cancel, a drain, a resume, a failed call, a crash, a lapse; both kinds of provider | `StoppedIsQuiet`, `SettledAgrees`, `SpawnsFit`, `CancelIsHandedOn`, `ResultsStay` |
| `swarm_cancel` | 1 task, 2 executors, a run started twice under its key, a cancel, a crash, a provider that acknowledges | violates `CancelIsKept`: see the findings |
| `swarm_twice` | 3 independent tasks, two at a time, 1 executor, no failure | violates `EffectsAreAllowed`: see the findings |

**Why the bounds are enough.** Each bound is the least at which every action
fires and every property can be broken by its mutant, plus what the hazard needs:
two processes for a race, a prune between two leases of one key, three
faults because closing retries three times, a window that spans two buckets with a
clock that leaves it, a scan limit and a delivery limit that both cut a step, a
page smaller than what is stale. `MaxCrashes` is 0 in `journal`: in a safety run a
producer that never acts again is already an interleaving. Failed calls and the
crash are in `journal_live`, where one producer meets them with every frame and
timer; what a second producer adds is order, which is what `journal` is about. In
`run_lease` one call fails, one executor dies and one prune restarts the key: a
driver that lost the key stops after each of them. A provider that fails for ever is in
no run; it would leave the executor to its own clock (`agent-run-lease.ts:219`).
`DrivesAlone` says that two executors inside what each was last promised never meet. It
takes that check as given and would not find it broken: `StillBelieved` is its
hypothesis.
`supervisor` is about two drives, a host and a deadline on one run, `supervisor_live` about
what one process leaves behind and the next finds; each leaves out the other's
events: spending and the deadline are in `supervisor` only, a retry and a drain in
`supervisor_live` only. So `WorkIsNamed` is checked without crashes and without a provider that counts
again; for those it rests on the theorem `WorkStaysNamed`, which has no such bound.
`MaxConflicts` is 2 there and 5 in the code: a first conflict that is tried again and a
last one that gives up, which a lapsed lease, a host's command and an event bring
together. One
conflict more would only repeat the first. `scheduler` and `swarm` bound how many of the rare events come together
(`MaxEvents`, `MaxTroubles`), not which. `swarm` never has three ready tasks with
two running: with them the executor dispatches a task twice (`swarm_twice`), and
what follows from that one flaw could not be told from a flaw of its own. Two of the
run's properties fail with it there: the second of two ends of a task dispatched
twice overwrites the first (`ResultsStay`: `commitFinish`,
`swarm/scheduler.ts:466-480`, does not look at the status it replaces), and both
ends reserve the same children, so that the store refuses the second commit and the
run ends here (`SpawnsFit`). What is proved of `swarm` (section 4) does not
depend on that bound. In `swarm` only the agent's task needs somebody's word to run
again, and a second `run()` of the key is among what happens. `CancelIsHandedOn` also
holds of one task with any three of the rare events and two cancels, an instance of 8.9
million states that is not kept as a run. The ledger without a store (`Admission =
FALSE`) and prices that are settled as none are in the model and in no run.
Deadlock is not checked: every system here may run out of its bounded work.
Owners, executors, producers and schedulers are names that are only compared, so
the safety runs over several of them use symmetry; no liveness run does.

**Fairness.** `StoreFairSpec`: a deployment runs `sweep` again and again, and a
sweep's own calls return; nothing forces a caller to close a hold. `FairRunSpec`:
an executor's heartbeat timer fires and its calls answer, what it started it goes on
with (claim, first renewal, read, collect, and at the end the commit and the
release), and a run that was aborted reaches its next check (`Decide` under
`Aborted`); nothing forces a run to end. `SupervisorFairSpec`: some supervisor ticks again and again, a drive goes
on with its steps, runs end, renewals find what was lost, a drained process is
replaced and what the dead held lapses; commands, events, faults and the deadline
need not come. `FairJournalSpec`: timers fire and calls answer (`Steps`, `Heart`); nothing
forces a source to make a frame or to end. The clock is never forced: a liveness
property holds whether or not it moves.

**Findings.** `journal_shared`: After a prune restarted the tokens, a producer A
whose token is below the stored fence F derives F + 1 (`internal/durable-journal.ts:141`).
Its lease lapses, and the key is granted until a producer C has the token F + 1 of its
own, without a producer in between having opened the stream (one that took the key and
died, or whose open is late, is enough). C opens the stream with a token that is not
below the stored one, so it derives nothing: A and C share a fence, and the store takes
A's commit after C opened, although `:146-147` says "a later holder then finds this
fence stored and derives a higher one" and `types/stream-durable.ts:6-7` "a stale
producer's commit is refused". What still stands between them is the check of the next
seq: `LegsDoNotInterleave` holds, and one of the two meets a conflict and fails closed.
`OlderFenceIsRefused` is the promise with exactly this case taken out.

`swarm_twice`: `swarm/scheduler.ts:789` looks for pending tasks in the executor's
copy, where a dispatched task stays `pending` until the commit that starts it was
taken. That commit waits behind others; when another task ends meanwhile, the loop
comes around, finds the task pending and a slot free, and dispatches it again: its
effect runs twice in one process without any failure, although
`types/swarm.ts:35` says a manual task "never repeats interrupted work without
explicit authorization". What follows from it is more than a repeated effect: the
later of the two ends overwrites the earlier, a completed task may become failed, and
children that both ends reserved make the store refuse the later one. The same window
lets a skip that was decided while the start was queued cancel a task that has begun.

`swarm_cancel`: a second `run()` under a key whose run is suspended, with a cancel
queued for it, acknowledges that cancel (`swarm/scheduler.ts:1017`) and only then tries
to create the run, which the store refuses. The catch block puts the cancel back
(`:1024`); a crash in between leaves the run suspended and the cancel nowhere,
although `types/swarm.ts:414-416` says "a signalled cancel outlives its holder" and
`:1023` of the path itself "The key may belong to an existing run, whose queued
cancel stays queued." So does an acknowledgement that took effect and whose answer is
lost, since it is then not among what is put back. A resume loses a cancel in the same way
(`:1064-1070`): an executor whose lease lapsed commits its claim of a completed run all
the same, because only the revision is checked; the cancel is then signalled to the holder
that took over, whose copy still says completed, and it acknowledges the cancel as
moot. Its own claim then conflicts and `restore` puts the cancel back, unless the process
dies first or that signal fails; against `:190-192` as well. `CancelIsHandedOn`, which
the passing run checks, is the promise with exactly these claims (`MootClaim`) taken
out: whatever else happens to a drive, a cancel that was signalled stays on its way until the
run recorded it or settled past it.

**Divergences met while modelling, not backed by a run.** The models follow the
code.

- `budget-store.ts:408`: a sweep counts a close that found the hold already
  closed as its own; `types/budget-store.ts:209` describes the counts otherwise.
- `budget-store.ts:137`: a window of `buckets * ceil(ms / buckets)` may exceed the
  `ms` of `types/budget-store.ts:14-16`.
- `budget-ledger.ts:1167`: a batch refused by the ledger's own bounds withdraws
  without asking the store about a hold a lost answer may have left, against
  `:613-616`.
- `ops.ts:55`: a key that was pruned counts from token 1 again, so an old lease
  of the same owner and token is renewed; `types/lease.ts:78-79`.
- `internal/agent-run-lease.ts:255`: a cancel that arrives between the first
  renewal and the decision on it is acknowledged with it, against `:10-12`.
- `internal/agent-run-lease.ts:271`: a consumed cancel put back after the lease
  lapsed is refused by the provider, against `:88-90`.
- `internal/durable-journal.ts:141`: an older producer that reopens above the
  stored token fences off its successor for a moment, against
  `types/stream-durable.ts:34`; the renewal after it makes the older one give up.
- `internal/durable-journal.ts:128`: a released key pruned at once restarts the
  tokens while streams keep theirs, against `types/stream-durable.ts:115-116`.
- `internal/durable-journal.ts:283`: a renewal in flight when `end()` starts (the
  loop looks at `ended` before the call, not after its answer), answering "not held"
  because the lease just lapsed or was given back, halts the journal after its tail:
  the client reads `[DONE]` and then an error frame, against
  `types/stream-durable.ts:98-99` and `ui.ts:1002-1003`. What is stored is complete.
- `goal/runtime/scheduler.ts:550-551`: the rotation starts over at the first schedule
  when the one served last is no longer active. With three schedules, one with a
  backlog that takes every delivery of a tick, and a host that pauses and resumes
  whatever was served last, the third may wait for ever, against `:256-257` ("one
  backlog never starves the others"). `TurnsAreFair` counts from the last time a
  schedule stopped being active.
- `goal/runtime/supervisor-drive.ts:243`: an event is settled as unmatched when a
  host's wait commits between the load of the goal and that of the inbox, against
  `docs/content/docs/modules/goals.mdx:316`.
- `goal/runtime/supervisor-drive.ts:16-19` says a drive that lost its lease writes
  nothing more; one that has not yet noticed still writes, and the store's
  revisions are what stops it.
- `goal/runtime/supervisor-drive.ts:1376-1417`: after `MAX_CONFLICTS` conflicts in a row
  (a host that commands the goal, or another drive, commits between each read and its
  write) `charge` returns as if it had charged; `settleLeg` then closes the intent and
  may complete the goal, and no later tick bills that run. Against
  `docs/content/docs/modules/goal-runtime.mdx:270-274` (the totals "above the run's
  watermark are charged to the goal once") and `goal/runtime/supervisor.ts:8` ("exactly
  once"); the comment at `:64` says a drive then "gives up until the next tick", which is
  so for a step and for a settlement and not for a charge. What holds is at most once
  (`KeepsContract`), and before the goal completes unless the charge was given up
  (`ChargedBeforeItCompletes`, which fails on the instance of `supervisor` when that
  exception is taken out of it).
- `swarm/scheduler.ts:828`: a cancel ordered between the last check and the settling
  commit leaves a run completed or suspended with its cancel recorded; and a start
  that waits behind a recorded cancel still begins its effect, with a signal that
  is aborted already.
- `budget-store.ts:401`: a sweep may close a hold that is not stale, when prune
  forgets its id during the await and the id is reserved again.
- `goal/runtime/scheduler.ts:716`: `effectiveFrom` is read before the put commits,
  so a put may take effect earlier than `store-types.ts:282-286` says.

## 4. Proofs

`BudgetStoreProofs`, `BudgetLedgerProofs`, `LeaseProviderProofs`, `RunLeaseProofs`,
`DurableJournalProofs`, `GoalSchedulerProofs`, `GoalSupervisorProofs` and
`SwarmExecutorProofs` prove, for every value of the constants that satisfies the modules'
named assumptions (`StoreAssumption`, `LedgerAssumption`, `LeaseAssumption`,
`RunAssumption`, `JournalAssumption`, `SchedulerAssumption`, `SupervisorAssumption`,
`SwarmAssumption`), what follows. The bounds on clocks, faults and crashes are
constants like others: no proof depends on how large they are. `StoreAssumption` says
that a request names finitely many scopes: it names them in an array.
`LedgerAssumption` says of what a ledger is given what the code checks when it takes it:
amounts and limits are natural numbers or absent (`amounts` and `limits`,
`budget-ledger.ts:73-108`), an attempt without a price has no USD estimate (`:562-566`),
the scopes of a chain are distinct (`:145`), the attempts of a batch are distinct
(`:1113`), and an id names one attempt with one chain (`sameReservation`, `:588-598`).
`Whole`, the ledger itself as a bound, is a name no scope has.

**Store.**

- `StoreShape`: every variable of the store keeps its shape: records are charged to
  the keys of their input, rows are named by key, bucket and model. One lemma per
  operation.
- `StoreHeldRows`: `HeldRowsKept`. It is not inductive alone: it needs `ShapeOK`, and
  two facts: no operation but prune removes a row, and `FoldableRows` excludes every
  bucket an open hold charges.
- `StoreAccounts`: the inductive `Accounts`, checked by TLC on the instance of `store`
  before it was proved. Per key and per bucket `b`, the history from `b` on is no less
  than what the records charged from `b` on owe, and equal when `b` is in the window
  at the last prune (`CountsOK`): an equality for every `b` is false after a fold, which
  moves amounts from older buckets into newer ones. A fold lowers nothing only because
  no row is negative, which needs that each row covers the open holds that will adjust
  it (`HeldOK`). Records must be told apart from the ones prune forgot before a sum over
  both means anything: generations do that (`Named`).
- `StoreTotals` (`TotalsMatchHistory`), `StoreAdmission` (`AdmissionCountsWhatIsOwed`)
  and `StoreWithinLimits` (no request is admitted beyond the limit of any of its scopes,
  by what the records owe) follow from `Accounts`. The last one holds also when the
  clock steps back; `StoreAdmission`'s equality is from the last prune on, as the
  property says.
- `StoreClosed`: `ClosedIsFinal`, by cases on what settling and releasing do.

**Ledger.** A record, the last snapshot and the store's hold of one attempt change at
three different moments, and a failure can come between any two of them.

- `LedgerStands`: the inductive `LedgerInv`, checked by TLC on the instance of `ledger`
  before it was proved. `OpFits` says what the running operation may rely on: that the
  attempt it admits is new, that the record it closes is the one it read, which of a
  batch's holds were made (`Made`) and, once the batch is being undone, which were given
  back (`Returned`). `Steady` ties the snapshot to the ledger: they differ only while a
  save runs or after one failed, and then nothing runs any more. `ClosedOK`, `LiveOK`
  and `FoldedOK` each speak of the ledger *and* of the snapshot, because a restart makes
  the second the first. `Strays` accounts for each hold nobody recorded: its answer was
  lost, its batch is under way, or a sweep closed it. One lemma per action; a batch
  needs what its admissions and its undoing keep at every position (`Fits`, `Undone`).
- `AnswersSurvive`: `AnswersAreDurable`, from `Durable`, which says it of the ledger and
  of the snapshot: an answer is given after the write, and a record folded since is no
  further back than the answer (`Covers`).
- `ClosedTogether` (`ClosedHereClosedThere`) and `HoldsFitRecords` (`HoldsMatchRecords`)
  follow from `ClosedOK`, `LiveOK` and `Strays`. Neither is inductive: what the next
  restart will find is in the snapshot.
- `FoldsStand`: the inductive `LedgerFolds`. Every aggregate is the sum of the records
  folded into it (`SumsUp`): their charges, how many hold no amount or have no price, and
  per scope the tightest budget any of them named. It speaks of the ledger and of the
  snapshot, says that both are finite, so that a sum over them means something, and that
  a record is folded into the aggregate of what remains of its chain or was dropped with
  nothing charged to it. `CompactFolds` is the step: records and aggregates that meet
  under one chain are added up (`FoldedInto`, `MoreSumsUp`).
- `FoldedTruly` (`FoldingKeepsAccounts`) follows: what a bound commits, what it fails
  closed for and its tightest budget are those of every record ever charged to it.
- `AdmissionStands`: the inductive `OpAdmitted`. The ledger decides, then waits for the
  store, and records only afterwards, a batch after as many answers as it has attempts
  and perhaps after undoing some. What it says for the waiting operation is that each
  attempt fits every bound of its chain after the ones before it (`InTurnPassed`), by the
  accounts as they are now, folded records included: not by those the decision was made
  on, which a save, an undo or a restart may have left behind.
- `AdmittedWithin` (`AdmittedWithinEveryBound`): an attempt is recorded under that
  promise, and what is recorded is charged no more than what was promised
  (`MarksLess`); a batch is recorded in one save, so the last attempt that names a scope
  carries the budgets of all before it.
- `StoreIsKnown`: the inductive `StoreKnown`. Every hold of the store is of an attempt,
  with its estimates, and the ledger settles only with amounts its callers gave it, those
  it restored included; so every step leaves the store alone or is one call of it
  (`StoreMoves`).
- `TokensUseTheStore` (`UsesTheStore`): in tokens, the store behind the ledger is the
  admission store of `BudgetStore`. One lemma per call: `ReserveRefines` (a new hold is
  decided, charged to the history row and recorded as `Reserve` does, `FitsAlike`,
  `ChargeComes`), `SettleRefines`, `ReleaseRefines` (`ChargeMoves`); a repeat, a conflict
  and a call that finds nothing to do stutter. It has two hypotheses, which the run meets.
  The store of the ledger limits no USD: it decides both dimensions at once, the abstract
  store has one, and a USD limit denies what the tokens alone admit. And there are finitely
  many ids, as the abstract store bounds its reservations by their number.

These proofs changed the model where it was wrong or could not be reasoned about.
`Fresh` keeps the first of each new attempt of a batch by position, without a recursive
selection. The tightest of some budgets is taken of the set (`Lowest`) and not folded
pair by pair; what the store commits is a sum over its holds, likewise.
`AdmittedWithinEveryBound` used to say that a strict budget named anywhere
in a batch refuses an unpriced attempt of it: that is false, a later attempt's stricter
budget does not refuse one admitted before it (`budget-ledger.ts:1141-1164`, each
in turn), and TLC shows it on such a batch. The property now asks of an attempt what was
named for the bound before it and by itself; the amounts must still fit every budget
named, the later ones of the batch included.

**Lease provider.**

- `Fencing`: the inductive invariant `LeaseInv` of the provider - its type, that
  the stored row is the last grant of its era, and that tokens grow within an era.
- `OnlyTheLast`: from `LeaseInv`, only the last lease of an era can renew,
  acknowledge or release.
- `CancelKept`, `DrainForTheHolder`: signals, each inductive by cases on the
  provider's operations. `CancelKept` states a property of the provider that no run
  checks by itself any more: `run_lease` checks the stronger `CancelSurvives`.
- `Alone`: `HolderIsAlone` when names are used once. Its strengthening says that
  names in `issued` are distinct (`NamesOnce`) and that no holder believes in more
  than one ttl from now (`BeliefBound`): without the first, a holder whose key was
  pruned is taken for the next one of its name; the second keeps what a holder
  believes within what a key may have been granted.

**Run lease.**

- `Holding`: an executor of a run uses a lease it was handed, whatever fails. Its
  steps on the key are the provider's, except that it believes an answer when the
  answer arrives (`KeyStep`, `BelievesInv`).
- `HolderAlone`, `DriveAlone`: `HolderIsAlone` and `DrivesAlone` for executors whose
  renewals answer late. Beliefs alone are not inductive: an answer under way will
  become one. The strengthening `PromisesStand` says that what an answer under way
  promises still stands - nobody else can take the key before the promised time,
  and only the holder itself gives it back, with no renewal under way (`Quiet`).
- `EndedStays`: `EndedIsFinal`, with no assumption on names or leases. The invariant
  `EndsKnown` says nobody is past reading at the revision of an ended run, and
  nobody is ahead of the store: the revision fence does the rest, so an ended run
  is safe even where two executors both believe they drive it.
- `CancelStays`: the half of `CancelSurvives` about a provider that acknowledges.
  Whoever acknowledges a cancel has read an end, stored one, or read before the run
  existed (`Minds`); no other step takes a cancel off the queue (`QueueStep`).
  The other half is about bounded faults and stays with TLC.

**Durable stream.** Every step of a producer is first shown to be one of a dozen
*moves* of its leg (`Makes`, `Flushes`, `Lands`, `Publishes`, `Halts`, ...), each a
predicate that says what becomes of the frames, the fence and the lease. Each result
then has an invariant over one leg that every move keeps, so the actions are taken
apart once and not per theorem.

- `Shape`: `JournalShape`, that is types, `LeaseInv` for the stream's key, that each
  leg knows its own lease, and what a leg may hold at each stage (nothing in flight
  before it opened, nothing queued once it halted or ended).
- `Ledgers`: `LedgerInv`. What a leg sent, kept for its tail, has in flight and has
  queued are seqs in a row; what is out is stored under its name (`Out`), and what is
  in flight starts where its records end or conflicts (`Line`). Without `Line` a
  publish step has nothing to say what the answer "committed" meant: the answer is a
  separate step, and other legs may have written in between.
- `Persists` (`PersistBeforePublish`) and `DoNotInterleave` (`LegsDoNotInterleave`)
  follow: the compare of the first seq keeps every other leg out of the middle, even
  one that shares the fence.
- `ClientReadsInOrder`: `WireKeepsOrder`. `OrderInv` says that what the source made
  *is* wire, tail, batch and queue, one after the other, while a leg lives and its
  client listens; the prefix alone would not survive the step that publishes.
- `EndIsFree`: `EndMeansFree`, from `OrderInv` and `EndsInv`: no `[DONE]` is on the
  wire before the release was answered, and a lease once given back stays given back.
- `OlderRefused` and `OneAtATime`: `OneLegAtATime`. `FenceInv` says a leg's fence is
  at least its token and at most the stored one once it produces, and that of two
  holders in one era the later one's fence is higher, or is its own token and equal to
  the one the earlier derived. It was in this proof that the second case could not be
  excluded: see `journal_shared`.

**Scheduler.** First the pure part: what `Between` and `NextAfter` compute
(`BetweenIs`), and that every `Plan` moves the cursor on, handles exactly the
occurrences in between and, under "latest", leaves the window with something to find
or ends it with its newest (`PlanIs`, `Moves`, `Catches`).

- `SchedulesStand`: the inductive `SchedulerInv`. Its heart is `SeenInv`: what a
  scheduler saw of a schedule is not newer than what is stored, and if revision and
  cursor agree it *is* what is stored (`Known`), because a step keeps the revision and
  raises the cursor and a change raises the revision. So a step that may commit was
  planned from the stored schedule, however late it comes.
- `OnceDelivered` (`DeliveredOnce`) needs `Untouched`: beyond the cursor there is no
  record and no inbox entry. The record's own check (`Advanced` skips what is recorded)
  is not needed for it; the cursor is enough.
- `NoneForgotten` (`NothingForgotten`) and `QuietOnceCancelled` (`CancelledIsQuiet`)
  are conjuncts of `SchedulerInv`.
- `NewestDelivered` (`LatestDeliversTheNewest`) needs `WindowInv`: while a window is
  open, everything it passed was skipped and, if it passed anything, there is more to
  come before its end. A window is closed by the step that reaches its end, so by then
  its newest has just been found.
- `FairTurns` (`TurnsAreFair`): `TurnInv` bounds the ticks a schedule has waited by its
  place in the rotation (`Ahead`): a tick that leaves it due without a turn serves a
  schedule nearer to it than the one served last. What `Rotated` computes is proved
  first (`Lists`, `Turns`).

**Supervisor.** A drive reads, decides and writes in separate steps, and a host, another
drive, a crash or a renumbering of tokens may come between any two of them.

- `DrivesFit`: the inductive `SupInv`, checked by TLC on the instance of `supervisor`
  before it was proved. For each drive, `Fits` says what of its reads still holds. Some
  of it needs no condition, because no write takes it back: a goal seen ended is ended,
  an intent's run is among the runs begun, a planned cancel was asked for, the totals of a
  charge are in the ledger. The rest holds as long as the bit that stands for the
  revision says nothing was written since (`rtFresh`, `goalFresh`, `copyFresh`,
  `markFresh`): what the next checked write relies on. `LegsAgree` is what makes that
  enough for two drives with a leg at once, which a lapse or a provider that counts
  again allows: as long as their intents are open, they are about the same one, and the
  state names it. One lemma per action; the writes share `SaveFits`, `MarkFits`,
  `RecordFits` and `WrittenFits`, the steps that write nothing `RestStep` and `LegStep`.
- `WorkStaysNamed`: `WorkIsNamed`, from `SupInv`. It is not inductive: a drive that
  settles a leg closes the intent it copied before, and only `LegsAgree` says the state
  does not go on naming it.
- `ContractIsKept`: `KeepsContract`, the refinement, step by step: every action is one
  of `Turn`, `Ask`, `ApplyToEnded`, `EndByRun`, `Begin`, `Deliver`, `Settle`,
  `SpendMore` and `Charge`, or changes nothing the host sees. A charge goes through the
  goal's transitions like a command does, so it may end a goal found past its deadline in
  the write that bills it, and the contract's `Charge` says so. `SupInv` gives each checked
  write what the contract asks of it (a record to save follows from the one it
  replaces, `Follows`; an event is applied to a goal that waits; a charge is above the
  watermark and within the ledger).

The proof changed the model once: `StepFor` plans a retry only while a run is active,
as `scheduleRetry` does (`goal/runtime/supervisor-drive.ts:757-761`).

**Swarm.** An executor works in slots on a copy, and its commits wait in a queue, each
with the copy it was decided on out of date by the time it is tried.

- `CopiesAreTrue`: the inductive `SwarmInv`, checked by TLC on the instance of `swarm`
  before it was proved. `Fit` is about one executor: each entry of its queue has exactly
  the slot, the skip, the settling or the cancel it is for (`Lined`); nothing runs once
  it turned to settling or ending (`Quiet`); what its copy calls running is in a slot
  (`Going`); what it decided to settle as is true of its copy (`Settles`). `Agrees` ties
  it to the store: as long as the revision it read is the stored one and no commit of
  its own failed, its copy *is* what is stored. An executor that was taken over may have
  any copy, so `SwarmInv` says nothing of one; its commits are refused (`Takes`). What
  one commit does is shown once per entry of the queue, for any copy (`Commits`), and
  what a dispatch puts into the queue from how many tasks come before each (`Ranks`).
- `StopsQuiet`: `StoppedIsQuiet`, from `Quiet`. It is not inductive: that the slots are
  over when the lease goes is decided several steps before, at the only exits of the
  loop, and the failure of a commit is one of them.
- `SettlesTruly`: `SettledAgrees`, from `Settles` and `Agrees`: the commit that settles
  checks the revision, so what was true of the copy is true of the store. `Going` is
  what makes "no task is running" in the store follow from "no slot is at work" in the
  executor. Neither depends on each task being dispatched once: both hold where
  `EffectsAreAllowed` fails.

The proof changed the model once: a claim that was refused has handed out no handle
yet, so nobody can order a cancel on it (`swarm/scheduler.ts:1088-1092` throws before
`start`); the model had let a cancel be recorded there, by an executor without a copy.

**Recursive functions.** `Records`, `ActiveIn` and the like are recursive functions on
an interval. The induction theorems of the library take an operator and cannot be
instantiated; the proofs use `CountingUp` instead - a set of numbers with 0 and with
the successor of each has them all - which follows from the least element of its
complement (`WFMin`). What such a function computes for every input is thus proved
where a theorem needs it. Sums over finite sets are folds of the
community modules, each a CHOOSE of the function that computes it over the subsets:
the first section of `BudgetStoreProofs` shows that this function exists and then
what a sum needs (one element more, two disjoint parts, groups), by induction on sets
of subsets (`SmallerFirst`, `GrowingUp`). Operators declared RECURSIVE are not within
reach that way.

**Only model-checked.** All liveness; `SpawnsFit`, `ResultsStay` and `CancelIsHandedOn` of
`SwarmExecutor`; `ChargedBeforeItCompletes`; the half of `CancelSurvives` named above. (Where
the ledger's store limits USD, `UsesTheStore` is neither proved nor checked.) The first two
of the swarm are not theorems because they are not true for every value of the
constants: they fail where a task is dispatched twice (the finding `swarm_twice`).
`ChargedBeforeItCompletes` rests on the ledger of a run no
longer growing once the run completed, that is on one executor at a time working on
it; when a provider restarts while executors of several drives still run, that is for
the native run's own store to say, which this model has only in outline.

## 5. Not modelled, and what could come next

The components with status `not_modelled` in `PROJECT.json` carry the reason. Most
are data shaping or I/O. Those with a protocol of their own, in order of
importance:

1. The agent and tool loop (`inference/`): calls, approvals and checkpoints of one
   leg, resumed after a crash, composed with `RunLease` for saves.
2. The batch client (`batch/client.ts:417`) over the ledger's operations: a
   submission that fails at a point nobody knows, while its holds are being closed.
3. The conditional chat store (`internal/chat-projection-cas.ts:63`): a projection
   decided on a revision another writer replaced, or on a chat deleted meanwhile.
4. Stream replay (`ui.ts:1872`) over `DurableJournal`'s stored stream: a client that
   resumes from its last id while the stream is written, pruned or begun again.
5. Versioned memory, realtime sessions and the compute sandbox's operation store.

The stores over SQLite, Postgres and Redis (`node/`) implement the contracts of the
in-memory ones modelled here in other languages (SQL, Lua); their transactions are
taken to be atomic by the models of their callers.

Of the modelled parts, what is left: liveness of a swarm (a drained or crashed run
is finished by whoever resumes it, which is a host's choice) and of the scheduler
(a due schedule is scanned, under fair ticks); a `BudgetStore` with
both dimensions, for a ledger whose store limits both; `ResultsStay` and `SpawnsFit` under
the hypothesis that no task is dispatched twice.
