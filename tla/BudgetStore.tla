----------------------------- MODULE BudgetStore -----------------------------
(***************************************************************************)
(* The shared admission store (packages/core/src/budget-store.ts): many    *)
(* processes reserve an estimate against budget scopes, and later settle   *)
(* it with the amount really used or release it.  A reservation is charged *)
(* to one history bucket per scope; prune forgets closed requests and      *)
(* folds old buckets; sweep closes the holds that crashed callers leaked.  *)
(* Every method of the store is atomic; a sweep is not, it pages through   *)
(* the holds and closes them one call at a time.                           *)
(*                                                                         *)
(* Abstractions: the two dimensions (tokens, USD) are decided and moved    *)
(* alike, one stands for both; a throwing or no-op call changes nothing    *)
(* and is a stuttering step; what a sweep reports is left out.             *)
(***************************************************************************)
EXTENDS Integers, FiniteSetsExt

CONSTANTS
  Requests,          \* request ids, numbers as their order matters
  Keys,              \* scope keys
  Models,            \* model ids: history rows are kept per model
  Inputs,            \* what a caller may reserve: [model, est, scopes],
                     \* scopes maps a nonempty set of keys to [limit, window]
  Actuals,           \* amounts a caller may settle with
  LifetimeBucketMs,  \* history granularity of a lifetime scope
  MaxTime,           \* bound of the clock
  MaxReserves,       \* bound on admissions and denials recorded
  ClockMayGoBack,    \* the wall clock can be stepped back
  Repeats,           \* a caller may reserve again an id that prune forgot
  PruneCutoffs,      \* the cutoffs prune is called with
  SweepCutoffs,      \* the cutoffs sweep is called with
  SweepPage,         \* holds one page of a sweep reads (1000 in the code)
  SweepLimit,        \* holds one sweep examines
  Resolutions,       \* how a sweep may close a hold: "settle", "release",
                     \* "keep", "custom"
  NoLimit            \* a scope with no limit in this dimension

ASSUME StoreAssumption ==
  /\ LifetimeBucketMs \in Nat \ {0}
  /\ MaxTime \in Nat /\ MaxReserves \in Nat
  /\ ClockMayGoBack \in BOOLEAN /\ Repeats \in BOOLEAN
  /\ PruneCutoffs \subseteq Nat /\ SweepCutoffs \subseteq Nat
  /\ SweepPage \in Nat \ {0} /\ SweepLimit \in Nat \ {0}
  /\ Requests \subseteq Nat /\ Actuals \subseteq Nat
  /\ Resolutions \subseteq {"settle", "release", "keep", "custom"}
  /\ \A in \in Inputs :
       /\ in.model \in Models /\ in.est \in Nat
       /\ DOMAIN in.scopes \subseteq Keys /\ DOMAIN in.scopes # {}
       /\ IsFiniteSet(DOMAIN in.scopes)
       /\ \A k \in DOMAIN in.scopes :
            /\ in.scopes[k].limit \in Nat \cup {NoLimit}
            /\ in.scopes[k].window.ms \in Nat
            /\ in.scopes[k].window.buckets \in Nat \ {0}

VARIABLES
  now,       \* the store's clock
  requests,  \* recorded requests: id -> record (a partial function)
  rows,      \* history: <<key, bucket, model>> -> amount (partial)
  totals,    \* every bucket of a key summed
  newest,    \* the newest bucket a key was charged in, or -1
  windows,   \* the window a key was created with, or NoWindow
  sweep,     \* the running sweep, or NoSweep
  archive,   \* ghost: the records prune forgot
  prunedAt,  \* ghost: the latest time prune ran at
  issued     \* ghost: requests recorded so far

vars == <<now, requests, rows, totals, newest, windows, sweep,
          archive, prunedAt, issued>>
ghosts == <<archive, prunedAt, issued>>
history == <<rows, totals, newest>>

-----------------------------------------------------------------------------
(* Bucket geometry. *)

NoWindow == [ms |-> -1, buckets |-> 0]
IsLifetime(w) == w.ms = 0

BucketMs(w) ==
  IF IsLifetime(w) THEN LifetimeBucketMs
  ELSE (w.ms + w.buckets - 1) \div w.buckets

BucketIndex(w, at) == at \div BucketMs(w)

\* The lowest bucket admission still counts (windowed scopes).
FirstCounted(w, at) == BucketIndex(w, at) - w.buckets + 1

-----------------------------------------------------------------------------
(* Counters. *)

RowsOf(k) == {x \in DOMAIN rows : x[1] = k}

\* What admission counts in scope k at time at.  The window is walked by
\* index when that is shorter than the history, up to the newest bucket.
Committed(k, w, at) ==
  LET first == FirstCounted(w, at)
      last  == IF newest[k] = -1 THEN first ELSE newest[k]
      walked == IF last - first < Cardinality({x[2] : x \in RowsOf(k)})
                THEN {x \in RowsOf(k) : first <= x[2] /\ x[2] <= last}
                ELSE {x \in RowsOf(k) : first <= x[2]}
  IN IF IsLifetime(w) THEN totals[k]
     ELSE SumFunctionOnSet(rows, walked)

\* Does the request fit every scope it names?
Fits(in, at) ==
  \A k \in DOMAIN in.scopes :
    LET s == in.scopes[k] IN
    s.limit # NoLimit => Committed(k, s.window, at) + in.est <= s.limit

\* The rows a request charges.
ChargedRows(rec) ==
  {<<k, rec.charges[k], rec.in.model>> : k \in DOMAIN rec.charges}

\* Mutant: newest is the bucket charged last, not the highest.
AddLast(rec, delta) ==
  /\ rows' = [x \in DOMAIN rows \cup ChargedRows(rec) |->
                (IF x \in DOMAIN rows THEN rows[x] ELSE 0)
                + (IF x \in ChargedRows(rec) THEN delta ELSE 0)]
  /\ totals' = [k \in Keys |->
                  totals[k] + IF k \in DOMAIN rec.charges THEN delta ELSE 0]
  /\ newest' = [k \in Keys |-> IF k \in DOMAIN rec.charges
                               THEN rec.charges[k] ELSE newest[k]]

\* Move every counter the request charges by delta.
Add(rec, delta) ==
  /\ rows' = [x \in DOMAIN rows \cup ChargedRows(rec) |->
                (IF x \in DOMAIN rows THEN rows[x] ELSE 0)
                + (IF x \in ChargedRows(rec) THEN delta ELSE 0)]
  /\ totals' = [k \in Keys |->
                  totals[k] + IF k \in DOMAIN rec.charges THEN delta ELSE 0]
  /\ newest' = [k \in Keys |->
                  IF k \in DOMAIN rec.charges /\ rec.charges[k] > newest[k]
                  THEN rec.charges[k] ELSE newest[k]]

Recorded(r) == r \in DOMAIN requests
IsOpen(r) == Recorded(r) /\ requests[r].state = "reserved"

-----------------------------------------------------------------------------
(* What settling or releasing a recorded request does. *)

SettlePlan(rec, actual) ==
  CASE rec.state = "denied"   -> "noop"
    [] rec.state = "released" -> "conflict"
    [] rec.state = "settled"  ->
         IF rec.actual = actual THEN "noop" ELSE "conflict"
    [] rec.state = "reserved" -> "apply"

\* Mutant: a billed request can be released.
ReleasePlanBilled(rec) ==
  IF rec.state \in {"denied", "released"} THEN "noop" ELSE "apply"

ReleasePlan(rec) ==
  CASE rec.state \in {"denied", "released"} -> "noop"
    [] rec.state = "settled" /\ rec.actual > 0 -> "conflict"
    [] OTHER -> "apply"

-----------------------------------------------------------------------------
(* The operations. *)

NoSweep == [on |-> FALSE]

StoreInit ==
  /\ now = 0
  /\ requests = [r \in {} |-> 0]
  /\ rows = [x \in {} |-> 0]
  /\ totals = [k \in Keys |-> 0]
  /\ newest = [k \in Keys |-> -1]
  /\ windows = [k \in Keys |-> NoWindow]
  /\ sweep = NoSweep
  /\ archive = {}
  /\ prunedAt = 0
  /\ issued = 0

Put(r, rec) ==
  requests' = [q \in DOMAIN requests \cup {r} |-> IF q = r THEN rec ELSE requests[q]]

\* ghost: how often prune has forgotten this id.
Generation(r) == Cardinality({a \in archive : a.id = r})

\* reserve: an id already recorded returns its recorded outcome (or throws on
\* a different input), so only a new id changes anything.  A key's window is
\* fixed by the first request that names it, admitted or not.
Reserve(r, in) ==
  /\ ~Recorded(r)
  /\ \A k \in DOMAIN in.scopes :
       windows[k] \in {NoWindow, in.scopes[k].window}
  /\ issued < MaxReserves
  /\ Repeats \/ \A a \in archive : a.id # r
  /\ LET fits == Fits(in, now)
         rec == [id |-> r, gen |-> Generation(r), in |-> in, at |-> now, actual |-> 0,
                 state |-> IF fits THEN "reserved" ELSE "denied",
                 charges |-> [k \in DOMAIN in.scopes |->
                                BucketIndex(in.scopes[k].window, now)]]
     IN /\ Put(r, rec)
        /\ IF fits THEN Add(rec, in.est) ELSE UNCHANGED history
  /\ windows' = [k \in Keys |-> IF k \in DOMAIN in.scopes
                                THEN in.scopes[k].window ELSE windows[k]]
  /\ issued' = issued + 1
  /\ UNCHANGED <<now, sweep, archive, prunedAt>>

\* Replace the held estimate with the actual amount.
Settling(r, actual) ==
  /\ Recorded(r)
  /\ SettlePlan(requests[r], actual) = "apply"
  /\ Add(requests[r], actual - requests[r].in.est)
  /\ Put(r, [requests[r] EXCEPT !.state = "settled", !.actual = actual])

\* Mutant: subtracts the estimate even when the request was settled with zero.
ReleasingTwice(r) ==
  /\ Recorded(r)
  /\ ReleasePlan(requests[r]) = "apply"
  /\ Add(requests[r], 0 - requests[r].in.est)
  /\ Put(r, [requests[r] EXCEPT !.state = "released"])

\* Drop a hold that was never billed.
Releasing(r) ==
  /\ Recorded(r)
  /\ ReleasePlan(requests[r]) = "apply"
  /\ IF requests[r].state = "reserved"
     THEN Add(requests[r], 0 - requests[r].in.est)
     ELSE UNCHANGED history
  /\ Put(r, [requests[r] EXCEPT !.state = "released"])

Settle(r, actual) ==
  /\ Settling(r, actual)
  /\ UNCHANGED <<now, windows, sweep, ghosts>>

Release(r) ==
  /\ Releasing(r)
  /\ UNCHANGED <<now, windows, sweep, ghosts>>

-----------------------------------------------------------------------------
(* Retention. *)

\* The rows an open hold will still adjust.
HeldBuckets ==
  UNION {{<<k, requests[r].charges[k]>> : k \in DOMAIN requests[r].charges} :
           r \in {q \in DOMAIN requests : requests[q].state = "reserved"}}

IsFoldable(w, index, before, at) ==
  /\ (index + 1) * BucketMs(w) <= before
  /\ (index + 2) * BucketMs(w) <= at
  /\ IsLifetime(w) \/ (index + w.buckets) * BucketMs(w) <= at

\* Mutant: ignores the buckets open holds are charged to.
FoldableRowsHeld(k, m, before) ==
  {x \in DOMAIN rows : /\ x[1] = k /\ x[3] = m
                       /\ IsFoldable(windows[k], x[2], before, now)}

\* The rows of one key and model that fold into the newest of them.
FoldableRows(k, m, before) ==
  {x \in DOMAIN rows : /\ x[1] = k /\ x[3] = m
                       /\ <<k, x[2]>> \notin HeldBuckets
                       /\ IsFoldable(windows[k], x[2], before, now)}

FoldTarget(S) == CHOOSE x \in S : \A y \in S : y[2] <= x[2]

\* The rows that disappear, and the sums that replace them.
FoldedAway(before) ==
  {x \in DOMAIN rows :
     LET S == FoldableRows(x[1], x[3], before) IN x \in S /\ x # FoldTarget(S)}

Folded(before) ==
  [x \in DOMAIN rows \ FoldedAway(before) |->
     LET S == FoldableRows(x[1], x[3], before)
     IN IF x \in S THEN SumFunctionOnSet(rows, S) ELSE rows[x]]

Forgotten(before) ==
  {r \in DOMAIN requests : requests[r].state # "reserved" /\ requests[r].at < before}

Prune(before) ==
  /\ Forgotten(before) # {} \/ FoldedAway(before) # {}
  /\ requests' = [r \in DOMAIN requests \ Forgotten(before) |-> requests[r]]
  /\ rows' = Folded(before)
  /\ archive' = archive \cup {requests[r] : r \in Forgotten(before)}
  /\ prunedAt' = Max({prunedAt, now})
  /\ UNCHANGED <<now, totals, newest, windows, sweep, issued>>

-----------------------------------------------------------------------------
(* sweep: a process of its own, one store call per step. *)

HoldBefore(g, h) == g.at < h.at \/ (g.at = h.at /\ g.id < h.id)

NoHold == [id |-> 0, at |-> -1, est |-> 0]

\* Mutant: the cutoff is one too early.
HoldsEarlier(before, after) ==
  {[id |-> r, at |-> requests[r].at, est |-> requests[r].in.est] :
     r \in {q \in DOMAIN requests :
             IsOpen(q) /\ requests[q].at + 1 < before}}

Holds(before, after) ==
  {[id |-> r, at |-> requests[r].at, est |-> requests[r].in.est] :
     r \in {q \in DOMAIN requests :
             /\ IsOpen(q) /\ requests[q].at < before
             /\ after = NoHold
                  \/ HoldBefore(after, [id |-> q, at |-> requests[q].at])}}

Latest(S) == CHOOSE h \in S : \A g \in S : g = h \/ HoldBefore(g, h)

SweepBegin(before) ==
  /\ ~sweep.on
  /\ sweep' = [on |-> TRUE, reading |-> TRUE, before |-> before,
               left |-> SweepLimit, after |-> NoHold, page |-> {},
               full |-> FALSE]
  /\ UNCHANGED <<now, requests, history, windows, ghosts>>

\* Read the next page, the oldest holds first; an empty one is short, so the
\* sweep returns.
SweepRead ==
  /\ sweep.on /\ sweep.reading
  /\ LET size == IF sweep.left < SweepPage THEN sweep.left ELSE SweepPage
         all  == Holds(sweep.before, sweep.after)
         page == {h \in all : Cardinality({g \in all : HoldBefore(g, h)}) < size}
     IN sweep' = IF page = {} THEN NoSweep
                 ELSE [sweep EXCEPT !.reading = FALSE, !.page = page,
                                    !.full = (Cardinality(page) = size),
                                    !.after = Latest(page)]
  /\ UNCHANGED <<now, requests, history, windows, ghosts>>

\* Where the sweep stands after hold h: at the next hold of the page, at the
\* next page, or done (the page was short, or the limit is reached).
SweepOn(h) ==
  LET s == [sweep EXCEPT !.page = @ \ {h}]
  IN IF s.page # {} THEN s
     ELSE IF sweep.full /\ sweep.left > SweepPage
          THEN [s EXCEPT !.reading = TRUE, !.left = @ - SweepPage]
     ELSE NoSweep

\* Close the first hold of the page as it was read, through settle or release.
\* A call that does nothing or conflicts, and a resolution to keep, pass it by.
SweepClose(how, custom) ==
  /\ sweep.on /\ ~sweep.reading
  /\ \E hold \in sweep.page :
       /\ \A g \in sweep.page : g = hold \/ HoldBefore(hold, g)
       /\ LET r == hold.id
              actual == IF how = "custom" THEN custom ELSE hold.est
              applies == /\ how # "keep" /\ Recorded(r)
                         /\ IF how = "release" THEN ReleasePlan(requests[r]) = "apply"
                            ELSE SettlePlan(requests[r], actual) = "apply"
          IN \/ /\ applies
                /\ IF how = "release" THEN Releasing(r) ELSE Settling(r, actual)
             \/ ~applies /\ UNCHANGED <<requests, history>>
       /\ sweep' = SweepOn(hold)
  /\ UNCHANGED <<now, windows, ghosts>>

\* The wall clock.
Tick(t) ==
  /\ t > now \/ (ClockMayGoBack /\ t < now)
  /\ now' = t
  /\ UNCHANGED <<requests, history, windows, sweep, ghosts>>

-----------------------------------------------------------------------------
StoreNext ==
  \/ \E r \in Requests, in \in Inputs : Reserve(r, in)
  \/ \E r \in Requests, a \in Actuals : Settle(r, a)
  \/ \E r \in Requests : Release(r)
  \/ \E t \in PruneCutoffs : Prune(t)
  \/ \E t \in SweepCutoffs : SweepBegin(t)
  \/ \E t \in 0..MaxTime : Tick(t)
  \/ SweepRead
  \/ \E how \in Resolutions, a \in Actuals : SweepClose(how, a)

StoreSpec == StoreInit /\ [][StoreNext]_vars

\* The operator of the store runs sweep again and again; each sweep's own calls return.
FairSweeps ==
  /\ WF_vars(\E t \in SweepCutoffs : SweepBegin(t))
  /\ WF_vars(SweepRead)
  /\ WF_vars(\E how \in Resolutions, a \in Actuals : SweepClose(how, a))

StoreFairSpec == StoreSpec /\ FairSweeps

-----------------------------------------------------------------------------
(* What the records say, independently of the counters. *)

Records == Range(requests) \cup archive

\* What a record is billed or holds.
Amount(rec) ==
  CASE rec.state = "reserved" -> rec.in.est
    [] rec.state = "settled"  -> rec.actual
    [] OTHER -> 0

Owed(recs) == MapThenSumSet(Amount, recs)

ChargedTo(k) == {rec \in Records : k \in DOMAIN rec.charges}

\* What scope k owes at time at: the amounts of the records in its window.
OwedIn(k, w, at) ==
  Owed({rec \in ChargedTo(k) :
          IsLifetime(w) \/ FirstCounted(w, at) <= rec.charges[k]})

-----------------------------------------------------------------------------
(* Properties. *)

States == {"reserved", "settled", "released", "denied"}

IsRecord(rec) ==
  /\ DOMAIN rec = {"id", "gen", "in", "at", "actual", "state", "charges"}
  /\ rec.id \in Requests /\ rec.in \in Inputs
  /\ rec.at \in Nat /\ rec.actual \in Nat /\ rec.state \in States
  /\ rec.charges \in [DOMAIN rec.in.scopes -> Nat]

SweepFields ==
  {"on", "reading", "before", "left", "after", "page", "full"}

\* Every variable keeps its shape: records are charged to the keys of their
\* input, rows are named by key, bucket and model.
ShapeOK ==
  /\ now \in Nat
  /\ DOMAIN requests \subseteq Requests
  /\ \A r \in DOMAIN requests : IsRecord(requests[r]) /\ requests[r].id = r
  /\ \A rec \in archive : IsRecord(rec)
  /\ DOMAIN rows \subseteq Keys \X Nat \X Models
  /\ totals \in [Keys -> Int]
  /\ newest \in [Keys -> Nat \cup {-1}]
  /\ DOMAIN windows = Keys
  /\ sweep.on \in BOOLEAN
  /\ sweep.on => /\ DOMAIN sweep = SweepFields
                 /\ \A h \in sweep.page : h.est \in Nat

\* Lifetime admission reads totals, usage() sums the history: however holds
\* are charged, settled, released, folded and forgotten, they are the same
\* number, and it is what the records owe.
TotalsMatchHistory ==
  \A k \in Keys : /\ totals[k] = SumFunctionOnSet(rows, RowsOf(k))
                  /\ totals[k] = Owed(ChargedTo(k))

\* "Usage totals and admission do not change" when prune forgets requests and
\* folds buckets: from the last prune on, admission counts exactly what the
\* records in the window owe, the forgotten ones included; should the clock
\* step back before that, it never counts less.
AdmissionCountsWhatIsOwed ==
  \A k \in Keys : windows[k] # NoWindow =>
    \A at \in 0..MaxTime :
      LET counted == Committed(k, windows[k], at)
          owed    == OwedIn(k, windows[k], at)
      IN counted >= owed /\ (at >= prunedAt => counted = owed)

\* An open hold keeps the history rows its settlement will adjust: prune never
\* folds them away.
HeldRowsKept ==
  \A r \in DOMAIN requests :
    requests[r].state = "reserved" => ChargedRows(requests[r]) \subseteq DOMAIN rows

\* Once a request is closed, what it is billed never changes: not by its late
\* caller, not by a sweep, in any order; until prune forgets it.
ClosedIsFinal ==
  [][\A r \in DOMAIN requests \cap DOMAIN requests' :
       requests[r].state # "reserved" => Amount(requests'[r]) = Amount(requests[r])]_vars

\* A leaked hold, reserved before the cutoff sweeps run with, is closed in the
\* end, whatever the page and the limit, when no resolution keeps it open.
Stale == {r \in DOMAIN requests : IsOpen(r) /\ \A t \in SweepCutoffs : requests[r].at < t}

StaleHoldsClose == \A r \in Requests : r \in Stale ~> ~IsOpen(r)

=============================================================================
