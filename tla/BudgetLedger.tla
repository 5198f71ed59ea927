---------------------------- MODULE BudgetLedger ----------------------------
(***************************************************************************)
(* The budget ledger of one run (packages/core/src/budget-ledger.ts): it   *)
(* admits an attempt against its own budget and the budget of every scope  *)
(* the attempt is charged to, then against the shared BudgetStore; mirrors *)
(* settlements and releases into the store; writes a snapshot before any   *)
(* operation returns; and folds finished scopes into aggregates.           *)
(*                                                                         *)
(* Operations run one at a time from a queue.  Between the awaits of one   *)
(* operation the store is changed by others (a sweep), an answer may be    *)
(* lost after the call took effect, a write may fail, the process may      *)
(* crash and restore the last snapshot.                                    *)
(*                                                                         *)
(* Abstractions: usage is its token total; spent and held amounts of an    *)
(* aggregate are one sum; warnings, error texts, revision numbers and the  *)
(* reported counts are left out; there is one persistence sink and one     *)
(* lifetime scope in the store.                                            *)
(***************************************************************************)
EXTENDS Integers, FiniteSetsExt, SequencesExt

CONSTANTS
  Offers,       \* what callers reserve: [id, est, chain, unpriced, unaccounted],
                \* chain is the sequence of [id, budget] scopes, outermost first
  Batches,      \* sequences of offers reserved in one step
  Adopted,      \* offers another ledger already admitted
  Settlements,  \* [tokens, usd], either may be None
  Usages,       \* token totals settled through settleUsage
  Prices,       \* what the price provider answers: an amount, NoPrice, Outage
  Compacted,    \* scopes that finish and are compacted
  Budget,       \* the budget of the ledger
  Admission,    \* is there a persistent store?
  StoreLimits,  \* the limits of its scope
  SweepHow,     \* how a sweep may close a hold
  MaxSweeps,    \* bound on holds swept
  MaxFaults,    \* bound on lost answers and failed writes
  MaxCrashes    \* bound on crashes

None == -1
NoPrice == -2
Outage == -3
Dims == {"tokens", "usd"}
CloseAttempts == 3

VARIABLES
  entries,   \* id -> record (partial)
  aggs,      \* chain of scope ids -> aggregate (partial)
  op,        \* the operation that runs, or NoOp
  poisoned,  \* persistence has failed
  disk,      \* the last snapshot written
  holds,     \* the store's records: id -> [tokens, usd, state, actual] (partial)
  faults,    \* lost answers and failed writes so far
  crashes,   \* crashes so far
  folded,    \* ghost: every record compacted, with the scopes it still counts for
  acked,     \* ghost: id -> the record last returned to a caller (partial)
  swept,     \* ghost: holds a sweep closed
  unsure     \* ghost: ids whose admission, or close, the ledger never saw answered

ledgerVars == <<entries, aggs, op, poisoned, disk, holds, faults, crashes,
                folded, acked, swept, unsure>>
local == <<entries, aggs, folded>>
world == <<faults, crashes>>

Ids == {o.id : o \in Offers \cup Adopted}
OrZero(amount) == IF amount = None THEN 0 ELSE amount
NoFunction == [x \in {} |-> 0]
With(f, k, v) == [x \in DOMAIN f \cup {k} |-> IF x = k THEN v ELSE f[x]]

-----------------------------------------------------------------------------
(* Bounds: what the records commit in a scope, and its effective budget. *)

Whole == "all"   \* the ledger itself

InScope(chain, s) == s = Whole \/ \E i \in DOMAIN chain : chain[i].id = s
ChainIds(chain) == [i \in DOMAIN chain |-> chain[i].id]

\* An amount that is not known is None.  The scopes of a chain and the attempts
\* of a batch are distinct, an id names one attempt, and the ledger itself is no
\* scope that could finish.
Quantities == [tokens : Nat \cup {None}, usd : Nat \cup {None}]
Budgets == [tokens : Nat \cup {None}, usd : Nat \cup {None}, reject : BOOLEAN]
ASSUME LedgerAssumption ==
  /\ \A o \in Offers \cup Adopted :
       /\ o.est \in Quantities /\ o.unpriced \in BOOLEAN
       /\ o.unpriced => o.est.usd = None
       /\ o.chain \in Seq([id : STRING \ {Whole}, budget : Budgets])
       /\ \A i, j \in DOMAIN o.chain : o.chain[i].id = o.chain[j].id => i = j
       /\ \A p \in Offers \cup Adopted : p.id = o.id => ChainIds(p.chain) = ChainIds(o.chain)
  /\ \A batch \in Batches :
       /\ batch \in Seq(Offers)
       /\ \A i, j \in DOMAIN batch : batch[i].id = batch[j].id => i = j
  /\ Settlements \subseteq Quantities /\ Usages \subseteq Nat
  /\ Prices \subseteq Nat \cup {NoPrice, Outage}
  /\ Budget \in Budgets /\ Whole \notin Compacted

UnpricedUsd(e) == e.unpriced /\ e.actual.usd = None

\* A live attempt with no amount for d, and one a bound on d fails closed for.
NoAmount(e, d) == e.state # "released" /\ e.actual[d] = None /\ e.in.est[d] = None
HoldsNoEstimate(e, d) == NoAmount(e, d) /\ ~(d = "usd" /\ UnpricedUsd(e))

FoldsNoEstimate(a, d) ==
  IF d = "tokens" THEN a.unestimated[d] > 0 ELSE a.unestimated[d] - a.unpriced > 0

\* What one record counts: its actual amount, or the estimate it holds.
ChargeOf(e, d) ==
  IF e.state = "released" THEN 0
  ELSE IF e.actual[d] # None THEN e.actual[d] ELSE OrZero(e.in.est[d])

Committed(E, s, d) ==
  SumFunctionOnSet([r \in DOMAIN E |-> ChargeOf(E[r], d)],
                   {r \in DOMAIN E : InScope(E[r].in.chain, s)})
  + SumFunctionOnSet([c \in DOMAIN aggs |-> aggs[c].committed[d]],
                     {c \in DOMAIN aggs : InScope(aggs[c].chain, s)})

Unreserved(E, s, d) ==
  \/ \E r \in DOMAIN E : InScope(E[r].in.chain, s) /\ HoldsNoEstimate(E[r], d)
  \/ \E c \in DOMAIN aggs : InScope(aggs[c].chain, s) /\ FoldsNoEstimate(aggs[c], d)

\* The tightest of some limits, and of some budgets.
Lowest(limits) == IF limits \subseteq {None} THEN None ELSE Min(limits \ {None})
Tightest(budgets) ==
  [tokens |-> Lowest({b.tokens : b \in budgets}), usd |-> Lowest({b.usd : b \in budgets}),
   reject |-> \E b \in budgets : b.reject]
NoBudget == [tokens |-> None, usd |-> None, reject |-> FALSE]

BudgetsIn(chain, s) == {chain[i].budget : i \in {j \in DOMAIN chain : chain[j].id = s}}

\* The tightest budget any record named for the scope.
Effective(E, s, own) ==
  Tightest({own} \cup (UNION {BudgetsIn(E[r].in.chain, s) : r \in DOMAIN E})
                 \cup (UNION {BudgetsIn(aggs[c].chain, s) : c \in DOMAIN aggs}))

\* Does one bound admit the attempt?
FitsBound(in, cap, E, s) ==
  /\ ~(in.unaccounted /\ cap.reject)
  /\ \A d \in {x \in Dims : cap[x] # None} :
       /\ in.est[d] = None => d = "usd" /\ in.unpriced /\ ~cap.reject
       /\ ~Unreserved(E, s, d)
       /\ Committed(E, s, d) + OrZero(in.est[d]) <= cap[d]

\* Mutant: a scope is bound by the budget the attempt names alone.
AdmitsOwn(in, E) ==
  /\ FitsBound(in, Budget, E, Whole)
  /\ \A i \in DOMAIN in.chain : FitsBound(in, in.chain[i].budget, E, in.chain[i].id)

\* The first gate: the ledger and every scope of the attempt.
Admits(in, E) ==
  /\ FitsBound(in, Budget, E, Whole)
  /\ \A i \in DOMAIN in.chain :
       FitsBound(in, Effective(E, in.chain[i].id, in.chain[i].budget), E, in.chain[i].id)

\* Some budget of the run refuses what has no price.
Strict(in, E) ==
  \/ Budget.reject
  \/ \E i \in DOMAIN in.chain :
       Effective(E, in.chain[i].id, in.chain[i].budget).reject

\* What the persistent scope needs to know before the store is asked.
PersistentAllows(in, strict) ==
  /\ ~(in.unaccounted /\ (strict \/ StoreLimits.reject))
  /\ \A d \in {x \in Dims : StoreLimits[x] # None /\ in.est[x] = None} :
       d = "usd" /\ in.unpriced /\ ~strict /\ ~StoreLimits.reject

-----------------------------------------------------------------------------
(* Records. *)

Unknown == [tokens |-> None, usd |-> None]
Reserved(in) == [in |-> in, state |-> "reserved", actual |-> Unknown, unpriced |-> in.unpriced]
Released(e) == [e EXCEPT !.state = "released", !.actual = Unknown]

\* The record a settlement leaves; the caller has excluded conflicts.
Settled(e, amounts) ==
  LET actual == [d \in Dims |-> IF e.actual[d] # None THEN e.actual[d] ELSE amounts[d]]
  IN [e EXCEPT !.actual = actual,
               !.state = IF None \in {actual[d] : d \in Dims} THEN "unknown" ELSE "settled"]

SettlementFits(e, amounts) ==
  /\ e.state # "released"
  /\ \A d \in Dims : None \in {e.actual[d], amounts[d]} \/ e.actual[d] = amounts[d]

\* Has the store been told?  Without a USD estimate it needs no price.
SettledInStore(e) ==
  e.state = "settled" \/ (e.in.est.usd = None /\ e.actual.tokens # None)

InStoreAmounts(e) == [tokens |-> e.actual.tokens, usd |-> OrZero(e.actual.usd)]

-----------------------------------------------------------------------------
(* The shared store, one lifetime scope. *)

StoreEst(in) == [tokens |-> OrZero(in.est.tokens), usd |-> OrZero(in.est.usd)]

StoreCharge(h, d) ==
  CASE h.state = "reserved" -> h.est[d]
    [] h.state = "settled"  -> h.actual[d]
    [] OTHER                -> 0

StoreCommitted(d) ==
  SumFunctionOnSet([r \in DOMAIN holds |-> StoreCharge(holds[r], d)], DOMAIN holds)

StoreFits(est) ==
  \A d \in Dims : StoreLimits[d] = None \/ StoreCommitted(d) + est[d] <= StoreLimits[d]

\* What the store answers to a reservation: a repeat gets its recorded outcome.
StoreOutcome(in) ==
  IF in.id \in DOMAIN holds
  THEN IF holds[in.id].est # StoreEst(in) THEN "conflict"
       ELSE IF holds[in.id].state = "denied" THEN "denied" ELSE "admitted"
  ELSE IF StoreFits(StoreEst(in)) THEN "admitted" ELSE "denied"

StoreReserving(in) ==
  holds' = IF in.id \in DOMAIN holds THEN holds
           ELSE With(holds, in.id,
                     [est |-> StoreEst(in), actual |-> [tokens |-> 0, usd |-> 0],
                      state |-> IF StoreFits(StoreEst(in)) THEN "reserved" ELSE "denied"])

\* Mutant: a later settlement replaces an earlier one.
StoreSettlingAgain(r, amounts) ==
  holds' = IF r \in DOMAIN holds /\ holds[r].state \in {"reserved", "settled"}
           THEN [holds EXCEPT ![r].state = "settled", ![r].actual = amounts]
           ELSE holds

\* A settlement or release that conflicts, or finds nothing to do, changes
\* nothing; the ledger takes either for a closed hold.
StoreSettling(r, amounts) ==
  holds' = IF r \in DOMAIN holds /\ holds[r].state = "reserved"
           THEN [holds EXCEPT ![r].state = "settled", ![r].actual = amounts]
           ELSE holds

StoreReleasing(r) ==
  holds' = IF /\ r \in DOMAIN holds
              /\ \/ holds[r].state = "reserved"
                 \/ /\ holds[r].state = "settled"
                    /\ \A d \in Dims : holds[r].actual[d] = 0
           THEN [holds EXCEPT ![r].state = "released"]
           ELSE holds

-----------------------------------------------------------------------------
(* Saving: the record is changed, then a snapshot is written, then the       *)
(* operation returns.                                                        *)

NoOp == [kind |-> "none"]
Idle == op = NoOp /\ ~poisoned

Snapshot == [entries |-> entries, aggs |-> aggs, folded |-> folded]
EmptySnapshot == [entries |-> NoFunction, aggs |-> NoFunction, folded |-> {}]

\* Change the records and go on to write the snapshot; answers are the ids the
\* operation returns (none for a refused step, whose failed write is dropped).
Saving(newEntries, answers) ==
  /\ entries' = newEntries
  /\ op' = [kind |-> "save", answers |-> answers]
  /\ UNCHANGED <<aggs, folded>>

Persist ==
  /\ op.kind = "save"
  /\ disk' = Snapshot
  /\ acked' = [r \in DOMAIN acked \cup op.answers |->
                 IF r \in op.answers THEN entries[r] ELSE acked[r]]
  /\ op' = NoOp
  /\ UNCHANGED <<entries, aggs, poisoned, holds, world, folded, swept, unsure>>

\* Mutant: a failed write is reported once and the ledger goes on.
PersistFailsOnce(written) ==
  /\ op.kind = "save" /\ faults < MaxFaults
  /\ disk' = IF written THEN Snapshot ELSE disk
  /\ acked' = [r \in DOMAIN acked \cup op.answers |->
                 IF r \in op.answers THEN entries[r] ELSE acked[r]]
  /\ op' = NoOp
  /\ faults' = faults + 1
  /\ UNCHANGED <<local, poisoned, holds, crashes, swept, unsure>>

\* A failed write poisons the ledger; it may still have reached the sink.
PersistFails(written) ==
  /\ op.kind = "save" /\ faults < MaxFaults
  /\ disk' = IF written THEN Snapshot ELSE disk
  /\ poisoned' = TRUE
  /\ op' = NoOp
  /\ faults' = faults + 1
  /\ UNCHANGED <<local, holds, crashes, acked, swept, unsure>>

unsaved == <<poisoned, disk, acked, swept>>

-----------------------------------------------------------------------------
(* reserve and adopt. *)

\* The host never reserves again in a scope it compacted.
Finished(chain) ==
  \E f \in folded : \E i \in DOMAIN f.e.in.chain :
    i > Len(f.keep) /\ InScope(chain, f.e.in.chain[i].id)

\* An attempt that is recorded is saved again; a refused one changes nothing.
Reserve(in) ==
  /\ Idle
  /\ \/ /\ in.id \in DOMAIN entries /\ entries[in.id].in = in
        /\ Saving(entries, {in.id})
     \/ /\ in.id \notin DOMAIN entries /\ ~Finished(in.chain)
        /\ Admits(in, entries)
        /\ IF Admission
           THEN /\ PersistentAllows(in, Strict(in, entries))
                /\ op' = [kind |-> "reserve", in |-> in]
                /\ UNCHANGED local
           ELSE Saving(With(entries, in.id, Reserved(in)), {in.id})
  /\ UNCHANGED <<unsaved, holds, world, unsure>>

\* A hold another ledger admitted: only the store is asked.
Adopt(in) ==
  /\ Idle
  /\ \/ /\ in.id \in DOMAIN entries /\ entries[in.id].in = in
        /\ Saving(entries, {in.id})
     \/ /\ in.id \notin DOMAIN entries /\ ~Finished(in.chain)
        /\ IF Admission
           THEN /\ PersistentAllows(in, FALSE)
                /\ op' = [kind |-> "reserve", in |-> in]
                /\ UNCHANGED local
           ELSE Saving(With(entries, in.id, Reserved(in)), {in.id})
  /\ UNCHANGED <<unsaved, holds, world, unsure>>

\* The store answers; only an admission is recorded.
StoreReserve ==
  /\ op.kind = "reserve"
  /\ StoreReserving(op.in)
  /\ IF StoreOutcome(op.in) = "admitted"
     THEN Saving(With(entries, op.in.id, Reserved(op.in)), {op.in.id})
     ELSE op' = NoOp /\ UNCHANGED local
  /\ UNCHANGED <<unsaved, world, unsure>>

\* The call fails; it may have taken effect.
StoreReserveFails(effect) ==
  /\ op.kind = "reserve" /\ faults < MaxFaults
  /\ IF effect THEN StoreReserving(op.in) ELSE UNCHANGED holds
  /\ unsure' = [unsure EXCEPT !.open = @ \cup {op.in.id}]
  /\ op' = NoOp
  /\ faults' = faults + 1
  /\ UNCHANGED <<local, unsaved, crashes>>

-----------------------------------------------------------------------------
(* settle, settleUsage, markUnknown and release. *)

\* Mutant: the store is told as soon as tokens are known.
SettlingEager(r, next) ==
  IF Admission /\ next.actual.tokens # None /\ entries[r].actual.tokens = None
  THEN /\ op' = [kind |-> "close", next |-> next, tries |-> 1]
       /\ UNCHANGED local
  ELSE Saving([entries EXCEPT ![r] = next], {r})

\* Mirror the settlement into the store before the record changes, if the
\* store has something to learn.
Settling(r, next) ==
  IF Admission /\ SettledInStore(next) /\ ~SettledInStore(entries[r])
  THEN /\ op' = [kind |-> "close", next |-> next, tries |-> 1]
       /\ UNCHANGED local
  ELSE Saving([entries EXCEPT ![r] = next], {r})

Settle(r, amounts) ==
  /\ Idle /\ r \in DOMAIN entries
  /\ SettlementFits(entries[r], amounts)
  /\ Settling(r, Settled(entries[r], amounts))
  /\ UNCHANGED <<unsaved, holds, world, unsure>>

\* The price is asked for only when it is not known.  No price: the estimate
\* becomes the charge, if there is one.  An outage leaves the hold.
SettleUsage(r, tokens, price) ==
  /\ Idle /\ r \in DOMAIN entries
  /\ SettlementFits(entries[r], [tokens |-> tokens, usd |-> None])
  /\ LET e == entries[r]
         asked == e.actual.usd = None
         usd == CASE ~asked -> e.actual.usd
                  [] asked /\ price = NoPrice -> e.in.est.usd
                  [] asked /\ price = Outage  -> None
                  [] OTHER -> price
         unpriced == CASE asked /\ price = NoPrice -> TRUE
                       [] asked /\ price >= 0      -> FALSE
                       [] OTHER                    -> e.unpriced
     IN Settling(r, [Settled(e, [tokens |-> tokens, usd |-> usd])
                       EXCEPT !.unpriced = unpriced])
  /\ UNCHANGED <<unsaved, holds, world, unsure>>

MarkUnknown(r) ==
  /\ Idle /\ r \in DOMAIN entries
  /\ Saving([entries EXCEPT ![r].state = IF @ = "reserved" THEN "unknown" ELSE @], {r})
  /\ UNCHANGED <<unsaved, holds, world, unsure>>

\* Mutant: the record is released first, the store told afterwards.
ReleaseFirst(r) ==
  /\ Idle /\ r \in DOMAIN entries
  /\ \A d \in Dims : OrZero(entries[r].actual[d]) = 0
  /\ Saving([entries EXCEPT ![r] = Released(@)], {r})
  /\ UNCHANGED <<unsaved, holds, world, unsure>>

\* Only what was not billed can be released, in the store first.
Release(r) ==
  /\ Idle /\ r \in DOMAIN entries
  /\ \A d \in Dims : OrZero(entries[r].actual[d]) = 0
  /\ IF Admission /\ entries[r].state # "released"
     THEN /\ op' = [kind |-> "close", next |-> Released(entries[r]), tries |-> 1]
          /\ UNCHANGED local
     ELSE Saving([entries EXCEPT ![r] = Released(@)], {r})
  /\ UNCHANGED <<unsaved, holds, world, unsure>>

\* The store call that closes the hold of e.
Closing(e) ==
  IF e.state = "released" THEN StoreReleasing(e.in.id)
  ELSE StoreSettling(e.in.id, InStoreAmounts(e))

StoreClose ==
  /\ op.kind = "close"
  /\ Closing(op.next)
  /\ Saving([entries EXCEPT ![op.next.in.id] = op.next], {op.next.in.id})
  /\ UNCHANGED <<unsaved, world, unsure>>

\* A call that fails is repeated; the last failure leaves the record as it was.
StoreCloseFails(effect) ==
  /\ op.kind = "close" /\ faults < MaxFaults
  /\ IF effect THEN Closing(op.next) ELSE UNCHANGED holds
  /\ op' = IF op.tries < CloseAttempts THEN [op EXCEPT !.tries = @ + 1] ELSE NoOp
  /\ unsure' = [unsure EXCEPT !.close = @ \cup {op.next.in.id}]
  /\ faults' = faults + 1
  /\ UNCHANGED <<local, unsaved, crashes>>

-----------------------------------------------------------------------------
(* reserveMany: all or none. *)

\* The attempts of a batch that have no record yet.
Fresh(batch) ==
  LET new == {i \in DOMAIN batch : batch[i].id \notin DOMAIN entries}
  IN [n \in 1..Cardinality(new) |->
        batch[CHOOSE i \in new : Cardinality({j \in new : j < i}) = n - 1]]

\* The records with the first n attempts admitted.
After(fresh, n) ==
  [r \in DOMAIN entries \cup {fresh[i].id : i \in 1..n} |->
     IF r \in DOMAIN entries THEN entries[r]
     ELSE Reserved(CHOOSE in \in {fresh[i] : i \in 1..n} : in.id = r)]

\* How many attempts the first gate admits, each after the ones before it.
AdmittedInTurn(fresh) ==
  Max({n \in 0..Len(fresh) : \A i \in 1..n : Admits(fresh[i], After(fresh, i - 1))})

\* Record what was admitted before the refusal as released, what the store
\* would not take back as reserved.
Withdrawn(fresh, n, kept) ==
  [r \in DOMAIN entries \cup {fresh[i].id : i \in 1..n} |->
     IF \A i \in 1..n : fresh[i].id # r THEN entries[r]
     ELSE IF r \in kept THEN After(fresh, n)[r] ELSE Released(After(fresh, n)[r])]

Withdraw(fresh, n, kept) ==
  IF n = 0 THEN op' = NoOp /\ UNCHANGED local
  ELSE Saving(Withdrawn(fresh, n, kept), {})

ReserveMany(batch) ==
  /\ Idle
  /\ \A i \in DOMAIN batch :
       batch[i].id \in DOMAIN entries => entries[batch[i].id].in = batch[i]
  /\ \A i \in DOMAIN Fresh(batch) : ~Finished(Fresh(batch)[i].chain)
  /\ LET fresh == Fresh(batch)
         n     == AdmittedInTurn(fresh)
         ids   == {batch[i].id : i \in DOMAIN batch}
     IN IF n < Len(fresh) THEN n > 0 /\ Withdraw(fresh, n, {})
        ELSE IF Admission /\ fresh # <<>>
        THEN /\ op' = [kind |-> "batch", fresh |-> fresh, ids |-> ids, done |-> 0,
                       strict |-> {i \in DOMAIN fresh : Strict(fresh[i], After(fresh, i - 1))}]
             /\ UNCHANGED local
        ELSE Saving(After(fresh, n), ids)
  /\ UNCHANGED <<unsaved, holds, world, unsure>>

\* Mutant: the holds made are withdrawn here but not given back.
UndoLocal(fresh, done) == Withdraw(fresh, done, {})

\* The step is refused: give back the holds made, the last one first.
Undo(fresh, done) ==
  IF done = 0 THEN op' = NoOp /\ UNCHANGED local
  ELSE /\ op' = [kind |-> "undo", fresh |-> fresh, made |-> done, left |-> done,
                 tries |-> 1, kept |-> {}]
       /\ UNCHANGED local

\* The next attempt of the batch meets the second gate.
BatchReserve ==
  /\ op.kind = "batch"
  /\ LET n == op.done + 1
         in == op.fresh[n]
     IN IF ~PersistentAllows(in, n \in op.strict)
        THEN UNCHANGED holds /\ Undo(op.fresh, op.done)
        ELSE /\ StoreReserving(in)
             /\ IF StoreOutcome(in) # "admitted" THEN Undo(op.fresh, op.done)
                ELSE IF n < Len(op.fresh)
                THEN op' = [op EXCEPT !.done = n] /\ UNCHANGED local
                ELSE Saving(After(op.fresh, n), op.ids)
  /\ UNCHANGED <<unsaved, world, unsure>>

BatchReserveFails(effect) ==
  /\ op.kind = "batch" /\ faults < MaxFaults
  /\ LET in == op.fresh[op.done + 1]
     IN /\ PersistentAllows(in, op.done + 1 \in op.strict)
        /\ IF effect THEN StoreReserving(in) ELSE UNCHANGED holds
        /\ unsure' = [unsure EXCEPT !.open = @ \cup {in.id}]
  /\ Undo(op.fresh, op.done)
  /\ faults' = faults + 1
  /\ UNCHANGED <<unsaved, crashes>>

\* One hold is given back, or kept.
Undone(kept) ==
  IF op.left > 1
  THEN /\ op' = [op EXCEPT !.left = @ - 1, !.tries = 1, !.kept = kept]
       /\ UNCHANGED local
  ELSE Withdraw(op.fresh, op.made, kept)

UndoRelease ==
  /\ op.kind = "undo"
  /\ StoreReleasing(op.fresh[op.left].id)
  /\ Undone(op.kept)
  /\ UNCHANGED <<unsaved, world, unsure>>

UndoFails(effect) ==
  /\ op.kind = "undo" /\ faults < MaxFaults
  /\ LET r == op.fresh[op.left].id
     IN /\ IF effect THEN StoreReleasing(r) ELSE UNCHANGED holds
        /\ IF op.tries < CloseAttempts
           THEN op' = [op EXCEPT !.tries = @ + 1] /\ UNCHANGED local
           ELSE Undone(op.kept \cup {r})
        /\ unsure' = [unsure EXCEPT !.close = @ \cup {r}]
  /\ faults' = faults + 1
  /\ UNCHANGED <<unsaved, crashes>>

-----------------------------------------------------------------------------
(* compact: fold the closed records of a finished scope. *)

PositionOf(chain, s) == CHOOSE i \in DOMAIN chain : chain[i].id = s
Ancestors(chain, s) == SubSeq(chain, 1, PositionOf(chain, s) - 1)

CompactedIn(s) ==
  {r \in DOMAIN entries : InScope(entries[r].in.chain, s) /\ entries[r].state # "reserved"}

\* Mutant: an attempt folded before its usage is known counts nothing.
FoldInSpent(old, new, R) ==
  LET Chains == {old} \cup {new[r].chain : r \in R}
  IN [chain |-> [i \in DOMAIN old |->
                   [id |-> old[i].id, budget |-> Tightest({c[i].budget : c \in Chains})]],
      committed |-> [d \in Dims |->
                       SumFunctionOnSet([r \in R |-> OrZero(new[r].e.actual[d])], R)],
      unestimated |-> [d \in Dims |-> Cardinality({r \in R : NoAmount(new[r].e, d)})],
      unpriced |-> Cardinality({r \in R : new[r].e.state # "released" /\ UnpricedUsd(new[r].e)})]

\* The aggregate of the records R, whose kept chains name the same scopes: the
\* tightest budgets, the sums, and how many hold no estimate.
FoldIn(old, new, R) ==
  LET Chains == {old} \cup {new[r].chain : r \in R}
  IN [chain |-> [i \in DOMAIN old |->
                   [id |-> old[i].id, budget |-> Tightest({c[i].budget : c \in Chains})]],
      committed |-> [d \in Dims |->
                       SumFunctionOnSet([r \in R |-> ChargeOf(new[r].e, d)], R)],
      unestimated |-> [d \in Dims |-> Cardinality({r \in R : NoAmount(new[r].e, d)})],
      unpriced |-> Cardinality({r \in R : new[r].e.state # "released" /\ UnpricedUsd(new[r].e)})]

NoAggregate(chain) ==
  [chain |-> [i \in DOMAIN chain |-> [id |-> chain[i].id, budget |-> NoBudget]],
   committed |-> [d \in Dims |-> 0], unestimated |-> [d \in Dims |-> 0], unpriced |-> 0]

PlusAggregate(a, b) ==
  [chain |-> b.chain,
   committed |-> [d \in Dims |-> a.committed[d] + b.committed[d]],
   unestimated |-> [d \in Dims |-> a.unestimated[d] + b.unestimated[d]],
   unpriced |-> a.unpriced + b.unpriced]

Compact(s) ==
  /\ Idle /\ s \in Compacted
  /\ CompactedIn(s) # {}
  /\ LET R    == CompactedIn(s)
         new  == [r \in R |-> [e |-> entries[r], chain |-> Ancestors(entries[r].in.chain, s)]]
         Key(r) == ChainIds(new[r].chain)
         keys == {Key(r) : r \in {q \in R : new[q].chain # <<>> \/ new[q].e.state # "released"}}
         Old(c) == IF c \in DOMAIN aggs THEN aggs[c]
                   ELSE NoAggregate(new[CHOOSE r \in R : Key(r) = c].chain)
     IN /\ aggs' = [c \in DOMAIN aggs \cup keys |->
                      IF c \notin keys THEN aggs[c]
                      ELSE PlusAggregate(Old(c),
                             FoldIn(Old(c).chain, new, {r \in R : Key(r) = c}))]
        /\ entries' = [r \in DOMAIN entries \ R |-> entries[r]]
        /\ folded' = folded \cup {[n |-> Cardinality(folded), e |-> entries[r],
                                   keep |-> new[r].chain] : r \in R}
  /\ op' = [kind |-> "save", answers |-> {}]
  /\ UNCHANGED <<unsaved, holds, world, unsure>>

-----------------------------------------------------------------------------
(* The world. *)

\* A sweep of the store closes an open hold.
Sweep(r, how) ==
  /\ r \in DOMAIN holds /\ holds[r].state = "reserved" /\ Cardinality(swept) < MaxSweeps
  /\ IF how = "release" THEN StoreReleasing(r) ELSE StoreSettling(r, holds[r].est)
  /\ swept' = swept \cup {r}
  /\ UNCHANGED <<local, op, poisoned, disk, world, acked, unsure>>

\* The store calls of the running operation that may have taken effect.
Calling ==
  CASE op.kind = "reserve" -> {op.in.id}
    [] op.kind = "close"   -> {op.next.in.id}
    [] op.kind \in {"batch", "undo"} -> {op.fresh[i].id : i \in DOMAIN op.fresh}
    [] OTHER -> {}

\* The process dies, or the host discards a poisoned ledger; a new ledger is
\* restored from the last snapshot.
Restart ==
  /\ crashes < MaxCrashes
  /\ entries' = disk.entries /\ aggs' = disk.aggs /\ folded' = disk.folded
  /\ op' = NoOp /\ poisoned' = FALSE
  /\ unsure' = [open  |-> unsure.open \cup (Calling \ DOMAIN entries)
                               \cup (DOMAIN entries \ DOMAIN disk.entries),
                 close |-> unsure.close \cup (Calling \cap DOMAIN entries)
                               \cup {r \in DOMAIN entries \cap DOMAIN disk.entries :
                                       disk.entries[r] # entries[r]}]
  /\ crashes' = crashes + 1
  /\ UNCHANGED <<disk, holds, faults, acked, swept>>

LedgerInit ==
  /\ entries = NoFunction /\ aggs = NoFunction /\ op = NoOp /\ poisoned = FALSE
  /\ disk = EmptySnapshot
  /\ holds = NoFunction
  /\ faults = 0 /\ crashes = 0
  /\ folded = {} /\ acked = NoFunction /\ swept = {} /\ unsure = [open |-> {}, close |-> {}]

LedgerNext ==
  \/ \E in \in Offers : Reserve(in)
  \/ \E in \in Adopted : Adopt(in)
  \/ \E batch \in Batches : ReserveMany(batch)
  \/ \E r \in Ids :
       \/ \E amounts \in Settlements : Settle(r, amounts)
       \/ \E tokens \in Usages, price \in Prices : SettleUsage(r, tokens, price)
       \/ MarkUnknown(r) \/ Release(r)
       \/ \E how \in SweepHow : Sweep(r, how)
  \/ \E s \in Compacted : Compact(s)
  \/ StoreReserve \/ StoreClose \/ BatchReserve \/ UndoRelease \/ Persist
  \/ \E effect \in BOOLEAN :
       \/ StoreReserveFails(effect) \/ StoreCloseFails(effect)
       \/ BatchReserveFails(effect) \/ UndoFails(effect) \/ PersistFails(effect)
  \/ Restart

LedgerSpec == LedgerInit /\ [][LedgerNext]_ledgerVars

-----------------------------------------------------------------------------
(* Properties. *)

\* Everything the run ever recorded for scope s: the records, and those folded.
Accounts ==
  {[n |-> -1, e |-> entries[r], keep |-> entries[r].in.chain] : r \in DOMAIN entries}
    \cup folded

In(s) == {f \in Accounts : InScope(f.keep, s)}
Named(F, s) == UNION {BudgetsIn(f.keep, s) : f \in F}
Charged(F, d) == SumFunctionOnSet([f \in F |-> ChargeOf(f.e, d)], F)

Bounds == {Whole} \cup UNION {{o.chain[i].id : i \in DOMAIN o.chain} : o \in Offers \cup Adopted}

\* Compaction is invisible to the bounds that live on (the ledger, and the
\* ancestors of a finished scope): what they commit, whether some attempt holds
\* no estimate, and the tightest budget they were named with are those of all
\* the records ever charged to them (budget-ledger.ts, compact and fold).
FoldingKeepsAccounts ==
  \A s \in Bounds :
    /\ \A d \in Dims :
         /\ Committed(entries, s, d) = Charged(In(s), d)
         /\ Unreserved(entries, s, d) <=> \E f \in In(s) : HoldsNoEstimate(f.e, d)
    /\ Effective(entries, s, NoBudget) = Tightest(Named(In(s), s))

\* The bound s of the attempt once the step has admitted it: its tightest budget
\* holds all that is charged to it, nothing of unknown size is charged under a
\* limit, and the attempt itself was not let past a strict bound.
StaysInBound(in, s) ==
  LET own    == IF s = Whole THEN {Budget} ELSE {}
      before == Tightest(own \cup Named(In(s), s) \cup BudgetsIn(in.chain, s))
      cap    == Tightest(own \cup Named(In(s)', s))
  IN /\ \A d \in {x \in Dims : cap[x] # None} :
          Charged(In(s)', d) <= cap[d] /\ \A f \in In(s)' : ~HoldsNoEstimate(f.e, d)
     /\ before.reject =>
          ~in.unaccounted /\ \A d \in {x \in Dims : before[x] # None} : in.est[d] # None

\* Nothing is admitted past a bound: after an admission, alone or in a batch,
\* every bound of the attempt holds all it ever charged within the tightest
\* budget ever named for it, and no charge under a limit is of unknown size; a
\* bound that was strict by then admits nothing without a price or an account
\* (budget-ledger.ts, reserve, reserveMany and fits).  An adopted hold is exempt.
AdmittedWithinEveryBound ==
  [][\A r \in DOMAIN entries' \ DOMAIN entries :
       entries'[r].state = "reserved" /\ entries'[r].in \notin Adopted /\ crashes' = crashes =>
         \A s \in {x \in Bounds : InScope(entries'[r].in.chain, x)} :
           StaysInBound(entries'[r].in, s)]_ledgerVars

Progress(state) == CASE state = "reserved" -> 0 [] state = "unknown" -> 1 [] OTHER -> 2

\* A record an operation returned survives every crash: the last snapshot still
\* has it, no further back than the caller saw it, or has folded it
\* (budget-ledger.ts, save and persistSnapshot).
AnswersAreDurable ==
  \A r \in DOMAIN acked :
    \E e \in {disk.entries[q] : q \in DOMAIN disk.entries \cap {r}}
            \cup {f.e : f \in {g \in disk.folded : g.e.in.id = r}} :
      /\ Progress(acked[r].state) <= Progress(e.state)
      /\ \A d \in Dims : acked[r].actual[d] > 0 => e.actual[d] = acked[r].actual[d]

IsHeld(r) == r \in DOMAIN holds /\ holds[r].state = "reserved"

\* A hold is closed in the store before the ledger calls it closed, whatever
\* answers are lost and wherever the process dies (settle, settleUsage and
\* release mirror first).  A refused batch records an attempt as released
\* without asking the store: a hold made by an earlier call whose answer was
\* lost then stays.
ClosedHereClosedThere ==
  \A r \in DOMAIN entries :
    Admission /\ (entries[r].state = "released" \/ SettledInStore(entries[r]))
      => ~IsHeld(r) \/ (r \in unsure.open /\ entries[r].state = "released")

\* Every open hold has an owner: a live record that will close it, an operation
\* in progress, a folded attempt whose usage is unknown, or a call whose answer
\* was lost.  A refused batch leaves no other hold behind.
HoldsAreOwned ==
  \A r \in DOMAIN holds : IsHeld(r) =>
    \/ r \in DOMAIN entries /\ entries[r].state # "released" /\ ~SettledInStore(entries[r])
    \/ r \in Calling \cup unsure.open \cup unsure.close
    \/ \E f \in folded : f.e.in.id = r /\ f.e.state = "unknown"

\* Unknown usage never frees a hold: while the ledger waits for the usage of an
\* attempt, the store counts its estimate, unless a sweep closed it or the
\* answer of an earlier close was lost.
LiveIsHeld ==
  \A r \in DOMAIN entries :
    Admission /\ entries[r].state # "released" /\ ~SettledInStore(entries[r])
      => IsHeld(r) \/ r \in swept \cup unsure.open \cup unsure.close

\* What the store holds is what the records say it must hold, both ways: no hold
\* leaks, and none is given up early.
HoldsMatchRecords == HoldsAreOwned /\ LiveIsHeld

\* The store, in tokens, is the admission store of BudgetStore: every step of
\* the ledger is one of its operations or leaves it alone.
TokenScope == [limit |-> StoreLimits.tokens, window |-> [ms |-> 0, buckets |-> 1]]
TokenRow == <<"org", 0, "model">>
TokenInput(est) == [model |-> "model", est |-> est, scopes |-> [k \in {"org"} |-> TokenScope]]
Admitted == {r \in DOMAIN holds : holds[r].state # "denied"}

Shared == INSTANCE BudgetStore WITH
  Requests <- Ids, Keys <- {"org"}, Models <- {"model"},
  Inputs <- {TokenInput(StoreEst(o).tokens) : o \in Offers \cup Adopted},
  Actuals <- {OrZero(a.tokens) : a \in Settlements} \cup Usages
               \cup {StoreEst(o).tokens : o \in Offers \cup Adopted},
  LifetimeBucketMs <- 1, MaxTime <- 0, MaxReserves <- Cardinality(Ids),
  ClockMayGoBack <- FALSE, Repeats <- FALSE, PruneCutoffs <- {}, SweepCutoffs <- {},
  SweepPage <- 1, SweepLimit <- 1, Resolutions <- {}, NoLimit <- None,
  now <- 0,
  requests <- [r \in DOMAIN holds |->
                 [id |-> r, gen |-> 0, in |-> TokenInput(holds[r].est.tokens), at |-> 0,
                  actual |-> holds[r].actual.tokens, state |-> holds[r].state,
                  charges |-> [k \in {"org"} |-> 0]]],
  rows <- [x \in (IF Admitted = {} THEN {} ELSE {TokenRow}) |-> StoreCommitted("tokens")],
  totals <- [k \in {"org"} |-> StoreCommitted("tokens")],
  newest <- [k \in {"org"} |-> IF Admitted = {} THEN -1 ELSE 0],
  windows <- [k \in {"org"} |-> IF holds = NoFunction THEN [ms |-> -1, buckets |-> 0]
                                 ELSE TokenScope.window],
  sweep <- [on |-> FALSE], archive <- {}, prunedAt <- 0,
  issued <- Cardinality(DOMAIN holds)

\* The ledger uses the store only through its operations.
UsesTheStore == Shared!StoreSpec

=============================================================================
